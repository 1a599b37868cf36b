------------------------------- MODULE MCStore -------------------------------
(* Two stories of the state store, checked in one run: its table of leases       *)
(* (LeaseEvidence) and the files, findings and backups beside it (StoreFiles).   *)
(* They share no variable, so a behaviour is of one of them and leaves the other *)
(* where it began.  Lease ids, requests and boxes are interchangeable.           *)
EXTENDS LeaseEvidence, StoreFiles, TLC

VARIABLE half

StoreRunVars == <<half, evidenceVars, storeVars>>

InitStoreRun ==
  /\ half \in {"leases", "files"}
  /\ EInit /\ StoreInit
  /\ half = "leases" => ~files.present /\ ~files.garbled

NextStoreRun ==
  /\ UNCHANGED half
  /\ \/ half = "leases" /\ ENext /\ UNCHANGED storeVars
     \/ half = "files" /\ StoreNext /\ UNCHANGED evidenceVars

SpecStoreRun == InitStoreRun /\ [][NextStoreRun]_StoreRunVars

\* Bound: of these complications of a lease's story at most one at a time.
Complications ==
  {c \in {"two requests", "a dead tick", "the second lease"} :
     CASE c = "two requests" -> \A a \in Apis : api[a] # NoRequest
       [] c = "a dead tick" -> faults > 0
       [] OTHER -> \A l \in LeaseIds : rows[l] # Null}

\* Bound: the changes left grow fewer with the days.
Bounds == Cardinality(Complications) <= 1 /\ day + moves <= MaxMoves

StoreSymmetry == Permutations(Apis) \cup Permutations(Box)
==============================================================================
