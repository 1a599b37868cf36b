------------------------------ MODULE MCClients ------------------------------
(* What a caller meets, checked in one run: the choice of a box (Placement), and *)
(* the two wrappers its shell runs, `lease run' (LeaseRun) and `job run'        *)
(* (JobLog).  They share no state, so a behaviour is of one of them and leaves  *)
(* the others where they began.                                                 *)
EXTENDS Placement, LeaseRun, JobLog, TLC

VARIABLE part

ClientsInit ==
  /\ part \in {"choice", "lease", "job"}
  /\ PlacementInit /\ LeaseRunInit /\ JobLogInit
  /\ part # "lease" => run.kind = "ephemeral"

ClientsNext ==
  /\ UNCHANGED part
  /\ \/ part = "choice" /\ PlacementNext /\ UNCHANGED <<leaseRunVars, jobLogVars>>
     \/ part = "lease" /\ LeaseRunNext /\ UNCHANGED <<placementVars, jobLogVars>>
     \/ part = "job" /\ JobLogNext /\ UNCHANGED <<placementVars, leaseRunVars>>

ClientsVars == <<part, placementVars, leaseRunVars, jobLogVars>>

ClientsSpec == ClientsInit /\ [][ClientsNext]_ClientsVars

\* Bound: LogTold claims nothing of a log once two of its readers have crossed.
StillClaimed == ~seen.crossed

PollerSymmetry == Permutations(Pollers)
=============================================================================
