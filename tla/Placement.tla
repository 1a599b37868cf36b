----------------------------- MODULE Placement ------------------------------
(* Which box a caller gets, and why not (fleet/src/serve/lease-eligibility.ts): *)
(* POST /v1/leases and POST /v1/jobs judge every box by its row, its deferring  *)
(* lease and the latest snapshot, which the tick took earlier, take the named   *)
(* box or the highest, and answer a refusal with a reason for each box.         *)
(* A box is its index; boxup versions are numbers, 0 for one that is unknown.   *)
EXTENDS Integers, FiniteSets, FiniteSetsExt

CONSTANTS
  Box,         \* the indices of the fleet's rows
  Canary,      \* [rollout].canary
  Runner,      \* JOB_RUNNER_MIN_BOXUP
  Versions,    \* bound: the versions boxes report
  MaxAge       \* LEASE_MAX_SNAPSHOT_AGE_S, in ticks

ASSUME PlacementAssumption ==
  /\ Box \subseteq Nat /\ IsFiniteSet(Box) /\ Canary \in Nat
  /\ Runner \in Nat \ {0} /\ Versions \subseteq Nat /\ MaxAge \in Nat

None == -1

VARIABLES
  phase,   \* the row's phase
  snap,    \* the latest snapshot: what it recorded of each box, or no row
  age,     \* its age
  hold,    \* the deferring lease on each box
  slot     \* the brain's live job on each box

placementVars == <<phase, snap, age, hold, slot>>

\* What is not read of a box the tick did not reach is not asked either.
Seen ==
  {s \in [observed : {"healthy", "drifted", "asleep", "api_unknown", "none"},
          ver : Versions \cup {0}, running : BOOLEAN] :
     s.observed \notin {"healthy", "drifted"} => ~s.running /\ s.ver = 0}

PlacementTypeOK ==
  /\ phase \in [Box -> {"enrolling", "enrolled", "retired"}]
  /\ snap \in [Box -> Seen] /\ age \in 0..MaxAge + 1
  /\ hold \in [Box -> {"none", "ephemeral", "service", "grace"}]
  /\ slot \in [Box -> BOOLEAN]

\* What a caller may ask for (bound: one of the three flags or a version, or none
\* of them); a job asks for the runner and for nothing else.
Request ==
  {r \in [box : Box \cup {None}, kind : {"ephemeral", "service"},
          require : {{}, {"no_drift"}, {"allow_canary"}, {"job_runner"}},
          version : {0, Runner}, job : BOOLEAN] :
     /\ r.require # {} => r.version = 0
     /\ r.job => r.require = {} /\ r.version = 0}

-----------------------------------------------------------------------------
(* ineligibleReason: the first arm that applies, in its order.                 *)

ByLease(b) == hold[b] # "none"
ByCanary(b, r) == b = Canary /\ ~("allow_canary" \in r.require /\ r.kind = "ephemeral")
ByDrift(b, r) == "no_drift" \in r.require /\ snap[b].observed = "drifted"
ByVersion(b, r) == r.version # 0 /\ (snap[b].ver = 0 \/ snap[b].ver < r.version)
ByRunner(b, r) == r.job /\ (snap[b].ver = 0 \/ snap[b].ver < Runner)
BySlot(b, r) == (r.job \/ "job_runner" \in r.require) /\ snap[b].running

ByObserved(b) == snap[b].observed \in {"asleep", "api_unknown"}
Stale(b) == snap[b].observed = "none" \/ age > MaxAge

Reason(b, r) ==
  IF ByLease(b) THEN "leased"
  ELSE IF ByCanary(b, r) THEN "canary"
  ELSE IF ByObserved(b) THEN "observed"
  ELSE IF Stale(b) THEN "stale"
  ELSE IF ByDrift(b, r) THEN "drifted"
  ELSE IF ByVersion(b, r) THEN "version"
  ELSE IF ByRunner(b, r) THEN "runner"
  ELSE IF BySlot(b, r) THEN "slot"
  ELSE IF phase[b] # "enrolled" THEN "phase" ELSE "eligible"

Candidates(r) == {b \in Box : phase[b] \in {"enrolled", "enrolling"} \/ b = r.box}
Eligible(r) == {b \in Candidates(r) : Reason(b, r) = "eligible"}

\* chooseBox: the named box when it is eligible, else the highest that is.
Chosen(r) ==
  IF r.box # None THEN IF r.box \in Box /\ Reason(r.box, r) = "eligible" THEN r.box ELSE None
  ELSE IF Eligible(r) = {} THEN None ELSE Max(Eligible(r))

\* For mutation: of the others, only those that could not be had are listed.
ExplainedOnlyBad(r) == {b \in Candidates(r) : Reason(b, r) # "eligible"}
\* The map of a refusal: of a named request, the boxes it could have had too.
Explained(r) == Candidates(r)

-----------------------------------------------------------------------------
PlacementInit ==
  /\ phase = [b \in Box |-> "enrolled"]
  /\ snap = [b \in Box |-> [observed |-> "none", ver |-> 0, running |-> FALSE]]
  /\ age = MaxAge + 1
  /\ hold = [b \in Box |-> "none"]
  /\ slot = [b \in Box |-> FALSE]

\* POST /v1/leases: the row, under the partial unique index.
TakeLease(r) ==
  /\ ~r.job /\ Chosen(r) # None
  /\ hold' = [hold EXCEPT ![Chosen(r)] = r.kind]
  /\ UNCHANGED <<phase, snap, age, slot>>

\* POST /v1/jobs: a lease, then the one job per box; a busy box gives it back.
PlaceJob(r) ==
  /\ r.job /\ Chosen(r) # None
  /\ ~slot[Chosen(r)]
  /\ hold' = [hold EXCEPT ![Chosen(r)] = r.kind]
  /\ slot' = [slot EXCEPT ![Chosen(r)] = TRUE]
  /\ UNCHANGED <<phase, snap, age>>

\* A job under a lease its caller supplied asks about no box at all.
JobUnderLease(b) ==
  /\ hold[b] \in {"ephemeral", "service"} /\ ~slot[b]
  /\ slot' = [slot EXCEPT ![b] = TRUE]
  /\ UNCHANGED <<phase, snap, age, hold>>

\* Lost or expired, it keeps the box for a grace; released or swept, no more.
LeaseMoves(b) ==
  /\ hold[b] # "none"
  /\ hold' \in {[hold EXCEPT ![b] = "none"], [hold EXCEPT ![b] = "grace"]}
  /\ UNCHANGED <<phase, snap, age, slot>>

JobCloses(b) ==
  /\ slot[b]
  /\ slot' = [slot EXCEPT ![b] = FALSE]
  /\ UNCHANGED <<phase, snap, age, hold>>

\* The sagas of Membership; retire refuses a leased box unless it is forced.
PhaseMoves(b) ==
  /\ phase' = [phase EXCEPT ![b] = IF @ = "enrolling" THEN "enrolled"
                                   ELSE IF @ = "enrolled" THEN "retired" ELSE "enrolling"]
  /\ UNCHANGED <<snap, age, hold, slot>>

\* The tick is the prober; a report names the box's own slot, whatever the
\* brain's rows say.
Snapshot ==
  /\ snap' \in [Box -> Seen]
  /\ \A b \in Box : phase[b] # "enrolled" => snap'[b].observed = "none"
  /\ age' = 0
  /\ UNCHANGED <<phase, hold, slot>>

Ages ==
  /\ age <= MaxAge
  /\ age' = age + 1
  /\ UNCHANGED <<phase, snap, hold, slot>>

PlacementNext ==
  \/ \E r \in Request : TakeLease(r) \/ PlaceJob(r)
  \/ \E b \in Box : JobUnderLease(b) \/ LeaseMoves(b) \/ JobCloses(b) \/ PhaseMoves(b)
  \/ Snapshot \/ Ages

PlacementSpec == PlacementInit /\ [][PlacementNext]_placementVars

-----------------------------------------------------------------------------
(* Once a tick has seen a box, the reasons of a refusal answer every other     *)
(* request the caller could make: each box of the fleet is in them, a retired  *)
(* one when it was named, and a box is called eligible exactly when asking for *)
(* it by name, with nothing else changed, would be granted; so a refusal that  *)
(* named no box means that naming one does not help.                           *)
RefusalTellsAll ==
  (\E b \in Box : snap[b].observed # "none") =>
  \A r \in Request : Chosen(r) = None =>
    \A b \in Box :
      LET named == [r EXCEPT !.box = b] IN
      IF b \in Explained(r)
        THEN (Reason(b, r) = "eligible") = (Chosen(named) = b)
        ELSE Chosen(named) = None /\ phase[b] = "retired"
=============================================================================
