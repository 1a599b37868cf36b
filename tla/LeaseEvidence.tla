--------------------------- MODULE LeaseEvidence ----------------------------
(***************************************************************************)
(* Leases with a record of what the last tick really saw, to say what      *)
(* evidence a loss rests on.  The record is a history: no step of the      *)
(* program reads it.                                                       *)
(***************************************************************************)
EXTENDS Leases

VARIABLE bad   \* bad[b]: the tick just before this one saw b unhealthy and recorded it

evidenceVars == <<vars, bad>>

EInit == Init /\ bad = [b \in Boxes |-> FALSE]

TickRecorded == pc = "snapshot" /\ snapAge' = 0
TickVanished == pc # "idle" /\ pc' = "idle" /\ ~TickRecorded

\* A recorded tick adds its labels to the record, one that left no row empties it.
Remember ==
  bad' = IF TickRecorded THEN [b \in Boxes |-> observed[b] = "unhealthy"]
         ELSE IF TickVanished THEN [b \in Boxes |-> FALSE]
         ELSE bad

ENext == Next /\ Remember

ESpec == EInit /\ [][ENext]_evidenceVars
-----------------------------------------------------------------------------
BecomesLost(l) == pc = "loss" /\ l \in todo \ todo' /\ pc' = "loss"

\* One failed check never costs a lease: a lease lost to `unhealthy' was
\* unhealthy in the tick just before as well, and a tick that left no snapshot
\* row breaks the pair (detectLoss: exact ordinals, the conservative branch).
LossNeedsTwoTicks ==
  [][\A l \in LeaseIds :
       BecomesLost(l) /\ observed[rows[l].box] = "unhealthy" => bad[rows[l].box]]_evidenceVars
=============================================================================
