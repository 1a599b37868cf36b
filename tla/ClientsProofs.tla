---------------------------- MODULE ClientsProofs ----------------------------
(***************************************************************************)
(* What a caller meets.  For every TTL, retry, grace, lifetime and number  *)
(* of lost calls: `lease run' gives its lease back, keeps it alive, and    *)
(* does not call a lease good that had long been lost (LeaseRun).  For any *)
(* fleet: who is refused a box is told of every box whether it would have  *)
(* been given, and a free choice takes the highest there is (Placement).   *)
(* For every size of a job's log, of a fetch and of the mirror: what was   *)
(* told of the log is all there is to tell (JobLog).                       *)
(***************************************************************************)
EXTENDS LeaseRun, Placement, JobLog, FiniteSetTheorems, SequenceTheorems, WellFoundedInduction, TLAPS

\* The DELETE: not before the lease, sent once the flag is up, and nobody leaves
\* with it in flight unless a signal made him.
DeleteOnce ==
  /\ run.stage = "acquiring" => row.state = "none" /\ ~run.released /\ beat = "idle"
  /\ (run.stage = "ending" \/ run.released) => delete # "none"
  /\ delete # "none" => run.stage # "acquiring"
  /\ delete = "landed" => row.freed
  /\ delete = "lost" => held.unanswered
  /\ run.stage = "gone" /\ ~held.unanswered => delete # "none"
  /\ run.stage = "gone" /\ delete = "sent" => held.signal

\* The timer does not pass the renewal it is due.
BeatKept ==
  run.stage = "running" /\ run.renewing =>
    /\ now <= run.nextRenew
    /\ now = run.nextRenew => beat = "renew"
RenewInTime ==
  /\ beat = "renew" => run.renewing
  /\ run.stage = "running" /\ beat = "renew" => now = run.nextRenew
  /\ held.missed <= now

\* A lease in use ends at its cap, has missed a renewal, or is renewed before.
RenewsBefore ==
  run.stage = "running" /\ row.state = "active" =>
    \/ row.expires >= LifeCap
    \/ held.missed >= row.expires - Retry
    \/ IF run.kind = "service" THEN row.expires > Horizon
       ELSE run.renewing /\ run.nextRenew < row.expires

Kinds ==
  /\ run.kind = "service" => ~run.renewing
  /\ run.stage = "acquiring" => (run.renewing <=> run.kind = "ephemeral")

\* Since the lease went bad every period has had its poll, and each failed.
Bad == row.state \in {"expired", "lost"}
FailsCounted ==
  /\ run.state = "active" => run.fails < PollFailThreshold
  /\ run.stage = "running" /\ run.state = "active" /\ held.bad # Never =>
       now <= held.bad + run.fails + (IF beat = "idle" THEN 0 ELSE 1)
EndKnown ==
  /\ Bad <=> held.bad # Never
  /\ held.bad # Never => held.bad <= now
  /\ run.stage \in {"acquiring", "running"} => held.end = Never /\ run.said = "nothing"
  /\ run.stage \in {"ending", "gone"} => held.end <= now
  /\ run.stage = "ending" => run.said = "nothing"
  /\ run.stage = "ending" /\ run.state = "active" => held.end <= held.bad + PollFailThreshold

LeaseRunInv ==
  /\ LeaseRunTypeOK /\ DeleteOnce /\ BeatKept /\ RenewInTime /\ RenewsBefore /\ Kinds
  /\ FailsCounted /\ EndKnown /\ NotBlind
-----------------------------------------------------------------------------
Rows == [state : {"none", "active", "expired", "lost", "released"}, expires : 0..Never, freed : BOOLEAN]
Runs == [stage : {"acquiring", "running", "ending", "gone"},
         kind : {"ephemeral", "service"}, renewing : BOOLEAN,
         nextRenew : 0..Never, state : {"active", "expired", "lost", "unknown"},
         fails : 0..PollFailThreshold, released : BOOLEAN,
         said : {"nothing", "released", "expired", "lost", "unknown"}]
Helds == [bad : 0..Never, missed : -Never..Horizon, end : 0..Never,
          signal : BOOLEAN, unanswered : BOOLEAN]

LEMMA Types ==
  LeaseRunTypeOK <=>
    /\ now \in 0..Horizon /\ row \in Rows /\ run \in Runs
    /\ beat \in {"idle", "renew", "poll"} /\ delete \in {"none", "sent", "landed", "lost"}
    /\ leaseLosses \in 0..MaxLeaseLosses /\ held \in Helds
BY DEF LeaseRunTypeOK, Rows, Runs, Helds

LEMMA TypesNext ==
  LeaseRunTypeOK' <=>
    /\ now' \in 0..Horizon /\ row' \in Rows /\ run' \in Runs
    /\ beat' \in {"idle", "renew", "poll"} /\ delete' \in {"none", "sent", "landed", "lost"}
    /\ leaseLosses' \in 0..MaxLeaseLosses /\ held' \in Helds
BY DEF LeaseRunTypeOK, Rows, Runs, Helds

\* The renewal of half a TTL, and its retry, come before the expiry.
LEMMA Numbers ==
  /\ {Ttl, Retry, Grace, LifeCap, Horizon} \subseteq Nat \ {0} /\ MaxLeaseLosses \in Nat
  /\ Half \in Nat \ {0} /\ Half + Retry < Ttl + 1 /\ Retry < Ttl /\ Half < Ttl
  /\ Never \in Nat /\ Never = Horizon + Ttl + 1
BY LeaseRunAssumption DEF Half, Never

LEMMA Positive == Half \in Int /\ Half > 0 /\ Retry \in Int /\ Retry > 0 /\ LifeCap \in Int
BY Numbers

LEMMA Lesser ==
  ASSUME NEW a \in Int, NEW b \in Int
  PROVE LesserOf(a, b) \in {a, b} /\ LesserOf(a, b) <= a /\ LesserOf(a, b) <= b
BY DEF LesserOf

LEMMA Later ==
  now \in 0..Horizon => now + Half \in 0..Never /\ now + Retry \in 0..Never /\ now \in 0..Never
BY Numbers

LEMMA GrantTyped ==
  ASSUME LeaseRunTypeOK
  PROVE Granted \in Rows /\ (row.state # "none" => RenewedRow \in Rows)
<1> USE Numbers, Lesser, Types DEF Rows, Runs
<1>1. LesserOf(now + Ttl, LifeCap) \in 0..Never
  OBVIOUS
<1> QED BY <1>1 DEF Granted, RenewedRow

-----------------------------------------------------------------------------
(* One lemma for each action of the wrapper and of the brain.              *)

LEMMA AcquireKeeps == LeaseRunInv /\ Acquire => LeaseRunInv'
<1> SUFFICES ASSUME LeaseRunInv, Acquire PROVE LeaseRunInv'
  OBVIOUS
<1> USE DEF LeaseRunInv
<1>1. Granted \in Rows /\ run \in Runs /\ held \in Helds /\ row \in Rows /\ now \in 0..Horizon
  BY GrantTyped, Types
<1>2. /\ Granted.state = "active"
      /\ run.kind = "service" => Granted.expires = Never
      /\ run.kind = "ephemeral" => Granted.expires \in {now + Ttl, LifeCap}
  BY <1>1, Numbers, Lesser DEF Granted, Runs
<1>3. CASE /\ row' = Granted /\ run' = [run EXCEPT !.stage = "running", !.nextRenew = now + Half]
           /\ UNCHANGED <<leaseLosses, held>>
  <2>t. run' \in Runs
    BY <1>1, <1>3, Later DEF Runs
  <2>1. /\ run' \in Runs /\ run'.stage = "running" /\ run'.nextRenew = now + Half
        /\ run'.kind = run.kind /\ run'.renewing = run.renewing /\ run'.state = run.state
        /\ run'.fails = run.fails /\ run'.released = run.released /\ run'.said = run.said
    BY <1>1, <1>3, <2>t DEF Runs
  <2>2. UNCHANGED <<now, beat, delete, held>> /\ run.stage = "acquiring"
    BY <1>3 DEF Acquire
  <2>3. LeaseRunTypeOK'
    BY <1>1, <1>3, <2>1, <2>2, Types, TypesNext DEF Acquire
  <2>4. DeleteOnce' /\ BeatKept' /\ RenewInTime' /\ Kinds' /\ FailsCounted'
    BY <1>1, <1>2, <1>3, <2>1, <2>2, Numbers
       DEF DeleteOnce, BeatKept, RenewInTime, Kinds, FailsCounted, EndKnown, Bad, Runs, Helds
  <2>5. RenewsBefore'
    BY <1>1, <1>2, <1>3, <2>1, <2>2, Numbers DEF RenewsBefore, Kinds, Runs
  <2>6. EndKnown' /\ NotBlind'
    BY <1>1, <1>2, <1>3, <2>1, <2>2 DEF EndKnown, NotBlind, Bad, DeleteOnce
  <2> QED BY <2>3, <2>4, <2>5, <2>6
<1>4. CASE /\ LoseCall /\ row' \in {row, Granted}
           /\ run' = [run EXCEPT !.stage = "gone", !.said = "unknown"]
           /\ held' = [held EXCEPT !.end = now, !.unanswered = TRUE]
  <2>1. run' \in Runs /\ run'.stage = "gone" /\ run'.said = "unknown"
        /\ run'.kind = run.kind /\ run'.renewing = run.renewing /\ run'.state = run.state
        /\ run'.fails = run.fails /\ run'.released = run.released
    BY <1>1, <1>4 DEF Runs
  <2>t. held' \in Helds
    BY <1>1, <1>4, Later DEF Helds
  <2>2. held' \in Helds /\ held'.end = now /\ held'.unanswered = TRUE /\ held'.bad = held.bad
    BY <1>1, <1>4, <2>t DEF Helds
  <2>3. UNCHANGED <<now, beat, delete>> /\ run.stage = "acquiring"
    BY <1>4 DEF Acquire
  <2>4. LeaseRunTypeOK'
    BY <1>1, <1>4, <2>1, <2>2, <2>3, Types, TypesNext, Numbers DEF LoseCall
  <2>5. DeleteOnce' /\ BeatKept' /\ RenewInTime' /\ Kinds' /\ FailsCounted' /\ RenewsBefore'
    BY <1>1, <1>2, <1>4, <2>1, <2>2, <2>3
       DEF DeleteOnce, BeatKept, RenewInTime, Kinds, FailsCounted, RenewsBefore, Runs, Helds
  <2>6. EndKnown' /\ NotBlind'
    BY <1>1, <1>2, <1>4, <2>1, <2>2, <2>3 DEF EndKnown, NotBlind, Bad, DeleteOnce
  <2> QED BY <2>4, <2>5, <2>6
<1> QED BY <1>3, <1>4 DEF Acquire

LEMMA PeriodKeeps == LeaseRunInv /\ Period => LeaseRunInv'
<1> SUFFICES ASSUME LeaseRunInv, Period PROVE LeaseRunInv'
  OBVIOUS
<1> USE DEF LeaseRunInv
<1>1. run \in Runs /\ held \in Helds /\ row \in Rows /\ now \in 0..Horizon
  BY Types
<1>2. UNCHANGED <<run, row, delete, held>> /\ now' = now + 1 /\ now < Horizon /\ beat = "idle"
  BY DEF Period
<1>3. /\ beat' \in {"idle", "renew", "poll"}
      /\ beat' = "idle" <=> run.stage # "running"
      /\ beat' = "renew" <=> run.stage = "running" /\ run.renewing /\ now + 1 >= run.nextRenew
  BY <1>1 DEF Period, Runs
<1>4. LeaseRunTypeOK'
  BY <1>1, <1>2, <1>3, Types, TypesNext, Numbers DEF Period
<1>5. BeatKept' /\ RenewInTime'
  BY <1>1, <1>2, <1>3 DEF BeatKept, RenewInTime, Runs, Helds
<1>7. DeleteOnce' /\ Kinds' /\ RenewsBefore'
  BY <1>2, <1>3 DEF DeleteOnce, Kinds, RenewsBefore
<1>6. FailsCounted' /\ EndKnown' /\ NotBlind'
  BY <1>1, <1>2, <1>3, Numbers
     DEF Period, FailsCounted, EndKnown, NotBlind, Bad, Runs, Helds, PollFailThreshold
<1> QED BY <1>4, <1>5, <1>6, <1>7

LEMMA RenewKeeps == LeaseRunInv /\ Renew => LeaseRunInv'
<1> SUFFICES ASSUME LeaseRunInv, Renew PROVE LeaseRunInv'
  OBVIOUS
<1> USE DEF LeaseRunInv
<1>1. run \in Runs /\ held \in Helds /\ row \in Rows /\ now \in 0..Horizon
  BY Types
<1>2. UNCHANGED <<now, delete>> /\ beat = "renew" /\ beat' = "poll" /\ run.stage # "gone"
      /\ run.renewing /\ run.stage # "acquiring"
  BY <1>1 DEF Renew, RenewInTime, DeleteOnce
<1>r. row.state = "active" => RenewedRow \in Rows
  BY GrantTyped
<1>s. RenewedRow.state = row.state /\ RenewedRow.freed = row.freed
  BY <1>1 DEF RenewedRow, Rows
<1>t. RenewedRow.expires \in {now + Ttl, LifeCap}
  <2>1. RenewedRow.expires = LesserOf(now + Ttl, LifeCap)
    BY <1>1 DEF RenewedRow, Rows
  <2> QED BY <1>1, <2>1, Lesser, Numbers
<1>3. run' \in Runs
  <2>1. CASE RenewAnswered
    BY <1>1, <2>1, Later DEF RenewAnswered, RetryAt, Runs
  <2>2. CASE RenewLost
    BY <1>1, <2>2, Later DEF RenewLost, RetryAt, Runs
  <2> QED BY <2>1, <2>2 DEF Renew
<1>u. held' \in Helds /\ UNCHANGED <<held.bad, held.end, held.signal, held.unanswered>>
  BY <1>1, Numbers DEF Renew, RenewAnswered, RenewLost, Helds

\* What it keeps, and the three ways it ends.
<1>4. /\ run'.stage = run.stage /\ run'.kind = run.kind /\ run'.state = run.state
      /\ run'.fails = run.fails /\ run'.released = run.released /\ run'.said = run.said
  BY <1>1 DEF Renew, RenewAnswered, RenewLost, Runs
<1>5. \/ /\ row.state = "active" /\ row' = RenewedRow /\ run'.renewing = run.renewing
         /\ run'.nextRenew \in {now + Half, now + Retry}
      \/ /\ row' = row /\ run'.renewing = run.renewing /\ run'.nextRenew = now + Retry
         /\ row.state = "active" => held'.missed = now
      \/ /\ row' = row /\ run'.renewing = FALSE /\ run'.nextRenew = run.nextRenew /\ now >= LifeCap
  <2>1. CASE RenewAnswered
    <3>1. CASE row.state # "active"
      BY <1>1, <2>1, <3>1 DEF RenewAnswered, RetryAt, Runs
    <3>2. CASE row.state = "active" /\ now >= LifeCap /\ ~(now < LifeCap)
      BY <1>1, <2>1, <3>2 DEF RenewAnswered, Runs
    <3>3. CASE row.state = "active" /\ now < LifeCap /\ ~(now >= LifeCap)
      BY <1>1, <2>1, <3>3 DEF RenewAnswered, Runs
    <3>4. (now >= LifeCap /\ ~(now < LifeCap)) \/ (now < LifeCap /\ ~(now >= LifeCap))
      BY <1>1, Positive
    <3> QED BY <3>1, <3>2, <3>3, <3>4
  <2>2. CASE RenewLost
    BY <1>1, <2>2 DEF RenewLost, RetryAt, Runs, Helds
  <2> QED BY <2>1, <2>2 DEF Renew
<1>6. held'.missed >= held.missed /\ held'.missed <= now
  BY <1>1 DEF Renew, RenewAnswered, RenewLost, RenewInTime, Helds
<1>8. LeaseRunTypeOK'
  <2>1. row' \in Rows
    BY <1>1, <1>r, <1>5
  <2>2. leaseLosses' \in 0..MaxLeaseLosses
    BY Types, Numbers DEF Renew, RenewAnswered, RenewLost, LoseCall
  <2> QED BY <1>1, <1>2, <1>3, <1>u, <2>1, <2>2, Types, TypesNext
<1>7. row'.state = row.state /\ row'.freed = row.freed
  BY <1>5, <1>s
<1>9. DeleteOnce' /\ Kinds'
  BY <1>2, <1>4, <1>5, <1>7, <1>u DEF DeleteOnce, Kinds
<1>10. BeatKept' /\ RenewInTime'
  <2>1. run'.renewing => run'.nextRenew > now
    <3>1. now + Half > now /\ now + Retry > now
      BY <1>1, Positive
    <3> QED BY <1>5, <3>1
  <2> QED BY <1>1, <1>2, <1>3, <1>6, <2>1 DEF BeatKept, RenewInTime, Runs
<1>11. RenewsBefore'
  <2>1. run.kind = "ephemeral"
    BY <1>1, <1>2 DEF Kinds, Runs
  <2> SUFFICES ASSUME run.stage = "running", row.state = "active"
               PROVE \/ row'.expires >= LifeCap
                     \/ held'.missed >= row'.expires - Retry
                     \/ run'.renewing /\ run'.nextRenew < row'.expires
    BY <1>4, <1>7, <2>1 DEF RenewsBefore
  <2>2. CASE row' = RenewedRow /\ run'.renewing = run.renewing /\ run'.nextRenew \in {now + Half, now + Retry}
    BY <1>1, <1>2, <1>t, <2>2, Numbers
  <2>3. CASE /\ row' = row /\ run'.renewing = run.renewing /\ run'.nextRenew = now + Retry
             /\ held'.missed = now
    BY <1>1, <1>2, <2>3, Numbers DEF Rows
  <2>4. CASE row' = row /\ run'.renewing = FALSE /\ now >= LifeCap
    BY <1>1, <1>2, <1>3, <1>u, <1>6, <2>1, <2>4, Numbers DEF RenewsBefore, RenewInTime, Runs, Rows, Helds
  <2> QED BY <1>5, <2>2, <2>3, <2>4
<1>12. FailsCounted' /\ EndKnown' /\ NotBlind'
  BY <1>1, <1>2, <1>3, <1>4, <1>7, <1>u
     DEF FailsCounted, EndKnown, NotBlind, Bad, Runs, Helds, PollFailThreshold
<1> QED BY <1>8, <1>9, <1>10, <1>11, <1>12

LEMMA PollKeeps == LeaseRunInv /\ Poll => LeaseRunInv'
<1> SUFFICES ASSUME LeaseRunInv, Poll PROVE LeaseRunInv'
  OBVIOUS
<1> USE DEF LeaseRunInv
<1>1. run \in Runs /\ held \in Helds /\ row \in Rows /\ now \in 0..Horizon
  BY Types
<1>2. UNCHANGED <<now, row, delete, held>> /\ beat = "poll" /\ beat' = "idle" /\ run.stage # "gone"
  BY DEF Poll
<1>3. /\ run' \in Runs /\ run'.stage = run.stage /\ run'.kind = run.kind
      /\ run'.renewing = run.renewing /\ run'.nextRenew = run.nextRenew
      /\ run'.released = run.released /\ run'.said = run.said
  <2>1. LesserOf(run.fails + 1, PollFailThreshold) \in 0..PollFailThreshold
    BY <1>1, Lesser DEF Runs, PollFailThreshold, LesserOf
  <2>2. CASE run' = PollAnswered
    <3>1. PICK s \in {"active", "expired", "lost", "unknown"} :
            run' = [run EXCEPT !.fails = 0, !.state = s]
      <4>1. CASE row.state \in {"lost", "expired"}
        BY <2>2, <4>1 DEF PollAnswered
      <4>2. CASE row.state \notin {"lost", "expired"}
        BY <1>1, <2>2, <4>2 DEF PollAnswered, Runs
      <4> QED BY <4>1, <4>2
    <3>2. 0 \in 0..PollFailThreshold
      BY DEF PollFailThreshold
    <3>3. run' \in Runs
      BY <1>1, <3>1, <3>2 DEF Runs
    <3>4. /\ run'.stage = run.stage /\ run'.kind = run.kind
          /\ run'.renewing = run.renewing /\ run'.nextRenew = run.nextRenew
          /\ run'.released = run.released /\ run'.said = run.said
      BY <1>1, <3>1 DEF Runs
    <3> QED BY <3>3, <3>4
  <2>3. CASE run' = PollFailed
    BY <1>1, <2>1, <2>3 DEF PollFailed, Runs
  <2> QED BY <2>2, <2>3 DEF Poll
\* A poll that leaves the state at "active" found the lease good, or is counted.
<1>4. run'.state = "active" => /\ run.state = "active"
                               /\ \/ ~Bad /\ run'.fails = 0
                                  \/ run'.fails = run.fails + 1 /\ run'.fails < PollFailThreshold
  <2>1. CASE run' = PollAnswered
    BY <1>1, <2>1 DEF PollAnswered, Runs, Bad
  <2>2. CASE run' = PollFailed
    BY <1>1, <2>2 DEF PollFailed, Runs, LesserOf, PollFailThreshold, FailsCounted
  <2> QED BY <2>1, <2>2 DEF Poll
<1>5. LeaseRunTypeOK'
  BY <1>1, <1>2, <1>3, Types, TypesNext, Numbers DEF Poll, LoseCall
<1>6. DeleteOnce' /\ Kinds' /\ RenewsBefore'
  BY <1>2, <1>3 DEF DeleteOnce, Kinds, RenewsBefore
<1>7. BeatKept' /\ RenewInTime'
  BY <1>1, <1>2, <1>3 DEF BeatKept, RenewInTime
<1>8. FailsCounted'
  BY <1>1, <1>2, <1>3, <1>4 DEF FailsCounted, EndKnown, Runs, Helds, PollFailThreshold
<1>9. EndKnown' /\ NotBlind'
  BY <1>2, <1>3, <1>4 DEF EndKnown, NotBlind, Bad
<1> QED BY <1>5, <1>6, <1>7, <1>8, <1>9

LEMMA CommandEndsKeeps ==
  ASSUME NEW threw \in BOOLEAN PROVE LeaseRunInv /\ CommandEnds(threw) => LeaseRunInv'
<1> SUFFICES ASSUME LeaseRunInv, CommandEnds(threw) PROVE LeaseRunInv'
  OBVIOUS
<1> USE DEF LeaseRunInv
<1>1. run \in Runs /\ held \in Helds /\ row \in Rows /\ now \in 0..Horizon
  BY Types
<1>2. UNCHANGED <<now, row, beat, leaseLosses>> /\ run.stage = "running"
      /\ delete' = IF run.released THEN delete ELSE "sent"
  BY DEF CommandEnds
<1>3. /\ run' \in Runs /\ run'.stage = "ending" /\ run'.kind = run.kind
      /\ run'.renewing = run.renewing /\ run'.state = run.state /\ run'.fails = run.fails
      /\ run'.released = TRUE /\ run'.said = run.said
  BY <1>1 DEF CommandEnds, SendDelete, Runs
<1>4. held' \in Helds
  BY <1>1, Later DEF CommandEnds, Helds
<1>5. held'.end = now /\ UNCHANGED <<held.bad, held.missed, held.signal, held.unanswered>>
  BY <1>1 DEF CommandEnds, Helds
<1>6. LeaseRunTypeOK'
  BY <1>1, <1>2, <1>3, <1>4, Types, TypesNext
<1>7. DeleteOnce' /\ Kinds' /\ RenewsBefore' /\ BeatKept' /\ RenewInTime'
  BY <1>1, <1>2, <1>3, <1>5 DEF DeleteOnce, Kinds, RenewsBefore, BeatKept, RenewInTime, Runs
<1>8. FailsCounted'
  BY <1>2, <1>3, <1>5 DEF FailsCounted
<1>9. EndKnown' /\ NotBlind'
  <2>1. run.state = "active" => now <= held.bad + PollFailThreshold
    <3>1. CASE held.bad = Never
      BY <1>1, <3>1, Numbers DEF PollFailThreshold
    <3>2. CASE held.bad # Never
      BY <1>1, <1>2, <3>2 DEF FailsCounted, PollFailThreshold, Runs, Helds
    <3> QED BY <3>1, <3>2
  <2> QED BY <1>1, <1>2, <1>3, <1>5, <2>1 DEF EndKnown, NotBlind, Bad
<1> QED BY <1>6, <1>7, <1>8, <1>9

\* A signal, the DELETE's fate, and the two ways out.
LEMMA LeavingKeeps ==
  LeaseRunInv /\ (Signal \/ DeleteLands \/ DeleteLost \/ Exit \/ KilledWhileReleasing) => LeaseRunInv'
<1> SUFFICES ASSUME LeaseRunInv, Signal \/ DeleteLands \/ DeleteLost \/ Exit \/ KilledWhileReleasing
             PROVE LeaseRunInv'
  OBVIOUS
<1> USE DEF LeaseRunInv
<1>1. run \in Runs /\ held \in Helds /\ row \in Rows /\ now \in 0..Horizon
  BY Types
<1>2. CASE Signal
  <2>1. /\ run' \in Runs /\ run'.stage = "running" /\ run.stage = "running" /\ run'.kind = run.kind
        /\ run'.renewing = run.renewing /\ run'.nextRenew = run.nextRenew
        /\ run'.state = run.state /\ run'.fails = run.fails
        /\ run'.released = TRUE /\ run'.said = run.said
    BY <1>1, <1>2 DEF Signal, SendDelete, Runs
  <2>2. held' \in Helds /\ UNCHANGED <<held.bad, held.missed, held.end, held.unanswered>>
    BY <1>1, <1>2 DEF Signal, Helds
  <2>3. UNCHANGED <<now, row, beat, leaseLosses>> /\ delete' = "sent"
    BY <1>2 DEF Signal
  <2>4. LeaseRunTypeOK'
    BY <1>1, <2>1, <2>2, <2>3, Types, TypesNext
  <2>5. DeleteOnce' /\ Kinds' /\ RenewsBefore' /\ BeatKept' /\ RenewInTime'
    BY <2>1, <2>2, <2>3 DEF DeleteOnce, Kinds, RenewsBefore, BeatKept, RenewInTime
  <2>6. FailsCounted' /\ EndKnown' /\ NotBlind'
    BY <2>1, <2>2, <2>3 DEF FailsCounted, EndKnown, NotBlind, Bad
  <2> QED BY <2>4, <2>5, <2>6
<1>3. CASE DeleteLands
  <2>1. /\ row' \in Rows /\ row'.freed = TRUE /\ row'.expires = row.expires
        /\ row.state # "active" => row'.state = row.state
        /\ row.state = "active" => row'.state \in {"active", "released"}
    BY <1>1, <1>3 DEF DeleteLands, Rows
  <2>2. UNCHANGED <<now, run, beat, leaseLosses, held>> /\ delete = "sent" /\ delete' = "landed"
    BY <1>3 DEF DeleteLands
  <2>3. LeaseRunTypeOK'
    BY <1>1, <2>1, <2>2, Types, TypesNext
  <2>4. DeleteOnce' /\ Kinds' /\ RenewsBefore' /\ BeatKept' /\ RenewInTime'
    BY <2>1, <2>2 DEF DeleteOnce, Kinds, RenewsBefore, BeatKept, RenewInTime
  <2>5. FailsCounted' /\ EndKnown' /\ NotBlind'
    BY <2>1, <2>2 DEF FailsCounted, EndKnown, NotBlind, Bad
  <2> QED BY <2>3, <2>4, <2>5
<1>4. CASE DeleteLost
  <2>1. held' \in Helds /\ held'.unanswered = TRUE
        /\ UNCHANGED <<held.bad, held.missed, held.end, held.signal>>
    BY <1>1, <1>4 DEF DeleteLost, Helds
  <2>2. UNCHANGED <<now, run, row, beat>> /\ delete = "sent" /\ delete' = "lost"
    BY <1>4 DEF DeleteLost
  <2>3. LeaseRunTypeOK'
    BY <1>1, <1>4, <2>1, <2>2, Types, TypesNext, Numbers DEF DeleteLost, LoseCall
  <2>4. DeleteOnce' /\ Kinds' /\ RenewsBefore' /\ BeatKept' /\ RenewInTime'
    BY <2>1, <2>2 DEF DeleteOnce, Kinds, RenewsBefore, BeatKept, RenewInTime
  <2>5. FailsCounted' /\ EndKnown' /\ NotBlind'
    BY <2>1, <2>2 DEF FailsCounted, EndKnown, NotBlind, Bad
  <2> QED BY <2>3, <2>4, <2>5
<1>5. CASE Exit \/ KilledWhileReleasing
  <2>1. /\ run' \in Runs /\ run.stage = "ending" /\ run'.stage = "gone" /\ run'.kind = run.kind
        /\ run'.renewing = run.renewing /\ run'.state = run.state /\ run'.fails = run.fails
        /\ run'.released = run.released
        /\ run'.said = "released" => run.state = "active" \/ run.said = "released"
    BY <1>1, <1>5 DEF Exit, KilledWhileReleasing, Runs
  <2>2. held' \in Helds /\ UNCHANGED <<held.bad, held.missed, held.end, held.unanswered>>
        /\ (held'.signal = TRUE \/ (delete # "sent" /\ held' = held))
    BY <1>1, <1>5 DEF Exit, KilledWhileReleasing, Helds
  <2>3. UNCHANGED <<now, row, delete, leaseLosses>> /\ beat' = "idle"
    BY <1>5 DEF Exit, KilledWhileReleasing
  <2>4. LeaseRunTypeOK'
    BY <1>1, <2>1, <2>2, <2>3, Types, TypesNext
  <2>5. DeleteOnce' /\ Kinds' /\ RenewsBefore' /\ BeatKept' /\ RenewInTime'
    BY <2>1, <2>2, <2>3 DEF DeleteOnce, Kinds, RenewsBefore, BeatKept, RenewInTime
  <2>6. FailsCounted' /\ EndKnown' /\ NotBlind'
    BY <2>1, <2>2, <2>3 DEF FailsCounted, EndKnown, NotBlind, Bad
  <2> QED BY <2>4, <2>5, <2>6
<1> QED BY <1>2, <1>3, <1>4, <1>5

\* What the brain does meanwhile.
LEMMA TickKeeps == LeaseRunInv /\ (Expires \/ IsLost \/ GraceEnds) => LeaseRunInv'
<1> SUFFICES ASSUME LeaseRunInv, Expires \/ IsLost \/ GraceEnds PROVE LeaseRunInv'
  OBVIOUS
<1> USE DEF LeaseRunInv
<1>1. run \in Runs /\ held \in Helds /\ row \in Rows /\ now \in 0..Horizon
  BY Types
<1>2. ASSUME NEW s \in {"expired", "lost"}, GoesBad(s) PROVE LeaseRunInv'
  <2>1. row' \in Rows /\ row.state = "active" /\ row'.state = s /\ UNCHANGED <<row.expires, row.freed>>
    BY <1>1, <1>2 DEF GoesBad, Rows
  <2>2. held' \in Helds
    BY <1>1, <1>2, Later DEF GoesBad, Helds
  <2>3. held'.bad = now /\ UNCHANGED <<held.missed, held.end, held.signal, held.unanswered>>
    BY <1>1, <1>2 DEF GoesBad, Helds
  <2>4. UNCHANGED <<now, run, beat, delete, leaseLosses>>
    BY <1>2 DEF GoesBad
  <2>5. LeaseRunTypeOK'
    BY <1>1, <2>1, <2>2, <2>4, Types, TypesNext
  <2>6. DeleteOnce' /\ Kinds' /\ RenewsBefore' /\ BeatKept' /\ RenewInTime'
    BY <2>1, <2>3, <2>4 DEF DeleteOnce, Kinds, RenewsBefore, BeatKept, RenewInTime
  <2>7. FailsCounted'
    BY <1>1, <2>3, <2>4 DEF FailsCounted, Runs
  <2>8. EndKnown' /\ NotBlind'
    BY <1>1, <2>1, <2>3, <2>4, Numbers DEF EndKnown, NotBlind, Bad, DeleteOnce, PollFailThreshold, Runs, Helds
  <2> QED BY <2>5, <2>6, <2>7, <2>8
<1>3. CASE GraceEnds
  <2>1. row' \in Rows /\ row'.freed = TRUE /\ UNCHANGED <<row.state, row.expires>>
    BY <1>1, <1>3 DEF GraceEnds, Rows
  <2>2. UNCHANGED <<now, run, beat, delete, leaseLosses, held>>
    BY <1>3 DEF GraceEnds
  <2>3. LeaseRunTypeOK'
    BY <1>1, <2>1, <2>2, Types, TypesNext
  <2>4. DeleteOnce' /\ Kinds' /\ RenewsBefore' /\ BeatKept' /\ RenewInTime'
    BY <2>1, <2>2 DEF DeleteOnce, Kinds, RenewsBefore, BeatKept, RenewInTime
  <2>5. FailsCounted' /\ EndKnown' /\ NotBlind'
    BY <2>1, <2>2 DEF FailsCounted, EndKnown, NotBlind, Bad
  <2> QED BY <2>3, <2>4, <2>5
<1> QED BY <1>2, <1>3 DEF Expires, IsLost

-----------------------------------------------------------------------------
LEMMA LeaseRunStarts == LeaseRunInit => LeaseRunInv
<1> SUFFICES ASSUME LeaseRunInit PROVE LeaseRunInv
  OBVIOUS
<1> USE DEF LeaseRunInit
<1>1. PICK k \in {"ephemeral", "service"} :
        run = [stage |-> "acquiring", kind |-> k, renewing |-> k = "ephemeral",
               nextRenew |-> Half, state |-> "active", fails |-> 0,
               released |-> FALSE, said |-> "nothing"]
  OBVIOUS
<1>2. row \in Rows /\ held \in Helds /\ now \in 0..Horizon
  BY Numbers DEF Rows, Helds
<1>3. run \in Runs
  <2>1. Half \in 0..Never /\ 0 \in 0..PollFailThreshold
    BY Numbers DEF PollFailThreshold
  <2> QED BY <1>1, <2>1 DEF Runs
<1>4. LeaseRunTypeOK
  BY <1>2, <1>3, Types, Numbers
<1>5. DeleteOnce /\ Kinds /\ RenewsBefore /\ BeatKept
  BY <1>1 DEF DeleteOnce, Kinds, RenewsBefore, BeatKept
<1>6. RenewInTime /\ FailsCounted /\ EndKnown /\ NotBlind
  BY <1>1, Numbers DEF RenewInTime, FailsCounted, EndKnown, NotBlind, Bad, PollFailThreshold
<1> QED BY <1>4, <1>5, <1>6 DEF LeaseRunInv

LEMMA LeaseRunIdles == LeaseRunInv /\ UNCHANGED leaseRunVars => LeaseRunInv'
BY DEF LeaseRunInv, leaseRunVars, LeaseRunTypeOK, DeleteOnce, BeatKept, RenewInTime, RenewsBefore,
       Kinds, FailsCounted, EndKnown, NotBlind, Bad

LEMMA LeaseRunStep == LeaseRunInv /\ [LeaseRunNext]_leaseRunVars => LeaseRunInv'
BY AcquireKeeps, PeriodKeeps, RenewKeeps, PollKeeps, CommandEndsKeeps, LeavingKeeps, TickKeeps,
   LeaseRunIdles DEF LeaseRunNext, LeaseRunDone

LEMMA LeaseRunInductive == LeaseRunSpec => []LeaseRunInv
BY LeaseRunStarts, LeaseRunStep, PTL DEF LeaseRunSpec

\* The lease's row, what the wrapper keeps of it and the timer keep their types.
THEOREM LeaseRunTypeCorrect == LeaseRunSpec => []LeaseRunTypeOK
<1>1. LeaseRunInv => LeaseRunTypeOK
  BY DEF LeaseRunInv
<1> QED BY <1>1, LeaseRunInductive, PTL

\* A run that no signal met and whose calls were all answered leaves no lease.
THEOREM LeaseComesBack == LeaseRunSpec => []LeaseGivenBack
<1>1. LeaseRunInv => LeaseGivenBack
  BY Types DEF LeaseRunInv, LeaseGivenBack, DeleteOnce
<1> QED BY <1>1, LeaseRunInductive, PTL

\* Three failed polls, or one that is answered: "released" is not said of a lease
\* that went bad more than three periods before the end.
THEOREM LossIsNoticed == LeaseRunSpec => []NotBlind
<1>1. LeaseRunInv => NotBlind
  BY DEF LeaseRunInv
<1> QED BY <1>1, LeaseRunInductive, PTL

\* Under a running command a lease expires at its cap, or after a renewal that
\* failed within the last retry period.
THEOREM RenewedInTime == LeaseRunSpec => KeptAlive
<1>1. LeaseRunInv /\ [LeaseRunNext]_leaseRunVars =>
        [Expires /\ run.stage = "running"
           => row.expires >= LifeCap \/ held.missed >= row.expires - Retry]_leaseRunVars
  <2> SUFFICES ASSUME LeaseRunInv, Expires, run.stage = "running"
               PROVE row.expires >= LifeCap \/ held.missed >= row.expires - Retry
    OBVIOUS
  <2>1. now >= row.expires /\ row.state = "active"
    BY DEF Expires, GoesBad
  <2>2. now \in 0..Horizon /\ row.expires \in Int /\ run.nextRenew \in Int
    BY Types, Numbers DEF LeaseRunInv, Rows, Runs
  <2>3. ~(row.expires > Horizon)
    BY <2>1, <2>2, Numbers
  <2>4. ~(run.renewing /\ run.nextRenew < row.expires)
    BY <2>1, <2>2 DEF LeaseRunInv, BeatKept
  <2> QED BY <2>1, <2>3, <2>4 DEF LeaseRunInv, RenewsBefore
<1> QED BY <1>1, LeaseRunInductive, PTL DEF LeaseRunSpec, KeptAlive

-----------------------------------------------------------------------------
(* The choice of a box: Placement.                                             *)

LEMMA PlacementTyped == PlacementTypeOK /\ [PlacementNext]_placementVars => PlacementTypeOK'
<1> SUFFICES ASSUME PlacementTypeOK, [PlacementNext]_placementVars PROVE PlacementTypeOK'
  OBVIOUS
<1>1. ASSUME NEW r \in Request, TakeLease(r) \/ PlaceJob(r) PROVE PlacementTypeOK'
  <2>1. r.kind \in {"ephemeral", "service"}
    BY DEF Request
  <2>. QED  BY <1>1, <2>1 DEF TakeLease, PlaceJob, PlacementTypeOK
<1>2. ASSUME NEW b \in Box, JobUnderLease(b) \/ LeaseMoves(b) \/ JobCloses(b)
      PROVE  PlacementTypeOK'
  BY <1>2 DEF JobUnderLease, LeaseMoves, JobCloses, PlacementTypeOK
<1>3. ASSUME NEW b \in Box, PhaseMoves(b) PROVE PlacementTypeOK'
  BY <1>3 DEF PhaseMoves, PlacementTypeOK
<1>4. CASE Snapshot
  BY <1>4, PlacementAssumption DEF Snapshot, PlacementTypeOK, PlacementAssumption
<1>5. CASE Ages
  BY <1>5, PlacementAssumption DEF Ages, PlacementTypeOK, PlacementAssumption
<1>6. CASE UNCHANGED placementVars
  BY <1>6 DEF placementVars, PlacementTypeOK
<1>. QED  BY <1>1, <1>2, <1>3, <1>4, <1>5, <1>6 DEF PlacementNext

LEMMA PlacementTypedInit == PlacementInit => PlacementTypeOK
<1>1. [observed |-> "none", ver |-> 0, running |-> FALSE] \in Seen
  BY DEF Seen
<1>. QED  BY <1>1, PlacementAssumption DEF PlacementInit, PlacementTypeOK, PlacementAssumption

\* Among finitely many boxes there is a highest.
LEMMA HighestBox ==
  ASSUME NEW S \in SUBSET Box, S # {}
  PROVE  Max(S) \in S /\ \A x \in S : x <= Max(S)
<1>. DEFINE Above(x) == {y \in S : y > x}
            R == StrictSubsetOrdering(S)
            F == {Above(x) : x \in S}
<1>0. IsFiniteSet(S) /\ \A x \in S : x \in Nat
  BY FS_Subset, PlacementAssumption DEF PlacementAssumption
<1>1. PICK a \in F : \A c \in F : <<c, a>> \notin R
  <2>1. F \subseteq FiniteSubsetsOf(S) /\ F # {}
    <3>1. F \subseteq SUBSET S /\ F # {}
      OBVIOUS
    <3>2. FiniteSubsetsOf(S) = SUBSET S
      BY <1>0, FS_FiniteSubsetsOfFinite
    <3>. QED  BY <3>1, <3>2
  <2>2. IsWellFoundedOn(R, FiniteSubsetsOf(S))
    BY FS_StrictSubsetOrderingWellFounded
  <2>. HIDE DEF F, R
  <2>. QED  BY <2>1, <2>2, WFMin
<1>2. PICK x \in S : a = Above(x)
  BY <1>1
<1>3. ASSUME NEW y \in S, y > x PROVE FALSE
  <2>1. /\ \A z \in S : z > y => z > x
        /\ ~(y > y)
    BY <1>0, <1>3
  <2>2. Above(y) \subseteq Above(x)
    BY <2>1
  <2>3. Above(y) # Above(x)
    <3>1. y \in Above(x)
      BY <1>3
    <3>2. y \notin Above(y)
      BY <2>1
    <3>. QED  BY <3>1, <3>2
  <2>4. <<Above(y), Above(x)>> \in R
    BY <2>2, <2>3 DEF StrictSubsetOrdering
  <2>. QED  BY <1>1, <1>2, <2>4
<1>4. \A y \in S : y > x \/ x >= y
  BY <1>0
<1>5. \E z \in S : \A y \in S : z >= y
  BY <1>3, <1>4
<1>6. Max(S) \in S /\ \A y \in S : Max(S) >= y
  BY <1>5 DEF Max
<1>. QED  BY <1>0, <1>6

\* chooseBox: what is given is eligible, and to a request that names no box it is the
\* highest of the eligible; it is refused only when there is none.
LEMMA ChoiceIsHighest ==
  ASSUME PlacementTypeOK, NEW r \in Request
  PROVE  /\ Chosen(r) # None => Chosen(r) \in Eligible(r)
         /\ r.box = None => IF Eligible(r) = {} THEN Chosen(r) = None
                            ELSE Chosen(r) # None /\ \A b \in Eligible(r) : b <= Chosen(r)
<1>1. Eligible(r) \in SUBSET Box /\ None \notin Box
  BY PlacementAssumption DEF Eligible, Candidates, PlacementAssumption, None
<1>2. CASE r.box = None
  BY <1>1, <1>2, HighestBox DEF Chosen
<1>3. CASE r.box # None
  BY <1>3 DEF Chosen, Eligible, Candidates
<1>. QED  BY <1>2, <1>3

\* What refuses a box does not depend on which box was named.
LEMMA SameReason ==
  ASSUME NEW r \in Request, NEW b \in Box, NEW c \in Box
  PROVE  Reason(c, [r EXCEPT !.box = b]) = Reason(c, r) /\ [r EXCEPT !.box = b].box = b
<1>. DEFINE n == [r EXCEPT !.box = b]
<1>1. n.box = b /\ n.kind = r.kind /\ n.require = r.require /\ n.version = r.version /\ n.job = r.job
  BY DEF Request
<1>. HIDE DEF n
<1>2. Reason(c, n) = Reason(c, r)
  BY <1>1 DEF Reason, ByCanary, ByDrift, ByVersion, ByRunner, BySlot
<1>. QED  BY <1>1, <1>2 DEF n

\* The reasons of a refusal answer every other request the caller could make: a box is
\* called eligible in them exactly when asking for it by name would be granted, and a box
\* they leave out is a retired one that naming does not get either.
THEOREM RefusalExplainsAll == PlacementSpec => []RefusalTellsAll
<1>1. ASSUME PlacementTypeOK PROVE RefusalTellsAll
  <2>. SUFFICES ASSUME NEW r \in Request, NEW b \in Box
       PROVE  IF b \in Explained(r)
                THEN (Reason(b, r) = "eligible") = (Chosen([r EXCEPT !.box = b]) = b)
                ELSE Chosen([r EXCEPT !.box = b]) = None /\ phase[b] = "retired"
    BY DEF RefusalTellsAll
  <2>1. None # b
    BY PlacementAssumption DEF PlacementAssumption, None
  <2>2. Chosen([r EXCEPT !.box = b]) = IF Reason(b, r) = "eligible" THEN b ELSE None
    BY <2>1, SameReason DEF Chosen
  <2>3. b \notin Explained(r) => phase[b] = "retired"
    BY <1>1 DEF Explained, Candidates, PlacementTypeOK
  <2>4. phase[b] = "retired" => Reason(b, r) # "eligible"
    BY DEF Reason
  <2>. QED  BY <2>1, <2>2, <2>3, <2>4
<1>. QED  BY <1>1, PlacementTypedInit, PlacementTyped, PTL DEF PlacementSpec

\* Whatever the tick saw and the callers hold, a request that names no box is refused
\* only when no box is eligible, and is otherwise given the highest that is.
HighestGiven ==
  \A r \in Request : r.box = None =>
    IF Eligible(r) = {} THEN Chosen(r) = None
    ELSE Chosen(r) \in Eligible(r) /\ \A b \in Eligible(r) : b <= Chosen(r)

THEOREM FreeChoiceIsHighest == PlacementSpec => []HighestGiven
<1>1. PlacementTypeOK => HighestGiven
  BY ChoiceIsHighest DEF HighestGiven
<1>. QED  BY <1>1, PlacementTypedInit, PlacementTyped, PTL DEF PlacementSpec

-----------------------------------------------------------------------------
(* The log of a job.  The row's books: `Gone' bytes were emptied before it     *)
(* began at 0 again, and of these the mirror has all but the `lost'; behind    *)
(* them it goes on without a gap.                                              *)

JobRows == [over : BOOLEAN, offset : Nat, mirrored : Nat, lost : Int, truncations : Nat]
Statuses == [bytes : Nat, truncations : Nat, total : Nat, over : BOOLEAN]
Polls == [pc : {"idle", "row", "status"}, job : JobRows, st : Statuses]

Boxes == [wrote : Nat, emptied : Nat, over : BOOLEAN, truncations : Nat, total : Nat]
Terminals == [pc : {"asks", "waits", "drains", "sleeps", "gone"}, by : Pollers \cup {Null},
              offset : Nat, over : BOOLEAN, interrupted : BOOLEAN, polls : Int]
Notes == [told : Int, crossed : BOOLEAN, unread : BOOLEAN]

LogTyped ==
  /\ box \in Boxes
  /\ box.emptied <= box.wrote
  /\ guard \in [pc : {"idle", "measured", "emptied"}, size : Nat]
  /\ jobRow \in JobRows /\ mirror \in Seq(Nat) /\ poll \in [Pollers -> Polls]
  /\ client \in Terminals /\ seen \in Notes

\* The bytes the row speaks of that were emptied when it began at 0 again.
Gone(r) == r.lost + r.mirrored - r.offset

\* The books of a row r, with the job's record b, the guard at pc, the bytes M in
\* the mirror and the number its markers told: every byte that was emptied before
\* the row began at 0 again was mirrored or is among the lost, and behind those
\* the mirror goes on with the bytes it has read of the file there is.
Balanced(r, b, pc, M, told) ==
  /\ told = r.lost /\ 0 <= r.lost /\ r.offset <= r.mirrored
  /\ r.lost + r.mirrored <= b.wrote
  /\ r.truncations <= b.truncations
  /\ IF r.truncations = b.truncations THEN Gone(r) = b.total ELSE r.lost + r.mirrored <= b.total
  /\ pc = "emptied" => r.lost + r.mirrored <= b.emptied
  /\ \A n \in M : n <= r.lost + r.mirrored
  /\ (Gone(r) + 1)..(r.lost + r.mirrored) \subseteq M
  /\ Cardinality(M \cap 1..Gone(r)) = r.mirrored - r.offset

RowBooks(r) == Balanced(r, box, guard.pc, Mirrored, seen.told)

\* The guard's: the total it tells is what it has emptied.
GuardBooks ==
  /\ IF guard.pc = "emptied" THEN box.total + guard.size = box.emptied ELSE box.total = box.emptied
  /\ guard.pc = "measured" => guard.size = LogBytes

\* One poll at a time, on the row as it is, between two truncations.
OnePoll ==
  /\ \A p, q \in Pollers : poll[p].pc # "idle" /\ poll[q].pc # "idle" => p = q
  /\ jobRow.over => Polling = {} /\ \A p \in Pollers : poll[p].pc = "idle"
  /\ \A p \in Pollers :
       /\ poll[p].pc = "row" => poll[p].job = jobRow
       /\ poll[p].pc = "status" => /\ guard.pc # "emptied" /\ poll[p].st.truncations = box.truncations
                                   /\ RowBooks(Written(poll[p].job, poll[p].st))

Books == GuardBooks /\ OnePoll /\ InOrder /\ (Polling = {} => RowBooks(jobRow))

\* The wrapper that saw the end has all of a mirror that grows no more.
Reads ==
  /\ client.over => client.pc \in {"drains", "gone"} /\ jobRow.over
  /\ client.offset <= Len(mirror)
  /\ client.pc = "gone" /\ client.over /\ ~seen.unread => client.offset = Len(mirror)

LogInv == LogTyped /\ (~seen.crossed => Books /\ Reads)

LEMMA MirroredIsNat == LogTyped => Mirrored \subseteq Nat \ {0}
BY DEF LogTyped, Mirrored, Marker

LEMMA LogInitially == JobLogInit => LogInv
<1> SUFFICES ASSUME JobLogInit PROVE LogInv
  OBVIOUS
<1>1. Idle \in Polls
  BY DEF Idle, Polls, JobRows, Statuses, NoStatus
<1>2. LogTyped
  BY <1>1 DEF JobLogInit, LogTyped, Idle, JobRows, Boxes, Terminals, Notes
<1>3. Mirrored = {} /\ Polling = {}
  BY DEF JobLogInit, Mirrored, Polling, Idle
<1>4. Cardinality({}) = 0
  BY FS_EmptySet
<1>5. RowBooks(jobRow)
  BY <1>3, <1>4 DEF JobLogInit, RowBooks, Balanced, Gone, Idle
<1>6. GuardBooks /\ OnePoll /\ InOrder
  BY <1>3 DEF JobLogInit, GuardBooks, OnePoll, InOrder, Idle
<1>7. Reads
  BY DEF JobLogInit, Reads
<1> QED
  BY <1>2, <1>3, <1>5, <1>6, <1>7 DEF LogInv, Books

\* A byte written, the file emptied and the truncation counted leave a row's
\* books balanced, when nobody is between the status and the row.
LEMMA BoxKeepsBooks ==
  ASSUME NEW r \in JobRows, NEW b \in Boxes, NEW pc, NEW M, NEW told, Balanced(r, b, pc, M, told)
  PROVE  /\ Balanced(r, [b EXCEPT !.wrote = @ + 1], pc, M, told)
         /\ \A o \in BOOLEAN : Balanced(r, [b EXCEPT !.over = o], pc, M, told)
         /\ pc # "emptied" => Balanced(r, b, "idle", M, told) /\ Balanced(r, b, "measured", M, told)
         /\ Balanced(r, [b EXCEPT !.emptied = b.wrote], "emptied", M, told)
         /\ \A n \in Nat : pc = "emptied" /\ b.total + n = b.emptied
              => Balanced(r, [b EXCEPT !.truncations = @ + 1, !.total = @ + n], "idle", M, told)
<1>1. Balanced(r, [b EXCEPT !.wrote = @ + 1], pc, M, told)
  BY DEF Balanced, JobRows, Boxes
<1>2. ASSUME NEW o \in BOOLEAN PROVE Balanced(r, [b EXCEPT !.over = o], pc, M, told)
  BY DEF Balanced, JobRows, Boxes
<1>3. pc # "emptied" => Balanced(r, b, "idle", M, told) /\ Balanced(r, b, "measured", M, told)
  BY DEF Balanced
<1>4. Balanced(r, [b EXCEPT !.emptied = b.wrote], "emptied", M, told)
  BY DEF Balanced, JobRows, Boxes
<1>5. ASSUME NEW n \in Nat, pc = "emptied", b.total + n = b.emptied
      PROVE  Balanced(r, [b EXCEPT !.truncations = @ + 1, !.total = @ + n], "idle", M, told)
  <2> DEFINE c == [b EXCEPT !.truncations = @ + 1, !.total = @ + n]
  <2>1. c.wrote = b.wrote /\ c.truncations = b.truncations + 1 /\ c.total = b.emptied
    BY <1>5 DEF Boxes
  <2> HIDE DEF c
  <2>2. r.lost + r.mirrored <= b.emptied /\ r.truncations <= b.truncations
        /\ r.truncations \in Nat /\ b.truncations \in Nat
    BY <1>5 DEF Balanced, JobRows, Boxes
  <2>3. Balanced(r, c, "idle", M, told)
    BY <2>1, <2>2 DEF Balanced
  <2> QED
    BY <2>3 DEF c
<1> QED
  BY <1>1, <1>2, <1>3, <1>4, <1>5

\* What the row says of the status and the end does not enter its books.
LEMMA RiseKeepsBooks ==
  ASSUME NEW r \in JobRows, NEW b \in Boxes, NEW pc, NEW M \in SUBSET (Nat \ {0}), NEW told \in Int,
         Balanced(r, b, pc, M, told), pc # "emptied", b.total = b.emptied, b.emptied <= b.wrote,
         NEW st \in Statuses, st.truncations = b.truncations, st.total = b.total
  PROVE  Balanced(Written(AfterRise(r, st), st), b, pc, M, told + Told(r, st))
<1>1. CASE ~Rose(r, st)
  <2>1. Told(r, st) = 0 /\ AfterRise(r, st) = r /\ r.truncations = b.truncations
    BY <1>1 DEF Told, AfterRise, Rose, Balanced, JobRows, Boxes
  <2>2. Written(r, st).lost = r.lost /\ Written(r, st).mirrored = r.mirrored
        /\ Written(r, st).offset = r.offset /\ Written(r, st).truncations = b.truncations
    BY DEF Written, JobRows
  <2> HIDE DEF Written
  <2> QED
    BY <2>1, <2>2 DEF Balanced, Gone
<1>2. CASE Rose(r, st)
  <2> DEFINE w == Written(AfterRise(r, st), st)
             k == r.lost + r.mirrored
             g == Gone(r)
  <2>1. r.truncations < b.truncations /\ k <= b.total
    BY <1>2 DEF Rose, Balanced, JobRows, Boxes
  <2>2. told + Told(r, st) = b.total - r.mirrored
    BY <1>2, <2>1 DEF Told, LostSoFar, Balanced, JobRows, Boxes
  <2>3. w.lost = b.total - r.mirrored /\ w.mirrored = r.mirrored /\ w.offset = 0
        /\ w.truncations = b.truncations
    BY <1>2 DEF Written, AfterRise, LostSoFar, JobRows, Statuses
  <2>4. M \cap 1..b.total = (M \cap 1..g) \cup ((g + 1)..k)
    BY <2>1 DEF Balanced, Gone, JobRows, Boxes
  <2>5. g \in Int /\ k \in Int /\ g <= k /\ 0 <= k - g /\ k - g = r.offset /\ 0 <= g
    BY DEF Balanced, Gone, JobRows
  <2>6. IsFiniteSet(1..g) /\ IsFiniteSet((g + 1)..k) /\ Cardinality((g + 1)..k) = r.offset
    <3> HIDE DEF g, k
    <3>1. IsFiniteSet(1..g)
      BY <2>5, FS_Interval
    <3>2. g + 1 \in Int
      BY <2>5
    <3>3. IsFiniteSet((g + 1)..k) /\ Cardinality((g + 1)..k) = IF g + 1 > k THEN 0 ELSE k - (g + 1) + 1
      BY <2>5, <3>2, FS_Interval
    <3> QED
      BY <2>5, <3>1, <3>3 DEF JobRows
  <2>7. IsFiniteSet(M \cap 1..g)
    BY <2>6, FS_Subset
  <2>8. (M \cap 1..g) \cap ((g + 1)..k) = {}
    BY <2>5
  <2>9. Cardinality(M \cap 1..b.total) = r.mirrored
    <3>1. Cardinality(M \cap 1..b.total) = Cardinality(M \cap 1..g) + Cardinality((g + 1)..k) - Cardinality({})
      <4> HIDE DEF g, k
      <4>1. Cardinality((M \cap 1..g) \cup ((g + 1)..k))
            = Cardinality(M \cap 1..g) + Cardinality((g + 1)..k)
              - Cardinality((M \cap 1..g) \cap ((g + 1)..k))
        BY <2>6, <2>7, FS_Union
      <4> QED
        BY <4>1, <2>4, <2>8
    <3>2. Cardinality(M \cap 1..g) = r.mirrored - r.offset
      BY DEF Balanced
    <3> QED
      BY <3>1, <3>2, <2>6, FS_EmptySet DEF JobRows
  <2>10. Gone(w) = b.total /\ w.lost + w.mirrored = b.total
    BY <2>3 DEF Gone, JobRows, Boxes
  <2>11. \A n \in M : n <= b.total
    BY <2>1 DEF Balanced, JobRows, Boxes
  <2> HIDE DEF w, k, g
  <2>12. 0 <= w.lost
    BY <2>1, <2>3 DEF k, Balanced, JobRows, Boxes
  <2>13. (b.total + 1)..b.total = {}
    BY DEF Boxes
  <2> QED
    BY <2>2, <2>3, <2>9, <2>10, <2>11, <2>12, <2>13 DEF Balanced, JobRows, Boxes, w
<1> QED
  BY <1>1, <1>2

\* A fetch goes on where the mirror ends.
LEMMA FetchKeepsBooks ==
  ASSUME NEW r \in JobRows, NEW b \in Boxes, NEW pc, NEW M \in SUBSET Nat, NEW told, NEW n \in Nat,
         Balanced(r, b, pc, M, told), pc # "emptied", b.total = b.emptied,
         r.truncations = b.truncations, r.offset + n <= b.wrote - b.emptied
  PROVE  Balanced([r EXCEPT !.offset = @ + n, !.mirrored = @ + n], b, pc,
                  M \cup ((b.emptied + r.offset + 1)..(b.emptied + r.offset + n)), told)
<1> DEFINE w == [r EXCEPT !.offset = @ + n, !.mirrored = @ + n]
           new == (b.emptied + r.offset + 1)..(b.emptied + r.offset + n)
<1>1. w.lost = r.lost /\ w.mirrored = r.mirrored + n /\ w.offset = r.offset + n
      /\ w.truncations = r.truncations
  BY DEF JobRows
<1>2. Gone(w) = Gone(r) /\ Gone(r) = b.emptied
  BY <1>1 DEF Gone, Balanced, JobRows, Boxes
<1>3. r.lost + r.mirrored = b.emptied + r.offset /\ w.lost + w.mirrored = b.emptied + r.offset + n
  BY <1>1, <1>2 DEF Gone, JobRows, Boxes
<1> HIDE DEF w
<1>4. (M \cup new) \cap 1..Gone(r) = M \cap 1..Gone(r)
  BY <1>2 DEF JobRows, Boxes
<1>5. (Gone(r) + 1)..(w.lost + w.mirrored) \subseteq M \cup new
  BY <1>2, <1>3 DEF Balanced, JobRows, Boxes
<1>6. \A i \in M \cup new : i <= w.lost + w.mirrored
  <2>1. b.emptied + r.offset \in Nat
    BY DEF JobRows, Boxes
  <2>2. \A i \in M : i <= b.emptied + r.offset
    BY <1>3 DEF Balanced
  <2> QED
    BY <1>3, <2>1, <2>2
<1> HIDE DEF new
<1>7. Cardinality((M \cup new) \cap 1..Gone(w)) = w.mirrored - w.offset
  <2>1. Cardinality(M \cap 1..Gone(r)) = r.mirrored - r.offset
    BY DEF Balanced
  <2>2. w.mirrored - w.offset = r.mirrored - r.offset
    BY <1>1 DEF JobRows
  <2> QED
    BY <1>2, <1>4, <2>1, <2>2
<1>8. w.lost + w.mirrored <= b.wrote
  BY <1>3 DEF JobRows, Boxes
<1>9. Balanced(w, b, pc, M \cup new, told)
  BY <1>1, <1>2, <1>3, <1>5, <1>6, <1>7, <1>8 DEF Balanced, JobRows, Boxes
<1> QED
  BY <1>9 DEF w, new

LEMMA ChunkOfLog ==
  ASSUME LogTyped, NEW o \in Nat
  PROVE  LET n == Len(LogFrom(o)) IN
         /\ LogFrom(o) \in Seq(Nat) /\ n \in Nat
         /\ \A i \in 1..n : LogFrom(o)[i] = box.emptied + o + i
         /\ o <= LogBytes => n <= LogBytes - o
<1> DEFINE m == IF LogBytes - o < FetchMax THEN LogBytes - o ELSE FetchMax
           n == IF m < 0 THEN 0 ELSE m
<1>1. n \in Nat /\ (o <= LogBytes => n <= LogBytes - o)
  BY JobLogAssumption DEF LogBytes, LogTyped, Boxes
<1>2. LogFrom(o) = [i \in 1..n |-> box.emptied + o + i]
  BY DEF LogFrom
<1> HIDE DEF n
<1>3. \A i \in 1..n : box.emptied + o + i \in Nat
  BY <1>1 DEF LogTyped, Boxes
<1>4. LogFrom(o) \in Seq(Nat) /\ Len(LogFrom(o)) = n
  BY <1>1, <1>2, <1>3, IsASeq
<1> QED
  BY <1>1, <1>2, <1>4

LEMMA WrittenIsRow ==
  ASSUME NEW r \in JobRows, NEW st \in Statuses
  PROVE  Written(r, st) \in JobRows /\ AfterRise(r, st) \in JobRows /\ Told(r, st) \in Int
<1>1. Written(r, st) \in JobRows
  BY DEF Written, JobRows, Statuses
<1>2. st.total - r.mirrored \in Int
  BY DEF JobRows, Statuses
<1>3. AfterRise(r, st) \in JobRows
  BY <1>2 DEF AfterRise, LostSoFar, JobRows
<1>4. Told(r, st) \in Int
  BY <1>2 DEF Told, LostSoFar, JobRows
<1> QED
  BY <1>1, <1>3, <1>4

LEMMA RecordsOfLog ==
  /\ \A s \in Notes, b \in BOOLEAN : [s EXCEPT !.crossed = b] \in Notes
  /\ \A s \in Notes : [s EXCEPT !.unread = TRUE] \in Notes
  /\ \A s \in Notes, b \in BOOLEAN, n \in Int : [s EXCEPT !.told = @ + n, !.crossed = b] \in Notes
  /\ \A r \in JobRows, n \in Nat : [r EXCEPT !.offset = @ + n, !.mirrored = @ + n] \in JobRows
  /\ \A b \in Boxes, n \in Nat : [b EXCEPT !.truncations = @ + 1, !.total = @ + n] \in Boxes
  /\ \A c \in Terminals, n \in Nat : /\ Turn(c) \in Terminals
                                     /\ [c EXCEPT !.offset = @ + n] \in Terminals
                                     /\ [c EXCEPT !.pc = "asks"] \in Terminals
                                     /\ [c EXCEPT !.pc = "gone"] \in Terminals
                                     /\ [c EXCEPT !.pc = "asks", !.polls = @ + 1] \in Terminals
<1>6. 0 \in Int
  OBVIOUS
<1>1. ASSUME NEW s \in Notes, NEW b \in BOOLEAN, NEW n \in Int
      PROVE  /\ [s EXCEPT !.crossed = b] \in Notes /\ [s EXCEPT !.unread = TRUE] \in Notes
             /\ [s EXCEPT !.told = @ + n, !.crossed = b] \in Notes
  <2>1. s.told + n \in Int
    BY DEF Notes
  <2>2. [s EXCEPT !.crossed = b] \in Notes
    BY DEF Notes
  <2>3. [s EXCEPT !.unread = TRUE] \in Notes
    BY DEF Notes
  <2>4. [s EXCEPT !.told = s.told + n, !.crossed = b] \in Notes
    BY <2>1 DEF Notes
  <2> QED
    BY <2>2, <2>3, <2>4
<1>2. ASSUME NEW r \in JobRows, NEW n \in Nat
      PROVE  [r EXCEPT !.offset = @ + n, !.mirrored = @ + n] \in JobRows
  <2>1. r.offset + n \in Nat /\ r.mirrored + n \in Nat
    BY DEF JobRows
  <2> QED
    BY <2>1 DEF JobRows
<1>3. ASSUME NEW b \in Boxes, NEW n \in Nat
      PROVE  [b EXCEPT !.truncations = @ + 1, !.total = @ + n] \in Boxes
  <2>1. b.truncations + 1 \in Nat /\ b.total + n \in Nat
    BY DEF Boxes
  <2> QED
    BY <2>1 DEF Boxes
<1>4. ASSUME NEW c \in Terminals, NEW n \in Nat
      PROVE  /\ [c EXCEPT !.offset = @ + n] \in Terminals
             /\ [c EXCEPT !.pc = "asks"] \in Terminals /\ [c EXCEPT !.pc = "gone"] \in Terminals
             /\ [c EXCEPT !.pc = "sleeps"] \in Terminals
             /\ [c EXCEPT !.interrupted = FALSE, !.polls = 0, !.pc = "sleeps"] \in Terminals
             /\ [c EXCEPT !.pc = "asks", !.polls = @ + 1] \in Terminals
  <2>1. c.offset + n \in Nat /\ c.polls + 1 \in Int
    BY DEF Terminals
  <2>2. [c EXCEPT !.offset = c.offset + n] \in Terminals
    BY <2>1 DEF Terminals
  <2>3. /\ [c EXCEPT !.pc = "asks"] \in Terminals
        /\ [c EXCEPT !.pc = "gone"] \in Terminals
        /\ [c EXCEPT !.pc = "sleeps"] \in Terminals
    BY DEF Terminals
  <2>6. FALSE \in BOOLEAN /\ 0 \in Int /\ "sleeps" \in {"asks", "waits", "drains", "sleeps", "gone"}
    OBVIOUS
  <2>4. [c EXCEPT !.interrupted = FALSE, !.polls = 0, !.pc = "sleeps"] \in Terminals
    BY <2>6, Zenon DEF Terminals
  <2>5. [c EXCEPT !.pc = "asks", !.polls = c.polls + 1] \in Terminals
    BY <2>1 DEF Terminals
  <2> QED
    BY <2>2, <2>3, <2>4, <2>5
<1>5. ASSUME NEW c \in Terminals PROVE Turn(c) \in Terminals
  <2>1. c.over \in BOOLEAN /\ c.interrupted \in BOOLEAN
    BY DEF Terminals
  <2>2. CASE c.over
    BY <2>2, <1>4 DEF Turn
  <2>3. CASE ~c.over /\ c.interrupted
    BY <2>3, <1>4 DEF Turn
  <2>4. CASE ~c.over /\ ~c.interrupted
    BY <2>4, <1>4 DEF Turn
  <2> QED
    BY <2>1, <2>2, <2>3, <2>4
<1> QED
  BY <1>1, <1>2, <1>3, <1>4, <1>5, <1>6

\* A read of the mirror: empty only at its end.
LEMMA SliceReads ==
  ASSUME LogTyped
  PROVE  /\ Len(Slice) \in Nat
         /\ client.offset <= Len(mirror) => /\ client.offset + Len(Slice) <= Len(mirror)
                                            /\ Slice = <<>> => client.offset = Len(mirror)
<1> DEFINE m == client.offset + 1
           n == IF client.offset + FetchMax < Len(mirror) THEN client.offset + FetchMax
                                                          ELSE Len(mirror)
<1>1. client.offset \in Nat /\ Len(mirror) \in Nat /\ DOMAIN mirror = 1..Len(mirror)
      /\ \A i \in 1..Len(mirror) : mirror[i] \in Nat
  BY LenProperties DEF LogTyped, Terminals
<1>2. m \in Int /\ n \in Int /\ n <= Len(mirror) /\ 1 <= m
  BY <1>1, JobLogAssumption
<1>3. \A i \in m..n : mirror[i] \in Nat
  BY <1>1, <1>2
<1>4. Len(SubSeq(mirror, m, n)) = IF m <= n THEN n - m + 1 ELSE 0
  <2> HIDE DEF m, n
  <2> QED
    BY <1>2, <1>3, SubSeqProperties
<1>5. Slice = SubSeq(mirror, m, n)
  BY DEF Slice
<1>6. Len(Slice) = IF m <= n THEN n - m + 1 ELSE 0
  BY <1>4, <1>5
<1>7. Slice = <<>> => Len(Slice) = 0
  OBVIOUS
<1>8. Len(Slice) \in Nat
  BY <1>1, <1>2, <1>6
<1>9. ASSUME client.offset <= Len(mirror)
      PROVE  client.offset + Len(Slice) <= Len(mirror)
  BY <1>1, <1>2, <1>6, <1>9
<1>10. ASSUME client.offset <= Len(mirror), Len(Slice) = 0
       PROVE  client.offset = Len(mirror)
  <2>1. ~(m <= n)
    BY <1>2, <1>6, <1>10
  <2>2. FetchMax >= 1 /\ FetchMax \in Nat
    BY JobLogAssumption
  <2> QED
    BY <1>1, <1>10, <2>1, <2>2
<1> QED
  BY <1>7, <1>8, <1>9, <1>10

LEMMA LogTypeKept ==
  ASSUME LogTyped, [JobLogNext]_jobLogVars
  PROVE  LogTyped'
<1> USE DEF LogTyped
<1>1. Idle \in Polls
  BY DEF Idle, Polls, JobRows, Statuses, NoStatus
<1>2. LogBytes \in Nat
  BY DEF LogBytes, Boxes
<1>3. StatusNow \in Statuses
  BY <1>2 DEF StatusNow, Statuses, Boxes
<1>4. CASE Write
  <2> DEFINE c == seen.crossed \/ guard.pc = "measured"
  <2>1. c \in BOOLEAN
    OBVIOUS
  <2>5. box.wrote + 1 \in Nat /\ box.emptied <= box.wrote + 1
    BY DEF Boxes
  <2>6. box' = [box EXCEPT !.wrote = box.wrote + 1]
    BY <1>4 DEF Write
  <2>7. box' \in Boxes
    BY <2>5, <2>6 DEF Boxes
  <2>8. box'.emptied <= box'.wrote
    BY <2>5, <2>6 DEF Boxes
  <2>2. box' \in Boxes /\ box'.emptied <= box'.wrote
    BY <2>7, <2>8
  <2>4. seen' = [seen EXCEPT !.crossed = c]
    BY <1>4 DEF Write
  <2> HIDE DEF c
  <2>3. seen' \in Notes
    BY <2>1, <2>4, RecordsOfLog
  <2> QED
    BY <1>4, <2>2, <2>3 DEF Write
<1>5. CASE JobEnds
  BY <1>5 DEF JobEnds, Boxes
<1>6. CASE Measure
  BY <1>6, <1>2 DEF Measure
<1>7. CASE Empty
  <2> DEFINE c == seen.crossed \/ Polling # {}
  <2>1. c \in BOOLEAN
    OBVIOUS
  <2>2. box' \in Boxes /\ box'.emptied <= box'.wrote /\ guard' \in [pc : {"idle", "measured", "emptied"}, size : Nat]
    BY <1>7 DEF Empty, Boxes
  <2>3. seen' = [seen EXCEPT !.crossed = c]
    BY <1>7 DEF Empty
  <2> HIDE DEF c
  <2>4. seen' \in Notes
    BY <2>1, <2>3, RecordsOfLog
  <2> QED
    BY <1>7, <2>2, <2>4 DEF Empty
<1>8. CASE Count
  <2>1. box' \in Boxes
    BY <1>8, RecordsOfLog DEF Count
  <2>2. box'.emptied <= box'.wrote
    BY <1>8 DEF Count, Boxes
  <2> QED
    BY <1>8, <2>1, <2>2 DEF Count
<1>9. ASSUME NEW p \in Pollers, PollBegins(p) PROVE LogTyped'
  <2>1. poll' \in [Pollers -> Polls]
    BY <1>9 DEF PollBegins, Polls
  <2>2. client' \in Terminals
    BY <1>9 DEF PollBegins, Terminals
  <2> DEFINE c == seen.crossed \/ \E q \in Pollers : poll[q].pc # "idle"
  <2>3. c \in BOOLEAN
    OBVIOUS
  <2>5. seen' = [seen EXCEPT !.crossed = c]
    BY <1>9 DEF PollBegins
  <2> HIDE DEF c
  <2>4. seen' \in Notes
    BY <2>3, <2>5, RecordsOfLog
  <2> QED
    BY <1>9, <2>1, <2>2, <2>4 DEF PollBegins
<1>10. ASSUME NEW p \in Pollers, Status(p) PROVE LogTyped'
  <2> DEFINE job == poll[p].job
             st == StatusNow
  <2>1. job \in JobRows
    BY DEF Polls
  <2>2. AfterRise(job, st) \in JobRows /\ Written(AfterRise(job, st), st) \in JobRows /\ Told(job, st) \in Int
    BY <1>3, <2>1, WrittenIsRow
  <2>3. mirror' \in Seq(Nat)
    BY <1>10, AppendProperties DEF Status, Marker
  <2> HIDE DEF job, st
  <2>7. (seen.crossed \/ guard.pc = "emptied") \in BOOLEAN
    OBVIOUS
  <2>8. seen' = [seen EXCEPT !.told = @ + Told(job, st), !.crossed = @ \/ guard.pc = "emptied"]
    BY <1>10 DEF Status, job, st
  <2>4. seen' \in Notes
    BY <2>2, <2>7, <2>8, RecordsOfLog
  <2> USE DEF job, st
  <2>5. [pc |-> "status", job |-> AfterRise(job, st), st |-> st] \in Polls
    BY <1>3, <2>2 DEF Polls
  <2>6. poll' \in [Pollers -> Polls] /\ jobRow' \in JobRows
    BY <1>10, <1>1, <2>2, <2>5 DEF Status
  <2> QED
    BY <1>10, <2>3, <2>4, <2>6 DEF Status
<1>11. ASSUME NEW p \in Pollers, StatusLost(p) PROVE LogTyped'
  BY <1>11, <1>1 DEF StatusLost
<1>12. ASSUME NEW p \in Pollers, Fetch(p) PROVE LogTyped'
  <2> DEFINE job == poll[p].job
             chunk == LogFrom(job.offset)
             grown == [job EXCEPT !.offset = @ + Len(chunk), !.mirrored = @ + Len(chunk)]
  <2>1. job \in JobRows /\ job.offset \in Nat /\ poll[p].st \in Statuses
    BY DEF Polls, JobRows
  <2>2. chunk \in Seq(Nat) /\ Len(chunk) \in Nat
    BY <2>1, ChunkOfLog
  <2>3. grown \in JobRows
    BY <2>1, <2>2, RecordsOfLog
  <2>4. Written(grown, poll[p].st) \in JobRows /\ Written(job, poll[p].st) \in JobRows
    BY <2>1, <2>3, WrittenIsRow
  <2>5. mirror \o chunk \in Seq(Nat)
    BY <2>2, ConcatProperties
  <2> HIDE DEF job, grown, chunk
  <2>6. mirror' \in Seq(Nat) /\ jobRow' \in JobRows
    BY <1>12, <2>4, <2>5 DEF Fetch, job, grown, chunk
  <2> QED
    BY <1>12, <1>1, <2>6 DEF Fetch
<1>13. CASE Answered
  BY <1>13 DEF Answered, JobRows, Terminals
<1>14. CASE Unanswered
  BY <1>14 DEF Unanswered, Terminals
<1>15. CASE Drain
  BY <1>15, SliceReads, RecordsOfLog DEF Drain
<1>16. CASE DrainFails
  <2>1. seen' = [seen EXCEPT !.unread = TRUE] /\ client' = Turn(client)
    BY <1>16 DEF DrainFails
  <2>2. seen' \in Notes /\ client' \in Terminals
    BY <2>1, RecordsOfLog
  <2> QED
    BY <1>16, <2>2 DEF DrainFails
<1>17. CASE Awakes
  <2>1. client.polls \in Int
    BY DEF Terminals
  <2>2. CASE client.polls < 0
    BY <1>17, <2>2, RecordsOfLog DEF Awakes
  <2>3. CASE client.polls \in 0..(StopPolls - 1)
    BY <1>17, <2>3, RecordsOfLog DEF Awakes, StopPolls
  <2>4. CASE ~(client.polls < 0) /\ client.polls \notin 0..(StopPolls - 1)
    BY <1>17, <2>4, RecordsOfLog DEF Awakes
  <2> QED
    BY <2>2, <2>3, <2>4
<1>18. CASE Interrupt
  BY <1>18 DEF Interrupt, Terminals
<1>19. CASE UNCHANGED jobLogVars
  BY <1>19 DEF jobLogVars
<1> QED
  BY <1>4, <1>5, <1>6, <1>7, <1>8, <1>9, <1>10, <1>11, <1>12, <1>13, <1>14, <1>15, <1>16, <1>17,
     <1>18, <1>19 DEF JobLogNext, JobLogDone

\* A step of the box: what it does to a row's books it does to every poll's.
LEMMA BoxStep ==
  ASSUME LogTyped, Books, UNCHANGED <<jobRow, mirror, poll>>, seen'.told = seen.told,
         \A r \in JobRows : RowBooks(r) => Balanced(r, box', guard'.pc, Mirrored, seen.told),
         guard'.pc = "emptied" \/ box'.truncations # box.truncations => Polling = {}
  PROVE  OnePoll' /\ InOrder' /\ (Polling = {} => RowBooks(jobRow))'
<1>1. Mirrored' = Mirrored /\ Polling' = Polling /\ InOrder'
  BY DEF Mirrored, Polling, InOrder, Books
<1>2. jobRow \in JobRows /\ \A p \in Pollers : poll[p] \in Polls
  BY DEF LogTyped
<1>3. (Polling = {} => RowBooks(jobRow))'
  BY <1>1, <1>2 DEF Books, RowBooks
<1>4. ASSUME NEW p \in Pollers, poll[p].pc = "status"
      PROVE  /\ guard'.pc # "emptied" /\ poll[p].st.truncations = box'.truncations
             /\ Balanced(Written(poll[p].job, poll[p].st), box', guard'.pc, Mirrored, seen.told)
  <2>1. poll[p].job \in JobRows /\ poll[p].st \in Statuses
    BY <1>2 DEF Polls
  <2>2. Written(poll[p].job, poll[p].st) \in JobRows
    BY <2>1, WrittenIsRow
  <2>3. Polling # {}
    BY <1>4 DEF Polling
  <2>4. poll[p].st.truncations = box.truncations /\ RowBooks(Written(poll[p].job, poll[p].st))
    BY <1>4 DEF Books, OnePoll
  <2> QED
    BY <2>2, <2>3, <2>4
<1>5. OnePoll'
  BY <1>1, <1>4 DEF Books, OnePoll, RowBooks
<1> QED
  BY <1>1, <1>3, <1>5

LEMMA BoxStepKeepsBooks ==
  ASSUME LogTyped, Books, Write \/ JobEnds \/ Measure \/ Empty \/ Count, ~seen'.crossed
  PROVE  Books'
<1>1. box \in Boxes /\ seen \in Notes /\ guard.pc \in {"idle", "measured", "emptied"}
      /\ guard.size \in Nat
  BY DEF LogTyped
<1>2. CASE Write
  <2>1. guard.pc # "measured"
    BY <1>1, <1>2 DEF Write, Notes
  <2>2. \A r \in JobRows : RowBooks(r) => Balanced(r, box', guard'.pc, Mirrored, seen.told)
    BY <1>1, <1>2, BoxKeepsBooks DEF Write, RowBooks
  <2>3. guard'.pc = "emptied" => Polling = {}
    BY <1>2 DEF Write, Books, OnePoll, Polling
  <2>4. GuardBooks'
    BY <1>1, <1>2, <2>1 DEF Write, Books, GuardBooks, LogBytes, Boxes
  <2> QED
    BY <1>1, <1>2, <2>2, <2>3, <2>4, BoxStep DEF Write, Books, Notes, Boxes
<1>3. CASE JobEnds
  <2>2. \A r \in JobRows : RowBooks(r) => Balanced(r, box', guard'.pc, Mirrored, seen.told)
    BY <1>1, <1>3, BoxKeepsBooks DEF JobEnds, RowBooks
  <2>3. guard'.pc = "emptied" => Polling = {}
    BY <1>3 DEF JobEnds, Books, OnePoll, Polling
  <2>4. GuardBooks'
    BY <1>1, <1>3 DEF JobEnds, Books, GuardBooks, LogBytes, Boxes
  <2> QED
    BY <1>1, <1>3, <2>2, <2>3, <2>4, BoxStep DEF JobEnds, Books, Boxes
<1>4. CASE Measure
  <2>2. \A r \in JobRows : RowBooks(r) => Balanced(r, box', guard'.pc, Mirrored, seen.told)
    BY <1>1, <1>4, BoxKeepsBooks DEF Measure, RowBooks
  <2>4. GuardBooks' /\ guard'.pc # "emptied"
    BY <1>1, <1>4 DEF Measure, Books, GuardBooks, LogBytes
  <2> QED
    BY <1>1, <1>4, <2>2, <2>4, BoxStep DEF Measure, Books
<1>5. CASE Empty
  <2>1. Polling = {}
    BY <1>1, <1>5 DEF Empty, Notes
  <2>5. guard'.pc = "emptied" /\ guard'.size = guard.size
    BY <1>5 DEF Empty, LogTyped
  <2>2. \A r \in JobRows : RowBooks(r) => Balanced(r, box', guard'.pc, Mirrored, seen.told)
    <3>1. box' = [box EXCEPT !.emptied = box.wrote]
      BY <1>5 DEF Empty
    <3>2. ASSUME NEW r \in JobRows, RowBooks(r)
          PROVE  Balanced(r, [box EXCEPT !.emptied = box.wrote], "emptied", Mirrored, seen.told)
      BY <1>1, <3>2, BoxKeepsBooks DEF RowBooks
    <3> QED
      BY <2>5, <3>1, <3>2
  <2>4. GuardBooks'
    BY <1>1, <1>5, <2>5 DEF Empty, Books, GuardBooks, LogBytes, Boxes
  <2> QED
    BY <1>1, <1>5, <2>1, <2>2, <2>4, BoxStep DEF Empty, Books, Notes
<1>6. CASE Count
  <2>1. Polling = {}
    BY <1>6 DEF Count, Books, OnePoll, Polling
  <2>2. \A r \in JobRows : RowBooks(r) => Balanced(r, box', guard'.pc, Mirrored, seen.told)
    BY <1>1, <1>6, BoxKeepsBooks DEF Count, RowBooks, Books, GuardBooks
  <2>4. GuardBooks'
    BY <1>1, <1>6 DEF Count, Books, GuardBooks, Boxes
  <2> QED
    BY <1>1, <1>6, <2>1, <2>2, <2>4, BoxStep DEF Count, Books
<1> QED
  BY <1>2, <1>3, <1>4, <1>5, <1>6

\* A poll begins alone, or has crossed another.
LEMMA PollBeginsKeepsBooks ==
  ASSUME LogTyped, Books, NEW p \in Pollers, PollBegins(p), ~seen'.crossed
  PROVE  Books'
<1>1. \A q \in Pollers : poll[q].pc = "idle"
  BY DEF PollBegins, LogTyped, Notes
<1>2. /\ \A q \in Pollers \ {p} : poll'[q] = poll[q]
      /\ poll'[p].pc = "row" /\ poll'[p].job = jobRow
  BY DEF PollBegins, LogTyped
<1>3. Polling = {} /\ Polling' = {}
  BY <1>1, <1>2 DEF Polling
<1>4. UNCHANGED <<box, guard, jobRow, mirror>> /\ seen'.told = seen.told /\ ~jobRow.over
  BY DEF PollBegins, LogTyped, Notes
<1>5. OnePoll'
  BY <1>1, <1>2, <1>4 DEF OnePoll
<1>6. GuardBooks' /\ InOrder' /\ Mirrored' = Mirrored
  BY <1>4 DEF GuardBooks, InOrder, Mirrored, LogBytes, Books
<1>7. RowBooks(jobRow)'
  BY <1>3, <1>4, <1>6 DEF Books, RowBooks
<1> QED
  BY <1>5, <1>6, <1>7 DEF Books

\* Nobody but p is polling, and the row is p's to write.
LEMMA PollAlone ==
  ASSUME LogTyped, Books, NEW p \in Pollers, poll[p].pc # "idle"
  PROVE  \A q \in Pollers : q # p => poll[q].pc = "idle"
BY DEF Books, OnePoll

\* The poll that ends with a row whose books balance leaves nobody polling.
LEMMA PollEnds ==
  ASSUME LogTyped, Books, NEW p \in Pollers, poll[p].pc # "idle", poll' = [poll EXCEPT ![p] = Idle],
         InOrder', GuardBooks', RowBooks(jobRow)'
  PROVE  Books'
<1>1. \A q \in Pollers : poll'[q].pc = "idle"
  BY PollAlone DEF LogTyped, Idle
<1>2. OnePoll'
  BY <1>1 DEF OnePoll, Polling
<1> QED
  BY <1>2 DEF Books

LEMMA StatusLostKeepsBooks ==
  ASSUME LogTyped, Books, NEW p \in Pollers, StatusLost(p)
  PROVE  Books'
<1>1. poll[p].pc = "row" /\ poll' = [poll EXCEPT ![p] = Idle]
      /\ UNCHANGED <<box, guard, jobRow, mirror, seen>>
  BY DEF StatusLost
<1>2. Polling = {}
  BY <1>1, PollAlone DEF Polling
<1>3. GuardBooks' /\ InOrder' /\ Mirrored' = Mirrored
  BY <1>1 DEF GuardBooks, InOrder, Mirrored, LogBytes, Books
<1>4. RowBooks(jobRow)'
  BY <1>1, <1>2, <1>3 DEF RowBooks, Books
<1> QED
  BY <1>1, <1>3, <1>4, PollEnds

\* The marker adds no byte.
LEMMA MarkerAddsNoByte ==
  ASSUME LogTyped, InOrder, mirror' \in {mirror, Append(mirror, Marker)}
  PROVE  InOrder' /\ Mirrored' = Mirrored
<1>1. CASE mirror' = mirror
  BY <1>1 DEF InOrder, Mirrored
<1>2. CASE mirror' = Append(mirror, Marker)
  <2> DEFINE n == Len(mirror)
  <2>1. n \in Nat /\ DOMAIN mirror = 1..n /\ mirror \in Seq(Nat)
    BY LenProperties DEF LogTyped
  <2>2. Marker \in Nat
    BY DEF Marker
  <2>3. DOMAIN mirror' = 1..(n + 1) /\ mirror'[n + 1] = Marker
        /\ \A i \in 1..n : mirror'[i] = mirror[i]
    <3>1. mirror' \in Seq(Nat) /\ Len(mirror') = n + 1
      BY <1>2, <2>1, <2>2, AppendProperties
    <3> QED
      BY <1>2, <2>1, <2>2, <3>1, AppendProperties, LenProperties
  <2> HIDE DEF n
  <2>4. \A i \in 1..(n + 1) : i \in 1..n \/ i = n + 1
    BY <2>1
  <2>5. InOrder'
    BY <2>1, <2>3, <2>4 DEF InOrder
  <2>6. 1..n \subseteq 1..(n + 1)
    BY <2>1
  <2>7. Mirrored' = Mirrored
    BY <2>1, <2>3, <2>4, <2>6 DEF Mirrored
  <2> QED
    BY <2>5, <2>7
<1> QED
  BY <1>1, <1>2

\* The status arrives: either the row is written, or p goes on to fetch, with
\* a copy whose books balance.
LEMMA StatusKeepsBooks ==
  ASSUME LogTyped, Books, NEW p \in Pollers, Status(p), ~seen'.crossed
  PROVE  Books'
<1> DEFINE r == jobRow
           st == StatusNow
           w == Written(AfterRise(r, st), st)
<1>1. poll[p].pc = "row" /\ poll[p].job = r /\ r \in JobRows /\ box \in Boxes /\ seen \in Notes
  BY DEF Status, Books, OnePoll, LogTyped
<1>2. /\ UNCHANGED <<box, guard>>
      /\ mirror' \in {mirror, Append(mirror, Marker)}
      /\ seen'.told = seen.told + Told(r, st) /\ guard.pc # "emptied"
  BY <1>1 DEF Status, Notes
<1>3. st \in Statuses /\ st.truncations = box.truncations /\ st.total = box.total
  BY <1>1 DEF StatusNow, Statuses, LogBytes, LogTyped, Boxes
<1>4. InOrder' /\ Mirrored' = Mirrored
  BY <1>2, MarkerAddsNoByte DEF Books
<1>5. GuardBooks' /\ box.total = box.emptied /\ box.emptied <= box.wrote
  BY <1>2 DEF Books, GuardBooks, LogBytes, LogTyped
<1>6. Polling = {}
  BY <1>1, PollAlone DEF Polling
<1>7. Balanced(w, box', guard'.pc, Mirrored', seen'.told)
  <2>1. Balanced(r, box, guard.pc, Mirrored, seen.told)
    BY <1>6 DEF Books, RowBooks
  <2>2. Mirrored \in SUBSET (Nat \ {0}) /\ seen.told \in Int
    BY <1>1, MirroredIsNat DEF Notes
  <2> HIDE DEF st
  <2>3. Balanced(w, box, guard.pc, Mirrored, seen.told + Told(r, st))
    BY <1>1, <1>2, <1>3, <1>5, <2>1, <2>2, RiseKeepsBooks
  <2> QED
    BY <1>2, <1>4, <2>3
<1>8. CASE Fetches(AfterRise(r, st), st)
  <2>1. /\ poll' = [poll EXCEPT ![p] = [pc |-> "status", job |-> AfterRise(r, st), st |-> st]]
        /\ jobRow' = jobRow
    BY <1>1, <1>8 DEF Status
  <2>2. /\ poll'[p].pc = "status" /\ poll'[p].job = AfterRise(r, st) /\ poll'[p].st = st
        /\ \A q \in Pollers : q # p => poll'[q].pc = "idle"
    BY <1>1, <2>1, PollAlone DEF LogTyped
  <2>3. ~jobRow.over
    BY <1>1 DEF Books, OnePoll
  <2>4. p \in Polling'
    BY <2>2 DEF Polling
  <2> HIDE DEF st
  <2>5. OnePoll'
    BY <1>2, <1>3, <1>7, <2>1, <2>2, <2>3 DEF OnePoll, RowBooks
  <2> QED
    BY <1>4, <1>5, <2>4, <2>5 DEF Books
<1>9. CASE ~Fetches(AfterRise(r, st), st)
  <2>1. poll' = [poll EXCEPT ![p] = Idle] /\ jobRow' = w
    BY <1>1, <1>9 DEF Status
  <2> HIDE DEF w
  <2> QED
    BY <1>1, <1>4, <1>5, <1>7, <2>1, PollEnds DEF RowBooks
<1> QED
  BY <1>8, <1>9

\* A chunk that goes on where the mirror ends keeps its order.
LEMMA ChunkExtendsMirror ==
  ASSUME LogTyped, InOrder, NEW k \in Nat, NEW n \in Nat, NEW chunk \in Seq(Nat), Len(chunk) = n,
         \A i \in 1..n : chunk[i] = k + i, \A b \in Mirrored : b <= k, mirror' = mirror \o chunk
  PROVE  InOrder' /\ Mirrored' = Mirrored \cup ((k + 1)..(k + n))
<1> DEFINE m == Len(mirror)
<1>1. m \in Nat /\ DOMAIN mirror = 1..m /\ mirror \in Seq(Nat) /\ \A i \in 1..m : mirror[i] \in Nat
  BY LenProperties DEF LogTyped
<1>2. mirror' \in Seq(Nat) /\ Len(mirror') = m + n /\ DOMAIN mirror' = 1..(m + n)
  <2>1. mirror' \in Seq(Nat) /\ Len(mirror') = m + n
    BY <1>1, ConcatProperties
  <2> QED
    BY <2>1, LenProperties
<1>3. \A i \in 1..(m + n) : mirror'[i] = IF i <= m THEN mirror[i] ELSE chunk[i - m]
  BY <1>1, ConcatProperties
<1>4. \A i \in 1..m : mirror[i] # Marker => mirror[i] \in Mirrored /\ mirror[i] <= k
  BY <1>1 DEF Mirrored
<1> HIDE DEF m
<1>5. \A i \in 1..m : i \in 1..(m + n) /\ mirror'[i] = mirror[i]
  BY <1>1, <1>3
<1>6. ASSUME NEW i \in (m + 1)..(m + n) PROVE mirror'[i] = k + i - m /\ i \in 1..(m + n)
  <2>1. i - m \in 1..n /\ i \in 1..(m + n) /\ ~(i <= m)
    BY <1>1
  <2> QED
    BY <1>1, <1>3, <2>1
<1>7. \A i \in 1..(m + n) : i \in 1..m \/ i \in (m + 1)..(m + n)
  BY <1>1
<1>8. InOrder'
  <2> SUFFICES ASSUME NEW i \in 1..(m + n), NEW j \in 1..(m + n),
                      i < j, mirror'[i] # Marker, mirror'[j] # Marker
               PROVE  mirror'[i] < mirror'[j]
    BY <1>2 DEF InOrder
  <2>1. CASE i \in 1..m /\ j \in 1..m
    BY <1>1, <1>5, <2>1 DEF InOrder
  <2>2. CASE i \in 1..m /\ j \in (m + 1)..(m + n)
    <3>1. mirror'[i] \in Nat /\ mirror'[i] <= k
      BY <1>1, <1>4, <1>5, <2>2
    <3> QED
      BY <1>1, <1>6, <2>2, <3>1
  <2>3. CASE i \in (m + 1)..(m + n) /\ j \in (m + 1)..(m + n)
    BY <1>1, <1>6, <2>3
  <2>4. CASE i \in (m + 1)..(m + n) /\ j \in 1..m
    BY <1>1, <2>4
  <2> QED
    BY <1>7, <2>1, <2>2, <2>3, <2>4
<1>9. ASSUME NEW b \in Mirrored' PROVE b \in Mirrored \cup ((k + 1)..(k + n))
  <2>1. PICK i \in 1..(m + n) : b = mirror'[i] /\ b # Marker
    BY <1>2 DEF Mirrored
  <2>2. CASE i \in 1..m
    BY <1>4, <1>5, <2>1, <2>2
  <2>3. CASE i \in (m + 1)..(m + n)
    <3>1. b = k + i - m
      BY <1>6, <2>1, <2>3
    <3> QED
      BY <1>1, <2>3, <3>1
  <2> QED
    BY <1>7, <2>2, <2>3
<1>10. ASSUME NEW b \in Mirrored PROVE b \in Mirrored'
  <2>1. PICK i \in 1..m : b = mirror[i] /\ b # Marker
    BY <1>1 DEF Mirrored
  <2> QED
    BY <1>2, <1>5, <2>1 DEF Mirrored
<1>11. ASSUME NEW b \in (k + 1)..(k + n) PROVE b \in Mirrored'
  <2> DEFINE i == b - k + m
  <2>1. i \in (m + 1)..(m + n)
    BY <1>1
  <2>2. mirror'[i] = k + i - m /\ i \in 1..(m + n)
    BY <1>6, <2>1
  <2>3. mirror'[i] = b /\ b # 0
    BY <1>1, <2>2
  <2> HIDE DEF i
  <2> QED
    BY <1>2, <2>2, <2>3 DEF Mirrored, Marker
<1> QED
  BY <1>8, <1>9, <1>10, <1>11

LEMMA FetchStepKeepsBooks ==
  ASSUME LogTyped, Books, NEW p \in Pollers, Fetch(p)
  PROVE  Books'
<1> DEFINE job == poll[p].job
           st == poll[p].st
           w == Written(job, st)
           chunk == LogFrom(job.offset)
           n == Len(chunk)
           k == box.emptied + job.offset
           grown == [job EXCEPT !.offset = @ + n, !.mirrored = @ + n]
<1>1. poll[p].pc = "status" /\ job \in JobRows /\ st \in Statuses /\ box \in Boxes
      /\ poll' = [poll EXCEPT ![p] = Idle] /\ UNCHANGED <<box, guard, seen>>
  BY DEF Fetch, LogTyped, Polls
<1>2. /\ guard.pc # "emptied" /\ st.truncations = box.truncations
      /\ Balanced(w, box, guard.pc, Mirrored, seen.told) /\ box.total = box.emptied
  BY <1>1 DEF Books, OnePoll, RowBooks, GuardBooks
<1>3. GuardBooks'
  BY <1>1 DEF Books, GuardBooks, LogBytes
<1>4. w \in JobRows /\ w.lost = job.lost /\ w.mirrored = job.mirrored /\ w.offset = job.offset
      /\ w.truncations = st.truncations
  BY <1>1, WrittenIsRow DEF Written, JobRows
<1>5. job.offset \in Nat /\ box.emptied \in Nat /\ box.wrote \in Nat
      /\ job.lost \in Int /\ job.mirrored \in Nat
  BY <1>1 DEF JobRows, Boxes
<1>6. k \in Nat /\ job.lost + job.mirrored = k /\ k <= box.wrote
  BY <1>2, <1>4, <1>5 DEF Balanced, Gone
<1>7. chunk \in Seq(Nat) /\ n \in Nat /\ (\A i \in 1..n : chunk[i] = k + i)
      /\ job.offset + n <= box.wrote - box.emptied
  <2>1. job.offset <= LogBytes
    BY <1>5, <1>6 DEF LogBytes
  <2> DEFINE o == job.offset
  <2>2. o \in Nat /\ o <= LogBytes /\ chunk = LogFrom(o) /\ k = box.emptied + o
    BY <1>5, <2>1
  <2> HIDE DEF o
  <2>3. /\ LogFrom(o) \in Seq(Nat) /\ Len(LogFrom(o)) \in Nat
        /\ \A i \in 1..Len(LogFrom(o)) : LogFrom(o)[i] = box.emptied + o + i
        /\ Len(LogFrom(o)) <= LogBytes - o
    BY <2>2, ChunkOfLog
  <2>4. job.offset = o
    BY DEF o
  <2> HIDE DEF chunk, k, job
  <2>5. chunk \in Seq(Nat) /\ n \in Nat /\ \A i \in 1..n : chunk[i] = k + i
    BY <2>2, <2>3
  <2>6. n <= LogBytes - o
    BY <2>2, <2>3
  <2> QED
    BY <1>5, <2>2, <2>4, <2>5, <2>6 DEF LogBytes
<1>8. CASE mirror' = mirror \o chunk /\ jobRow' = Written(grown, st)
  <2>1. \A b \in Mirrored : b <= k
    BY <1>2, <1>4, <1>6 DEF Balanced
  <2>2. InOrder' /\ Mirrored' = Mirrored \cup ((k + 1)..(k + n))
    <3> HIDE DEF k, n, chunk
    <3>1. Len(chunk) = n
      BY DEF n
    <3> QED
      BY <1>6, <1>7, <1>8, <2>1, <3>1, ChunkExtendsMirror DEF Books
  <2>3. Balanced([w EXCEPT !.offset = @ + n, !.mirrored = @ + n], box, guard.pc,
                 Mirrored \cup ((k + 1)..(k + n)), seen.told)
    <3>1. Mirrored \in SUBSET Nat
      BY MirroredIsNat
    <3> HIDE DEF w, n, chunk, job
    <3>2. w.offset + n <= box.wrote - box.emptied /\ w.truncations = box.truncations
          /\ k = box.emptied + w.offset
      BY <1>2, <1>4, <1>7
    <3> HIDE DEF k
    <3>3. Balanced([w EXCEPT !.offset = @ + n, !.mirrored = @ + n], box, guard.pc,
                   Mirrored \cup ((box.emptied + w.offset + 1)..(box.emptied + w.offset + n)), seen.told)
      BY <1>1, <1>2, <1>4, <1>7, <3>1, <3>2, FetchKeepsBooks
    <3> QED
      BY <3>2, <3>3
  <2> DEFINE g == [w EXCEPT !.offset = @ + n, !.mirrored = @ + n]
  <2>4. /\ g.lost = jobRow'.lost /\ g.mirrored = jobRow'.mirrored /\ g.offset = jobRow'.offset
        /\ g.truncations = jobRow'.truncations
    <3> HIDE DEF n
    <3> QED
      BY <1>1, <1>4, <1>8 DEF Written, JobRows
  <2> HIDE DEF g, k, n, w
  <2>5. Balanced(g, box, guard.pc, Mirrored', seen.told)
    BY <2>2, <2>3 DEF g
  <2>6. Balanced(jobRow', box, guard.pc, Mirrored', seen.told)
    BY <2>4, <2>5 DEF Balanced, Gone
  <2>7. RowBooks(jobRow)'
    BY <1>1, <2>6 DEF RowBooks
  <2> QED
    BY <1>1, <1>3, <2>2, <2>7, PollEnds
<1>9. CASE mirror' = mirror /\ jobRow' = w
  <2>1. InOrder' /\ Mirrored' = Mirrored
    BY <1>9 DEF InOrder, Mirrored, Books
  <2>2. RowBooks(jobRow)'
    BY <1>1, <1>2, <1>9, <2>1 DEF RowBooks
  <2> QED
    BY <1>1, <1>3, <2>1, <2>2, PollEnds
<1> QED
  BY <1>8, <1>9 DEF Fetch

\* The books of a row that has seen the last truncation, and a guard at rest:
\* what the markers told is what was emptied and is not in the mirror.
LEMMA BooksAccount ==
  ASSUME LogTyped, GuardBooks, guard.pc = "idle",
         NEW r \in JobRows, RowBooks(r), r.truncations = box.truncations
  PROVE  seen.told = Cardinality(Missing)
<1> DEFINE e == box.emptied
<1>1. Balanced(r, box, guard.pc, Mirrored, seen.told) /\ box.total = e /\ e \in Nat
  BY DEF RowBooks, GuardBooks, LogTyped, Boxes
<1>2. Gone(r) = e /\ Cardinality(Mirrored \cap 1..e) = r.mirrored - r.offset /\ seen.told = r.lost
  BY <1>1 DEF Balanced
<1>3. IsFiniteSet(1..e) /\ Cardinality(1..e) = e
  BY <1>1, FS_Interval
<1>4. Cardinality(1..e \ Mirrored) = Cardinality(1..e) - Cardinality(1..e \cap Mirrored)
  BY <1>3, FS_Difference
<1>5. 1..e \cap Mirrored = Mirrored \cap 1..e /\ Missing = 1..e \ Mirrored
  BY DEF Missing
<1> HIDE DEF e
<1>6. Cardinality(Missing) = e - (r.mirrored - r.offset)
  BY <1>2, <1>3, <1>4, <1>5
<1> QED
  BY <1>1, <1>2, <1>6 DEF Gone, JobRows

LEMMA LogToldHolds == LogInv => LogTold
<1> SUFFICES ASSUME LogInv PROVE LogTold
  OBVIOUS
<1> USE DEF LogInv
<1>1. ASSUME ~seen.crossed, jobRow.truncations = box.truncations, guard.pc = "idle"
      PROVE  seen.told = Cardinality(Missing)
  <2>1. CASE Polling = {}
    BY <1>1, <2>1, BooksAccount DEF Books, LogTyped
  <2>2. CASE Polling # {}
    <3>1. PICK p \in Pollers : poll[p].pc = "status"
      BY <2>2 DEF Polling
    <3> DEFINE w == Written(poll[p].job, poll[p].st)
    <3>2. w \in JobRows /\ w.truncations = poll[p].st.truncations
      BY WrittenIsRow DEF LogTyped, Polls, Written, JobRows
    <3>3. RowBooks(w) /\ poll[p].st.truncations = box.truncations
      BY <1>1, <3>1 DEF Books, OnePoll
    <3> HIDE DEF w
    <3> QED
      BY <1>1, <3>2, <3>3, BooksAccount DEF Books
  <2> QED
    BY <2>1, <2>2
<1>2. MirrorAccounts
  BY <1>1 DEF MirrorAccounts, Books
<1>3. TailPrinted
  BY DEF TailPrinted, Reads
<1> QED
  BY <1>2, <1>3 DEF LogTold

LEMMA ClientKeepsBooks ==
  ASSUME LogTyped, Books, UNCHANGED <<box, guard, jobRow, mirror, poll>>, seen'.told = seen.told
  PROVE  Books'
<1>1. Mirrored' = Mirrored /\ Polling' = Polling /\ GuardBooks' /\ InOrder'
  BY DEF Mirrored, Polling, GuardBooks, InOrder, LogBytes, Books
<1>2. OnePoll'
  BY <1>1 DEF OnePoll, RowBooks, Books
<1>3. (Polling = {} => RowBooks(jobRow))'
  BY <1>1 DEF RowBooks, Books
<1> QED
  BY <1>1, <1>2, <1>3 DEF Books

\* The mirror only grows, and not once the wrapper has seen the end.
LEMMA MirrorGrows ==
  ASSUME LogTyped, Books, JobLogNext
  PROVE  /\ Len(mirror) \in Nat /\ Len(mirror) <= Len(mirror')
         /\ jobRow.over => UNCHANGED mirror /\ jobRow' = jobRow
<1>1. Len(mirror) \in Nat /\ mirror \in Seq(Nat)
  BY LenProperties DEF LogTyped
<1>2. ASSUME NEW p \in Pollers, Status(p)
      PROVE  Len(mirror) <= Len(mirror') /\ ~jobRow.over
  <2>1. mirror' \in {mirror, Append(mirror, Marker)} /\ poll[p].pc # "idle"
    BY <1>2 DEF Status
  <2>2. Len(Append(mirror, Marker)) = Len(mirror) + 1
    BY <1>1, AppendProperties DEF Marker
  <2> QED
    BY <1>1, <2>1, <2>2 DEF Books, OnePoll
<1>3. ASSUME NEW p \in Pollers, Fetch(p)
      PROVE  Len(mirror) <= Len(mirror') /\ ~jobRow.over
  <2>1. mirror' \in {mirror, mirror \o LogFrom(poll[p].job.offset)} /\ poll[p].pc # "idle"
    BY <1>3 DEF Fetch
  <2>2. poll[p].job.offset \in Nat
    BY DEF LogTyped, Polls, JobRows
  <2>3. LogFrom(poll[p].job.offset) \in Seq(Nat)
    BY <2>2, ChunkOfLog
  <2>4. Len(LogFrom(poll[p].job.offset)) \in Nat
    BY <2>3, LenProperties
  <2>5. Len(mirror \o LogFrom(poll[p].job.offset)) = Len(mirror) + Len(LogFrom(poll[p].job.offset))
    BY <1>1, <2>3, ConcatProperties
  <2> QED
    BY <1>1, <2>1, <2>4, <2>5 DEF Books, OnePoll
<1>4. ASSUME \A p \in Pollers : ~Status(p) /\ ~Fetch(p)
      PROVE  UNCHANGED <<mirror, jobRow>>
  BY <1>4 DEF JobLogNext, Write, JobEnds, Measure, Empty, Count, PollBegins, StatusLost,
     Answered, Unanswered, Drain, DrainFails, Awakes, Interrupt, JobLogDone, jobLogVars
<1> QED
  BY <1>1, <1>2, <1>3, <1>4

LEMMA ReadsKept ==
  ASSUME LogTyped, Books, Reads, JobLogNext
  PROVE  Reads'
<1>1. /\ Len(mirror) \in Nat /\ Len(mirror) <= Len(mirror')
      /\ jobRow.over => mirror' = mirror /\ jobRow' = jobRow
  BY MirrorGrows
<1>2. client \in Terminals /\ client.offset \in Nat /\ seen \in Notes
  BY DEF LogTyped, Terminals
<1>3. Len(mirror') \in Nat
  BY LogTypeKept, LenProperties DEF LogTyped
<1>4. ASSUME client' = client, ~seen'.unread => ~seen.unread
      PROVE  Reads'
  BY <1>1, <1>2, <1>3, <1>4 DEF Reads
<1>5. ASSUME Write \/ JobEnds \/ Measure \/ Empty \/ Count
      PROVE  Reads'
  BY <1>2, <1>4, <1>5 DEF Write, JobEnds, Measure, Empty, Count, Notes
<1>6. ASSUME NEW p \in Pollers, PollBegins(p) PROVE Reads'
  BY <1>1, <1>2, <1>3, <1>6 DEF PollBegins, Reads, Notes, Terminals
<1>7. ASSUME NEW p \in Pollers, Status(p) \/ StatusLost(p) \/ Fetch(p) PROVE Reads'
  BY <1>2, <1>4, <1>7 DEF Status, StatusLost, Fetch, Notes
<1>8. CASE Answered
  BY <1>1, <1>2, <1>3, <1>8 DEF Answered, Reads, Terminals
<1>9. CASE Unanswered
  BY <1>1, <1>2, <1>3, <1>9 DEF Unanswered, Reads, Terminals
<1>10. CASE Drain
  <2>1. client.offset <= Len(mirror) /\ mirror' = mirror /\ seen' = seen /\ jobRow' = jobRow
        /\ client.pc = "drains"
    BY <1>10 DEF Reads, Drain
  <2>2. CASE Slice = <<>>
    <3>1. client.offset = Len(mirror) /\ client' = Turn(client)
      BY <1>10, <2>1, <2>2, SliceReads DEF Drain
    <3>2. Turn(client).offset = client.offset /\ Turn(client).over = client.over
          /\ (client.over => Turn(client).pc = "gone")
      BY <1>2 DEF Turn, Terminals
    <3> QED
      BY <1>1, <2>1, <3>1, <3>2 DEF Reads
  <2>3. CASE Slice # <<>>
    <3>1. client' = [client EXCEPT !.offset = @ + Len(Slice)]
      BY <1>10, <2>3 DEF Drain
    <3>2. client.offset + Len(Slice) <= Len(mirror)
      BY <2>1, SliceReads
    <3> QED
      BY <1>1, <1>2, <2>1, <3>1, <3>2 DEF Reads, Terminals
  <2> QED
    BY <2>2, <2>3
<1>11. CASE DrainFails
  <2>1. Turn(client).offset = client.offset /\ Turn(client).over = client.over
        /\ (client.over => Turn(client).pc = "gone")
    BY <1>2 DEF Turn, Terminals
  <2> QED
    BY <1>1, <1>2, <1>3, <1>11, <2>1 DEF DrainFails, Reads, Notes
<1>12. CASE Awakes
  <2>1. client'.over = client.over /\ client'.offset = client.offset /\ ~client.over
    <3>1. ~client.over
      BY <1>12 DEF Awakes, Reads
    <3>2. CASE client.polls < 0
      BY <1>2, <1>12, <3>1, <3>2 DEF Awakes, Terminals
    <3>3. CASE client.polls \in 0..(StopPolls - 1)
      BY <1>2, <1>12, <3>1, <3>3 DEF Awakes, Terminals, StopPolls
    <3>4. CASE ~(client.polls < 0) /\ client.polls \notin 0..(StopPolls - 1)
      BY <1>2, <1>12, <3>1, <3>4 DEF Awakes, Terminals
    <3> QED
      BY <3>2, <3>3, <3>4
  <2> QED
    BY <1>1, <1>2, <1>3, <2>1 DEF Reads
<1>13. CASE Interrupt
  BY <1>1, <1>2, <1>3, <1>13 DEF Interrupt, Reads, Terminals
<1>14. CASE JobLogDone
  BY <1>4, <1>14 DEF JobLogDone, jobLogVars
<1> QED
  BY <1>5, <1>6, <1>7, <1>8, <1>9, <1>10, <1>11, <1>12, <1>13, <1>14 DEF JobLogNext

LEMMA LogStep == LogInv /\ [JobLogNext]_jobLogVars => LogInv'
<1> SUFFICES ASSUME LogInv, [JobLogNext]_jobLogVars PROVE LogInv'
  OBVIOUS
<1>1. LogTyped /\ LogTyped'
  BY LogTypeKept DEF LogInv
<1>2. SUFFICES ASSUME ~seen'.crossed PROVE Books' /\ Reads'
  BY <1>1 DEF LogInv
<1>3. CASE UNCHANGED jobLogVars
  <2>1. Books /\ Reads
    BY <1>2, <1>3 DEF jobLogVars, LogInv
  <2>2. Books'
    BY <1>1, <1>3, <2>1, ClientKeepsBooks DEF jobLogVars
  <2> QED
    BY <1>3, <2>1, <2>2 DEF jobLogVars, Reads
<1>4. CASE JobLogNext
  <2>1. ~seen.crossed
    BY <1>1, <1>2, <1>4 DEF JobLogNext, Write, JobEnds, Measure, Empty, Count, PollBegins, Status,
       StatusLost, Fetch, Answered, Unanswered, Drain, DrainFails, Awakes, Interrupt, JobLogDone,
       jobLogVars, LogTyped, Notes
  <2>2. Books /\ Reads
    BY <2>1 DEF LogInv
  <2>3. Reads'
    BY <1>1, <1>4, <2>2, ReadsKept
  <2>4. CASE Write \/ JobEnds \/ Measure \/ Empty \/ Count
    BY <1>1, <1>2, <2>2, <2>3, <2>4, BoxStepKeepsBooks
  <2>5. CASE \E p \in Pollers : PollBegins(p) \/ Status(p) \/ StatusLost(p) \/ Fetch(p)
    BY <1>1, <1>2, <2>2, <2>3, <2>5, PollBeginsKeepsBooks, StatusKeepsBooks, StatusLostKeepsBooks,
       FetchStepKeepsBooks
  <2>6. CASE Answered \/ Unanswered \/ Drain \/ DrainFails \/ Awakes \/ Interrupt \/ JobLogDone
    <3>1. UNCHANGED <<box, guard, jobRow, mirror, poll>> /\ seen'.told = seen.told
      BY <1>1, <2>6 DEF Answered, Unanswered, Drain, DrainFails, Awakes, Interrupt, JobLogDone,
         jobLogVars, LogTyped, Notes
    <3> QED
      BY <1>1, <2>2, <2>3, <3>1, ClientKeepsBooks
  <2> QED
    BY <1>4, <2>3, <2>4, <2>5, <2>6 DEF JobLogNext
<1> QED
  BY <1>3, <1>4

(* What was told of a job's log is all there is to tell (job-tick.ts pollJob,  *)
(* job.ts waitAndStream): unless two polls overlapped or a truncation fell     *)
(* within one, every byte the job wrote and the box emptied is in the mirror   *)
(* or in the count of a marker, in order and once, whatever the sizes of the   *)
(* log, the fetch and the mirror; and a wrapper that saw the end and could     *)
(* read the mirror has printed all of it.                                      *)
THEOREM LogIsTold == JobLogSpec => []LogTold
<1>1. JobLogInit => LogInv
  BY LogInitially
<1>2. LogInv /\ [JobLogNext]_jobLogVars => LogInv'
  BY LogStep
<1>3. LogInv => LogTold
  BY LogToldHolds
<1> QED
  BY <1>1, <1>2, <1>3, PTL DEF JobLogSpec
=============================================================================
