------------------------------ MODULE LeaseRun ------------------------------
(* `grokfleet lease run' (fleet/src/commands/lease.ts): take a lease, run a    *)
(* command on its box, give the lease back.  While the command runs a timer    *)
(* renews the lease at half its TTL and asks every 30 s what became of it; the *)
(* release is in a `finally' and on SIGINT or SIGTERM.  The lease's row and    *)
(* the tick that ages it are reduced here to what a holder can meet (Leases    *)
(* has them whole).  The clock counts the timer's periods: two calls of the    *)
(* client end within 16 s (8 s each), so a beat is over before the next one.   *)
EXTENDS Integers

CONSTANTS
  Ttl,         \* the granted TTL, in periods
  Retry,       \* RENEW_RETRY_MS, in periods
  Grace,       \* the grace of an expired or a lost lease
  LifeCap,     \* the lifetime cap of an ephemeral lease taken at time 0
  Horizon,     \* bound: the last period
  MaxLeaseLosses    \* bound: calls that fail or whose answer is lost

\* With a TTL of ten minutes or less one failed renewal is retried too late.
ASSUME LeaseRunAssumption ==
  /\ {Ttl, Retry, Grace, LifeCap, Horizon} \subseteq Nat \ {0}
  /\ MaxLeaseLosses \in Nat
  /\ Ttl > 2 * Retry

PollFailThreshold == 3
Half == Ttl \div 2
Never == Horizon + Ttl + 1
LesserOf(a, b) == IF a < b THEN a ELSE b

VARIABLES
  now,     \* periods since the call to acquire
  row,     \* the lease's row in the brain: state, expiry, end of the deferral
  run,     \* the wrapper: its stage, what it keeps about the lease
  beat,    \* what the timer's beat has still to do
  delete,  \* the DELETE: "none", "sent", "landed", "lost"
  leaseLosses,  \* calls lost so far
  held     \* history: when the lease went bad, a renewal failed, the run ended

leaseRunVars == <<now, row, run, beat, delete, leaseLosses, held>>

LeaseRunTypeOK ==
  /\ now \in 0..Horizon
  /\ row \in [state : {"none", "active", "expired", "lost", "released"},
              expires : 0..Never, freed : BOOLEAN]
  /\ run \in [stage : {"acquiring", "running", "ending", "gone"},
              kind : {"ephemeral", "service"}, renewing : BOOLEAN,
              nextRenew : 0..Never, state : {"active", "expired", "lost", "unknown"},
              fails : 0..PollFailThreshold, released : BOOLEAN,
              said : {"nothing", "released", "expired", "lost", "unknown"}]
  /\ beat \in {"idle", "renew", "poll"}
  /\ delete \in {"none", "sent", "landed", "lost"}
  /\ leaseLosses \in 0..MaxLeaseLosses
  /\ held \in [bad : 0..Never, missed : -Never..Horizon, end : 0..Never,
               signal : BOOLEAN, unanswered : BOOLEAN]

LeaseRunInit ==
  /\ now = 0
  /\ row = [state |-> "none", expires |-> Never, freed |-> FALSE]
  /\ \E k \in {"ephemeral", "service"} :
       run = [stage |-> "acquiring", kind |-> k, renewing |-> k = "ephemeral",
              nextRenew |-> Half, state |-> "active", fails |-> 0,
              released |-> FALSE, said |-> "nothing"]
  /\ beat = "idle" /\ delete = "none" /\ leaseLosses = 0
  /\ held = [bad |-> Never, missed |-> -Never, end |-> Never,
             signal |-> FALSE, unanswered |-> FALSE]

LoseCall == leaseLosses < MaxLeaseLosses /\ leaseLosses' = leaseLosses + 1

-----------------------------------------------------------------------------
(* The call that takes the lease: refused or never arrived, or done with the   *)
(* answer lost, in which case the program ends with 255, `nothing ran'.        *)

Granted == [state |-> "active", freed |-> FALSE,
            expires |-> IF run.kind = "service" THEN Never ELSE LesserOf(now + Ttl, LifeCap)]

Acquire ==
  /\ run.stage = "acquiring"
  /\ \/ /\ row' = Granted
        /\ run' = [run EXCEPT !.stage = "running", !.nextRenew = now + Half]
        /\ UNCHANGED <<leaseLosses, held>>
     \/ /\ LoseCall
        /\ row' \in {row, Granted}
        /\ run' = [run EXCEPT !.stage = "gone", !.said = "unknown"]
        /\ held' = [held EXCEPT !.end = now, !.unanswered = TRUE]
  /\ UNCHANGED <<now, beat, delete>>

-----------------------------------------------------------------------------
(* The timer.  A beat renews when the renewal is due, then asks.               *)

Period ==
  /\ now < Horizon /\ beat = "idle" /\ run.stage # "acquiring"
  /\ now' = now + 1
  /\ beat' = IF run.stage # "running" THEN "idle"
             ELSE IF run.renewing /\ now + 1 >= run.nextRenew THEN "renew" ELSE "poll"
  /\ UNCHANGED <<row, run, delete, leaseLosses, held>>

\* A renewal that failed is tried again on the renewal's own clock.
\* For mutation: a failed renewal waits half a TTL.
RetryAtHalf == now + Half

RetryAt == now + Retry

RenewedRow == [row EXCEPT !.expires = LesserOf(now + Ttl, LifeCap)]

RenewAnswered ==
  /\ run' = CASE row.state # "active" -> [run EXCEPT !.nextRenew = RetryAt]
              [] row.state = "active" /\ now >= LifeCap -> [run EXCEPT !.renewing = FALSE]
              [] OTHER -> [run EXCEPT !.nextRenew = now + Half]
  /\ row' = IF row.state = "active" /\ now < LifeCap THEN RenewedRow ELSE row
  /\ UNCHANGED <<leaseLosses, held>>

RenewLost ==
  /\ LoseCall
  /\ row' \in {row} \cup (IF row.state = "active" /\ now < LifeCap THEN {RenewedRow} ELSE {})
  /\ run' = [run EXCEPT !.nextRenew = RetryAt]
  /\ held' = [held EXCEPT !.missed = now]

Renew ==
  /\ beat = "renew" /\ run.stage # "gone"
  /\ RenewAnswered \/ RenewLost
  /\ beat' = "poll"
  /\ UNCHANGED <<now, delete>>

\* A failed poll is not evidence of health: the third in a row says "unknown".
\* For mutation: a poll that fails changes nothing.
PollFailedUncounted == run

PollFailed ==
  LET n == LesserOf(run.fails + 1, PollFailThreshold) IN
  [run EXCEPT !.fails = n,
              !.state = IF n >= PollFailThreshold THEN "unknown" ELSE @]

PollAnswered ==
  [run EXCEPT !.fails = 0,
              !.state = IF row.state \in {"lost", "expired"} THEN row.state ELSE @]

Poll ==
  /\ beat = "poll" /\ run.stage # "gone"
  /\ \/ run' = PollAnswered /\ UNCHANGED leaseLosses
     \/ run' = PollFailed /\ LoseCall
  /\ beat' = "idle"
  /\ UNCHANGED <<now, row, delete, held>>

-----------------------------------------------------------------------------
(* The end of the command, by itself or by an exception, and the signals.  The *)
(* flag `released' is set when the DELETE is sent, not when it is answered.    *)

SendDelete(r) == [r EXCEPT !.released = TRUE]

\* The `finally': stop the timer, take the handlers off, give the lease back.
\* For mutation: the release only after a command that did not throw.
CommandEndsLeaving(threw) ==
  /\ run.stage = "running"
  /\ run' = IF threw THEN [run EXCEPT !.stage = "gone"] ELSE [SendDelete(run) EXCEPT !.stage = "ending"]
  /\ delete' = IF run.released \/ threw THEN delete ELSE "sent"
  /\ beat' = IF threw THEN "idle" ELSE beat
  /\ held' = [held EXCEPT !.end = now]
  /\ UNCHANGED <<now, row, leaseLosses>>

CommandEnds(threw) ==
  /\ run.stage = "running"
  /\ run' = [SendDelete(run) EXCEPT !.stage = "ending"]
  /\ delete' = IF run.released THEN delete ELSE "sent"
  /\ held' = [held EXCEPT !.end = now]
  /\ UNCHANGED <<now, row, beat, leaseLosses>>

\* The handler does not stop the command; a SIGTERM reaches only the wrapper.
Signal ==
  /\ run.stage = "running" /\ ~run.released
  /\ run' = SendDelete(run)
  /\ delete' = "sent"
  /\ held' = [held EXCEPT !.signal = TRUE]
  /\ UNCHANGED <<now, row, beat, leaseLosses>>

DeleteLands ==
  /\ delete = "sent"
  /\ delete' = "landed"
  /\ row' = IF row.freed THEN row
            ELSE [row EXCEPT !.freed = TRUE,
                             !.state = IF @ = "active" THEN "released" ELSE @]
  /\ UNCHANGED <<now, run, beat, leaseLosses, held>>

\* Its answer or the request itself is lost, or the exit drops it unsent.
DeleteLost ==
  /\ delete = "sent"
  /\ \/ run.stage = "gone" /\ UNCHANGED leaseLosses
     \/ LoseCall
  /\ delete' = "lost"
  /\ held' = [held EXCEPT !.unanswered = TRUE]
  /\ UNCHANGED <<now, row, run, beat>>

\* After a signal the second release returns at once, the DELETE in flight or not.
Exit ==
  /\ run.stage = "ending"
  /\ held.signal \/ delete # "sent"
  /\ run' = [run EXCEPT !.stage = "gone",
                        !.said = IF run.state = "active" THEN "released" ELSE run.state]
  /\ beat' = "idle"
  /\ UNCHANGED <<now, row, delete, leaseLosses, held>>

\* With the handlers off, a signal during the last release kills the program.
KilledWhileReleasing ==
  /\ run.stage = "ending"
  /\ run' = [run EXCEPT !.stage = "gone"]
  /\ beat' = "idle"
  /\ held' = [held EXCEPT !.signal = TRUE]
  /\ UNCHANGED <<now, row, delete, leaseLosses>>

-----------------------------------------------------------------------------
(* The brain's tick, at any moment: expiry, loss, the end of a grace, which    *)
(* for a lost lease comes early when its box is healthy in two ticks.          *)

GoesBad(state) ==
  /\ row.state = "active"
  /\ row' = [row EXCEPT !.state = state]
  /\ held' = [held EXCEPT !.bad = now]
  /\ UNCHANGED <<now, run, beat, delete, leaseLosses>>

Expires == now >= row.expires /\ GoesBad("expired")
IsLost == GoesBad("lost")

GraceEnds ==
  /\ row.state \in {"expired", "lost"} /\ ~row.freed
  /\ row.state = "lost" \/ now >= held.bad + Grace
  /\ row' = [row EXCEPT !.freed = TRUE]
  /\ UNCHANGED <<now, run, beat, delete, leaseLosses, held>>

LeaseRunDone == now = Horizon /\ UNCHANGED leaseRunVars

LeaseRunNext ==
  \/ Acquire \/ Period \/ Renew \/ Poll \/ Signal
  \/ \E threw \in BOOLEAN : CommandEnds(threw)
  \/ DeleteLands \/ DeleteLost \/ Exit \/ KilledWhileReleasing
  \/ Expires \/ IsLost \/ GraceEnds \/ LeaseRunDone

LeaseRunSpec == LeaseRunInit /\ [][LeaseRunNext]_leaseRunVars

-----------------------------------------------------------------------------
(* A run that was not signalled and whose calls were all answered leaves no    *)
(* lease behind: not when the command threw, not when the lease had already    *)
(* expired or been lost and its grace was still keeping the box.               *)
LeaseGivenBack ==
  run.stage = "gone" /\ ~held.signal /\ ~held.unanswered => row.freed

(* A lease expires under a running command only at its lifetime cap or when a  *)
(* renewal failed within the last retry period before the expiry.              *)
KeptAlive ==
  [][Expires /\ run.stage = "running"
       => row.expires >= LifeCap \/ held.missed >= row.expires - Retry]_leaseRunVars

(* "released" is never printed for a lease that had been lost or had expired   *)
(* more than three periods before the command ended: a poll that fails is      *)
(* counted, and whatever a poll or three failures said is not taken back.      *)
NotBlind ==
  run.said = "released" => held.end <= held.bad + PollFailThreshold
=============================================================================
