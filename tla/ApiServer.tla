------------------------------ MODULE ApiServer ------------------------------
(***************************************************************************)
(* The mutations of the brain's API (serve/handlers.ts) and what they wait *)
(* for: the mutex of the process, a chain of gates (serve/lock.ts,         *)
(* AsyncMutex), then flock(2) on reconcile.lock, which the timer's tick    *)
(* takes as well; and the registry of the one reconcile job                *)
(* (serve/jobs.ts), whose audit line takes its id from a variable of the   *)
(* handlers' module.                                                       *)
(*                                                                         *)
(* A caller of the lock is a request, which may come again, or a reconcile *)
(* job, whose id is minted once.  The 30 s budget may run out at any step  *)
(* of the wait.  The process may be restarted: chain, registry and locks   *)
(* go with it, requests are not answered.                                  *)
(***************************************************************************)
EXTENDS Naturals, FiniteSets

CONSTANTS
  Request,      \* requests a client has at the server, each may be sent again
  JobId,        \* ids of reconcile jobs
  Timer, Free,  \* the timer's tick as a holder of the lock; nobody
  MaxGates      \* gates appended to the chain

Caller == Request \cup JobId

ASSUME ApiAssumption ==
  /\ Timer \notin Caller /\ Free \notin Caller /\ Timer # Free
  /\ Request \cap JobId = {} /\ MaxGates \in Nat

VARIABLES
  at,        \* per caller: "away", "mutex", "flock", "op", "settled", "failed"
  gate,      \* per caller, the place of its unreleased gate in the chain, 0 for none
  gates,     \* gates appended so far
  flock,     \* who holds reconcile.lock
  flagged,   \* the store's integrity flag
  running,   \* the registry's running job, or Free
  known,     \* the jobs the registry answers for
  minted,    \* ids given out
  current,   \* currentJobId
  audit      \* audit lines of reconcile jobs: whose, and the id they name

apiVars == <<at, gate, gates, flock, flagged, running, known, minted, current, audit>>

Stages == {"away", "mutex", "flock", "op", "settled", "failed"}

ApiInit ==
  /\ at = [c \in Caller |-> "away"] /\ gate = [c \in Caller |-> 0] /\ gates = 0
  /\ flock = Free /\ flagged \in BOOLEAN
  /\ running = Free /\ known = {} /\ minted = {} /\ current = Free /\ audit = {}

---------------------------------------------------------------------------
(* withReconcileLock.                                                       *)

\* The gate goes behind the tail of the chain.
Enqueue(c) ==
  /\ gates < MaxGates
  /\ gates' = gates + 1
  /\ gate' = [gate EXCEPT ![c] = gates + 1]
  /\ at' = [at EXCEPT ![c] = "mutex"]

\* `prior' is resolved: every gate before c's has been released.
PriorResolved(c) == \A d \in Caller : gate[d] = 0 \/ gate[d] >= gate[c]

Acquired(c) ==
  /\ at[c] = "mutex" /\ PriorResolved(c)
  /\ at' = [at EXCEPT ![c] = "flock"]
  /\ UNCHANGED <<gate, gates, flock, flagged, running, known, minted, current, audit>>

FlockTaken(c) ==
  /\ at[c] = "flock" /\ flock = Free
  /\ flock' = c
  /\ at' = [at EXCEPT ![c] = "op"]
  /\ UNCHANGED <<gate, gates, flagged, running, known, minted, current, audit>>

\* A job goes on to its audit line, a request is answered.
After(c) == IF c \in JobId THEN "settled" ELSE "away"

\* Mutant: a waiter that gives up leaves its gate in the chain.
TimedOutKeepsGate(c) == /\ at' = [at EXCEPT ![c] = After(c)]
                        /\ UNCHANGED gate
TimedOut(c) == /\ at' = [at EXCEPT ![c] = After(c)]
               /\ gate' = [gate EXCEPT ![c] = 0]

\* 423: the budget ends in the wait for the mutex, or between two tries of the
\* flock, or the lock file cannot be opened.
LockBusy(c) ==
  /\ at[c] = "mutex" \/ (at[c] = "flock" /\ flock # c)
  /\ TimedOut(c)
  /\ UNCHANGED <<gates, flock, flagged, running, known, minted, current, audit>>

\* The operation returns or throws; `finally' closes the descriptor and
\* releases the gate.  A job's operation is a tick, whose daily check may set
\* the flag, and which may throw.
Operated(c) ==
  /\ at[c] = "op"
  /\ flock' = Free
  /\ gate' = [gate EXCEPT ![c] = 0]
  /\ \E next \in {After(c)} \cup (IF c \in JobId THEN {"failed"} ELSE {}) : at' = [at EXCEPT ![c] = next]
  /\ flagged' \in (IF c \in JobId THEN {flagged, TRUE} ELSE {flagged})
  /\ UNCHANGED <<gates, running, known, minted, current, audit>>

---------------------------------------------------------------------------
(* The handlers.                                                            *)

\* config-push, rotate-key and rename: the flag is read before the wait.
Mutate(r) ==
  /\ at[r] = "away" /\ ~flagged
  /\ Enqueue(r)
  /\ UNCHANGED <<flock, flagged, running, known, minted, current, audit>>

\* A second job while one runs is refused with 409.
MayStart == running = Free

\* POST /v1/reconcile: the job is registered and its closure started, then
\* the id is kept for its audit line.
Reconcile(j) ==
  /\ j \notin minted /\ ~flagged /\ MayStart
  /\ minted' = minted \cup {j} /\ known' = known \cup {j}
  /\ running' = j /\ current' = j
  /\ Enqueue(j)
  /\ UNCHANGED <<flock, flagged, audit>>

\* The closure writes its one line, also when the lock was busy but not when it
\* threw, and the registry settles either way.
JobSettles(j) ==
  /\ at[j] \in {"settled", "failed"}
  /\ audit' = IF at[j] = "settled" THEN audit \cup {[of |-> j, job |-> current]} ELSE audit
  /\ at' = [at EXCEPT ![j] = "away"]
  /\ running' = IF running = j THEN Free ELSE running
  /\ UNCHANGED <<gate, gates, flock, flagged, known, minted, current>>

---------------------------------------------------------------------------
(* Around the server.                                                       *)

\* The timer's tick; its daily check may set the flag.
TimerTakes ==
  /\ flock = Free
  /\ flock' = Timer
  /\ UNCHANGED <<at, gate, gates, flagged, running, known, minted, current, audit>>

TimerEnds ==
  /\ flock = Timer
  /\ flock' = Free /\ flagged' \in {flagged, TRUE}
  /\ UNCHANGED <<at, gate, gates, running, known, minted, current, audit>>

\* `state check' or `state restore' clears it.
FlagCleared ==
  /\ flagged
  /\ flagged' = FALSE
  /\ UNCHANGED <<at, gate, gates, flock, running, known, minted, current, audit>>

\* The process ends, by a signal with its operations running or by a crash;
\* the kernel lets its lock go, and the next one checks the store as it starts.
Restart ==
  /\ at' = [c \in Caller |-> "away"] /\ gate' = [c \in Caller |-> 0]
  /\ flock' = IF flock = Timer THEN Timer ELSE Free
  /\ running' = Free /\ known' = {} /\ current' = Free
  /\ flagged' \in {flagged, TRUE}
  /\ UNCHANGED <<gates, minted, audit>>

ApiNext ==
  \/ \E c \in Caller : Acquired(c) \/ FlockTaken(c) \/ LockBusy(c) \/ Operated(c)
  \/ \E r \in Request : Mutate(r)
  \/ \E j \in JobId : Reconcile(j) \/ JobSettles(j)
  \/ TimerTakes \/ TimerEnds \/ FlagCleared \/ Restart

ApiSpec == ApiInit /\ [][ApiNext]_apiVars

---------------------------------------------------------------------------
(* Properties.                                                              *)

ApiTypeOK ==
  /\ at \in [Caller -> Stages] /\ gate \in [Caller -> Nat] /\ gates \in Nat
  /\ flock \in Caller \cup {Timer, Free} /\ flagged \in BOOLEAN
  /\ running \in JobId \cup {Free} /\ current \in JobId \cup {Free}
  /\ known \subseteq minted /\ minted \subseteq JobId
  /\ audit \subseteq [of : JobId, job : JobId \cup {Free}]

\* A gate that is not released belongs to a caller that waits or works, at
\* most one caller is past the mutex, and the one that works is the holder of
\* reconcile.lock: a caller that gave up its wait leaves nothing in the chain
\* to hold the later ones up, and lets none of them in early
\* (serve/lock.ts, AsyncMutex.acquire and withReconcileLock).
MutexDrains ==
  /\ \A c \in Caller : gate[c] # 0 <=> at[c] \in {"mutex", "flock", "op"}
  /\ \A c, d \in Caller : (at[c] \in {"flock", "op"} /\ at[d] \in {"flock", "op"}) => c = d
  /\ \A c \in Caller : at[c] = "op" <=> flock = c

\* The audit line of a reconcile job names that job, although the id is read
\* from a variable the next job's start overwrites
\* (serve/handlers.ts, currentJobId).
AuditNamesItsJob == \A line \in audit : line.job = line.of
=============================================================================
