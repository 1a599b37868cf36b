----------------------------- MODULE JobRestart -----------------------------
(***************************************************************************)
(* When the box's guard restarts a keep-alive job (boxup, jobs_restart_one *)
(* and refresh_backoff_window): the backoff ladder, the restart counter in *)
(* /run and the crashloop cutoff.  The two times of the counter's file are *)
(* kept as ages in seconds, which stop at the widest window the code       *)
(* compares them with.                                                     *)
(***************************************************************************)
EXTENDS Integers

CONSTANTS
  MIN_INTERVAL,  \* the ladder's first window, an operator's setting
  Steps,         \* the seconds that may pass between two events
  Ops            \* what an instance lets happen besides: "swap", "stop"

ASSUME RestartAssumption ==
  /\ MIN_INTERVAL \in Nat /\ Steps \subseteq Nat \ {0}
  /\ Ops \subseteq {"swap", "stop"}

CRASHLOOP_N == 5
CRASHLOOP_WINDOW == 600
Ages == 0..CRASHLOOP_WINDOW

VARIABLES
  up,      \* the wrapper is live
  rc,      \* "none" until the record is terminal
  n,       \* restarts counted, 0 when there is no counter file
  first,   \* age of the first of them
  last     \* age of the last of them

restartVars == <<up, rc, n, first, last>>
-----------------------------------------------------------------------------
\* Mutant: restart with no backoff.
FlatWindow(k) == MIN_INTERVAL

\* refresh_backoff_window
Window(k) ==
  CASE k <= 0 -> MIN_INTERVAL
    [] k = 1 -> 60
    [] k = 2 -> 180
    [] OTHER -> 600

Older(age, d) == IF age + d < CRASHLOOP_WINDOW THEN age + d ELSE CRASHLOOP_WINDOW

RestartInit == up = TRUE /\ rc = "none" /\ n = 0 /\ first = 0 /\ last = 0

TimePasses ==
  /\ \E d \in Steps : first' = Older(first, d) /\ last' = Older(last, d)
  /\ UNCHANGED <<up, rc, n>>

ServiceDies ==
  /\ up
  /\ up' = FALSE
  /\ UNCHANGED <<rc, n, first, last>>

Supervised == ~up /\ rc = "none"

\* The count starts again when its first restart has left the window.
NewCount == n = 0 \/ first >= CRASHLOOP_WINDOW

\* N restarts inside the window: the guard gives up.
Crashloop == n >= CRASHLOOP_N /\ first < CRASHLOOP_WINDOW

GiveUp == rc' = "crashloop" /\ UNCHANGED <<up, n, first, last>>

\* Once the backoff has passed, the restart is counted and the wrapper launched.
Count ==
  /\ n > 0 => last >= Window(n)
  /\ up' = TRUE
  /\ n' = IF NewCount THEN 1 ELSE n + 1
  /\ first' = IF NewCount THEN 0 ELSE first
  /\ last' = 0
  /\ UNCHANGED rc

Restart == Supervised /\ IF Crashloop THEN GiveUp ELSE Count

\* A swap takes the counter with it; its restart is not one of a crashloop.
SwapClears ==
  /\ "swap" \in Ops
  /\ up' = FALSE /\ n' = 0 /\ first' = 0 /\ last' = 0
  /\ UNCHANGED rc

StopClears ==
  /\ "stop" \in Ops /\ rc = "none"
  /\ up' = FALSE /\ rc' = "143" /\ n' = 0 /\ first' = 0 /\ last' = 0

RestartNext == TimePasses \/ ServiceDies \/ Restart \/ SwapClears \/ StopClears

RestartSpec == RestartInit /\ [][RestartNext]_restartVars

\* The worker ticks for ever, and the service dies every time.
HopelessSpec ==
  /\ RestartSpec
  /\ WF_restartVars(TimePasses) /\ WF_restartVars(ServiceDies) /\ SF_restartVars(Restart)
-----------------------------------------------------------------------------
\* Every variable keeps its type and no count is older than its first restart.
RestartTypeOK ==
  /\ up \in BOOLEAN /\ rc \in {"none", "143", "crashloop"}
  /\ n \in Nat /\ first \in Ages /\ last \in Ages
  /\ last <= first

\* The ladder is steeper than the cutoff: the fourth restart waits 600 s after the
\* third, by when the first has left the window.  The count never passes three.
CutoffUnreached == n <= 3 /\ rc # "crashloop"

\* What the README says: five restarts inside ten minutes and the guard gives up.
HopelessServiceGivenUp == <>(rc = "crashloop")
=============================================================================
