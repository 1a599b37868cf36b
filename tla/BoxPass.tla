------------------------------ MODULE BoxPass ------------------------------
(* One box in the tick (reconcile_one): what the tick reads of it, the       *)
(* verdicts of the decision table, the markers the store keeps between       *)
(* ticks, and the pages.  A tick is one step and the unit of time: it takes  *)
(* a view of the box, any of them, runs to its end or is killed on the way,  *)
(* and a page it sends may be lost (notify never fails its caller).          *)
EXTENDS Integers, Sequences, FiniteSets

CONSTANTS
  Renotify,     \* INCIDENT_RENOTIFY_SECS, and the day of the digest, in ticks
  AsleepAfter,  \* FLEET_ASLEEP_T_SECS, in ticks
  MaxFaults,    \* killed ticks and lost pages
  Null

\* null is no time, no label and no row of a sleeping box.
ASSUME AlertAssumption ==
  /\ Renotify \in Nat \ {0} /\ AsleepAfter \in Nat /\ MaxFaults \in Nat
  /\ Null \notin Nat /\ Null # "healthy" /\ Null \notin [since : Nat, next : Nat \cup {Null}]

Incidents  == {"both-dead", "cannot-converge", "duplicate"}
Conditions == {"disk-fail", "disk-warn", "wedged", "keepawake", "repair"}
Kinds      == Incidents \cup Conditions \cup {"asleep"}

VARIABLES
  focus,    \* what varies in this behaviour: the box's path, its devices or its report
  brain,    \* the box's alerts rows, counters and markers
  label,    \* the name the last whole tick gave its liveness
  told,     \* per kind, ticks since the last page that arrived, in this spell of it
  owed,     \* per kind, the ticks in a row that have seen it and could have paged
  missed,   \* the kinds whose last page was lost, in this spell
  faults

vars == <<focus, brain, label, told, owed, missed, faults>>
-----------------------------------------------------------------------------
(* What a tick can read.  devs is the device list of the tailnet, the        *)
(* devices that fold to this name; check is one answer of `boxup check' and  *)
(* of the second probe, `boxup status', behind a failed one.                 *)

Unread == <<"unread">>

Reports == [disk : {"ok", "warn", "fail"}, wedge : 0..2, keepawake : BOOLEAN,
            failing : {"none", "repair", "refresh"}]
Quiet   == [disk |-> "ok", wedge |-> 0, keepawake |-> FALSE, failing |-> "none"]

PathViews ==
  {v \in [tunnel : {"up", "down"}, check : {"none", "ok", "read", "unread", "banner"},
          devs : {Unread, <<>>, <<"live">>}, drift : BOOLEAN, report : {Quiet}] :
     /\ v.tunnel = "down" <=> v.check = "none"
     /\ v.tunnel = "up" => v.devs # <<>>
     /\ v.drift => v.check = "ok" /\ v.devs = <<"live">>}

NameViews ==
  {v \in [tunnel : {"up", "down"}, check : {"none", "ok", "banner"}, drift : {FALSE}, report : {Quiet},
          devs : {Unread, <<>>, <<"live">>, <<"live", "gone">>, <<"live", "live">>}] :
     /\ v.tunnel = "down" <=> v.check = "none"
     /\ v.tunnel = "down" => v.devs \in {Unread, <<"live">>}}

\* A report that varies comes from a box that is otherwise well; in between
\* the box may not answer.
ReportViews ==
  {[tunnel |-> "up", check |-> IF r.disk = "fail" THEN "read" ELSE "ok", devs |-> <<"live">>,
    drift |-> FALSE, report |-> r] :
     r \in {r \in Reports : IF focus = "disk" THEN r.wedge = 0 /\ ~r.keepawake
                             ELSE r.disk = "ok" /\ r.failing = "none"}}
  \cup {[tunnel |-> "down", check |-> "none", devs |-> Unread, drift |-> FALSE, report |-> Quiet]}

Views ==
  CASE focus = "path" -> PathViews
    [] focus = "names" -> NameViews
    [] OTHER -> ReportViews

Known(v)     == v.devs # Unread
Live(v)      == "live" \in {v.devs[i] : i \in DOMAIN v.devs}
Duplicate(v) == Known(v) /\ Len(v.devs) >= 2
BothLive(v)  == Duplicate(v) /\ \A i \in DOMAIN v.devs : v.devs[i] = "live"

\* The box printed a status line, and the tick read it.
StatusSeen(v) == v.check \in {"ok", "read"}
CheckFails(v) == v.check \in {"read", "unread", "banner"}
Banner(v)     == v.check = "banner"
-----------------------------------------------------------------------------
(* The decision table. *)

RowAsleep(v) == v.tunnel = "down" /\ Known(v) /\ ~Live(v)
RowE(v)      == v.tunnel = "down" /\ Known(v) /\ Live(v)

Tokens(b, v) ==
  UNION { IF BothLive(v) THEN {"duplicate"} ELSE {},
          IF Duplicate(v) /\ ~BothLive(v) THEN {"delete-then-rename"} ELSE {},
          IF v.tunnel = "up" /\ Known(v) /\ ~Live(v) THEN {"mint"} ELSE {},
          IF v.drift THEN {"rollout"} ELSE {},
          IF RowAsleep(v) THEN {"asleep"} ELSE {},
          IF RowE(v) THEN {"both-dead"} ELSE {},
          IF CheckFails(v) /\ b.checkfail > 3 THEN {"cannot-converge"} ELSE {} }

Label(v) ==
  IF Banner(v) THEN "hostkey_mismatch"
  ELSE IF RowE(v) THEN "incoherent"
  ELSE IF RowAsleep(v) THEN "asleep"
  ELSE IF ~Known(v) THEN "api_unknown"
  ELSE IF v.tunnel = "down" \/ CheckFails(v) THEN "unhealthy"
  ELSE IF v.drift THEN "drifted" ELSE "healthy"
-----------------------------------------------------------------------------
(* The alerts rows.  quiet[k] is what is left of the window a page opened.   *)

Due(b, ks) == {k \in ks : b.quiet[k] = 0}

Sent(b, ks) ==
  [b EXCEPT !.quiet = [k \in Kinds |-> IF k \in Due(b, ks) THEN Renotify ELSE @[k]]]

Cleared(b, ks) == [b EXCEPT !.quiet = [k \in Kinds |-> IF k \in ks THEN 0 ELSE @[k]]]

Down(n)      == IF n = Null \/ n = 0 THEN n ELSE n - 1
UpTo(n, cap) == IF n < cap THEN n + 1 ELSE n

\* The time from one tick to the next passes.
Aged(b) ==
  [b EXCEPT !.quiet = [k \in Kinds |-> Down(@[k])],
            !.asleep = IF @ = Null THEN Null
                       ELSE [since |-> UpTo(@.since, AsleepAfter), next |-> Down(@.next)]]
-----------------------------------------------------------------------------
(* The tick, in the order of the code. *)

\* The check: its count of failures.
Checked(b, v) ==
  CASE CheckFails(v) -> [b EXCEPT !.checkfail = UpTo(@, 4)]
    [] v.check = "ok" -> [b EXCEPT !.checkfail = 0]
    [] OTHER -> b

\* The host-key marker is this tick's observation and nothing else.
Marked(b, v) == [b EXCEPT !.mismatch = Banner(v)]

\* A tick that has an opinion on row e and does not raise it puts its timers back.
Awake(b, v) ==
  IF RowAsleep(v) \/ RowE(v) \/ ~(Known(v) \/ StatusSeen(v)) THEN b
  ELSE [b EXCEPT !.asleep = Null, !.incoherent = 0]

\* What the kind is about could be read in this tick (INCIDENT_OBSERVED_BY).
ObservedBy(k, v) == IF k = "duplicate" THEN Known(v) ELSE StatusSeen(v)

Rearmed(b, v) ==
  Cleared(b, {k \in Incidents : k \notin Tokens(b, v) /\ ObservedBy(k, v)})

\* The streak of the keep-awake's failures, and the highest count of wedges.
Counted(b, r) ==
  [b EXCEPT !.keepawake = IF r.keepawake THEN UpTo(@, 3) ELSE 0, !.wedge = r.wedge]

Active(b, r) ==
  UNION { IF r.disk = "fail" THEN {"disk-fail"} ELSE {},
          IF r.disk = "warn" THEN {"disk-warn"} ELSE {},
          IF b.wedge # Null /\ r.wedge > b.wedge THEN {"wedged"} ELSE {},
          IF Counted(b, r).keepawake >= 3 THEN {"keepawake"} ELSE {},
          IF r.failing # "none" THEN {"repair"} ELSE {} }

\* One fault, one page: a full disk makes the repair fail, not the refresh.
Paging(b, r) ==
  Active(b, r) \ (IF r.disk = "fail" /\ r.failing = "repair" THEN {"repair"} ELSE {})

\* A kind that is not active is cleared; neither the first sight of the wedges
\* nor a short streak is either.
Over(b, r) ==
  Conditions \ (Active(b, r) \cup (IF b.wedge = Null THEN {"wedged"} ELSE {})
                             \cup (IF r.keepawake THEN {"keepawake"} ELSE {}))

JudgedNeverOver(b, v) ==
  IF ~StatusSeen(v) THEN b ELSE Counted(Sent(b, Paging(b, v.report)), v.report)

Judged(b, v) ==
  IF ~StatusSeen(v) THEN b
  ELSE Counted(Sent(Cleared(b, Over(b, v.report)), Paging(b, v.report)), v.report)

JudgedPages(b, v) == IF StatusSeen(v) THEN Due(b, Paging(b, v.report)) ELSE {}

\* The marker repair reads after the loop.
Pending(b, v) ==
  [b EXCEPT !.pending = IF RowE(v) \/ Banner(v) THEN UpTo(@, 2) ELSE 0]

\* alertAsleep: two hours to the first page, then a digest a day.
Timer(b)     == IF b.asleep = Null THEN [since |-> 0, next |-> Null] ELSE b.asleep
AsleepDue(b) == IF Timer(b).next = Null THEN Timer(b).since >= AsleepAfter ELSE Timer(b).next = 0
Slept(b)     == [b EXCEPT !.asleep = [since |-> Timer(b).since,
                                      next |-> IF AsleepDue(b) THEN Renotify ELSE Timer(b).next]]

\* alertIncoherent: the count moves in every tick, the page waits for two.
Bumped(b, v) == IF RowE(v) THEN [b EXCEPT !.incoherent = UpTo(@, 2)] ELSE b

Alerts(b, v) ==
  (Tokens(b, v) \cap Incidents) \ (IF b.incoherent < 2 THEN {"both-dead"} ELSE {})

\* A mint may be held: by the marker, by a key of this window, by a dry run.
Mints(b, v) ==
  IF "mint" \in Tokens(b, v) /\ ~b.mismatch THEN {"held", "ok", "fails"} ELSE {"held"}

Minted(b, v, m) ==
  CASE m = "ok" -> [b EXCEPT !.seedfail = 0]
    [] m = "fails" /\ v.check = "ok" -> [b EXCEPT !.seedfail = UpTo(@, 4)]
    [] OTHER -> b

SeedPages(b, v, m) ==
  IF m = "fails" /\ v.check = "ok" /\ b.seedfail >= 3 THEN {"seedfail"} ELSE {}

Acted(b, v, m) ==
  LET s == IF RowAsleep(v) THEN Slept(b) ELSE b
  IN  Minted(Sent(s, Alerts(s, v)), v, m)

ActedPages(b, v, m) ==
  Due(b, Alerts(b, v)) \cup (IF RowAsleep(v) /\ AsleepDue(b) THEN {"asleep"} ELSE {})
                       \cup SeedPages(b, v, m)
-----------------------------------------------------------------------------
(* What the pages are measured against. *)

\* The tick saw that the kind is over.  A path that came back counts once the
\* box's status is read, as it does for the code (INCIDENT_OBSERVED_BY).
Gone(b, v) ==
  UNION { IF Known(v) /\ ~BothLive(v) THEN {"duplicate"} ELSE {},
          IF StatusSeen(v) THEN {"both-dead"} \cup Over(b, v.report) ELSE {},
          IF v.check = "ok" THEN {"cannot-converge"} ELSE {},
          IF v.tunnel = "up" /\ (Known(v) \/ StatusSeen(v)) THEN {"asleep"} ELSE {} }

\* The tick saw the kind.
Present(b, v) ==
  UNION { IF RowAsleep(v) THEN {"asleep"} ELSE {},
          IF RowE(v) THEN {"both-dead"} ELSE {},
          IF CheckFails(v) THEN {"cannot-converge"} ELSE {},
          IF BothLive(v) THEN {"duplicate"} ELSE {},
          IF StatusSeen(v) /\ v.report.keepawake THEN {"keepawake"} ELSE {},
          IF StatusSeen(v) THEN Paging(b, v.report) \ {"keepawake"} ELSE {} }

\* The ticks it takes to be told of a kind.
Need ==
  [k \in Kinds |-> CASE k = "asleep" -> AsleepAfter + 1 [] k = "both-dead" -> 2
                     [] k = "cannot-converge" -> 4      [] k = "keepawake" -> 3 [] OTHER -> 1]
-----------------------------------------------------------------------------
Quiescent ==
  /\ brain = [quiet |-> [k \in Kinds |-> 0], asleep |-> Null, incoherent |-> 0, checkfail |-> 0,
              seedfail |-> 0, keepawake |-> 0, wedge |-> Null, pending |-> 0, mismatch |-> FALSE]
  /\ label = Null /\ missed = {} /\ faults = 0
  /\ told = [k \in Kinds |-> Null] /\ owed = [k \in Kinds |-> 0]

Init == focus \in {"path", "names", "disk", "counts"} /\ Quiescent

\* The books, after a tick that sent `out' and whose page `lost' did not arrive.
Account(v, seen, out, lost, could) ==
  LET gone == IF seen THEN Gone(brain, v) ELSE {}
      here == IF seen THEN Present(brain, v) \cap could ELSE {}
  IN  /\ told' = [k \in Kinds |-> IF k \in out \ lost THEN 0
                                  ELSE IF k \in gone \/ told[k] = Null THEN Null
                                  ELSE UpTo(told[k], Renotify)]
      /\ owed' = [k \in Kinds |-> IF k \in here THEN UpTo(owed[k], Need[k]) ELSE 0]
      /\ missed' = (missed \ (gone \cup out)) \cup lost

Tick ==
  \E v \in Views :
    LET b1 == Rearmed(Awake(Marked(Checked(Aged(brain), v), v), v), v)
        b2 == Bumped(Pending(Judged(b1, v), v), v)
    IN  \E m \in Mints(b2, v) :
          LET out == JudgedPages(b1, v) \cup ActedPages(b2, v, m)
          IN  \E lost \in {{}} \cup {{k} : k \in out \cap Kinds} :
                /\ faults + Cardinality(lost) <= MaxFaults
                /\ faults' = faults + Cardinality(lost)
                /\ brain' = Acted(b2, v, m)
                /\ label' = Label(v)
                /\ Account(v, TRUE, out, lost, Kinds)
                /\ UNCHANGED focus

\* The tick dies while it reads the box: the check's count has moved.
DiesReading ==
  /\ faults < MaxFaults /\ faults' = faults + 1
  /\ \E v \in Views :
       /\ brain' = Checked(Aged(brain), v)
       /\ Account(v, FALSE, {}, {}, {})
  /\ label' = Null /\ UNCHANGED focus

\* It dies behind the conditions, before the markers and the actions.
DiesJudging ==
  /\ faults < MaxFaults /\ faults' = faults + 1
  /\ \E v \in Views :
       LET b1 == Rearmed(Awake(Marked(Checked(Aged(brain), v), v), v), v)
       IN  /\ brain' = Judged(b1, v)
           /\ Account(v, TRUE, JudgedPages(b1, v), {}, Conditions)
  /\ label' = Null /\ UNCHANGED focus

Next == Tick \/ DiesReading \/ DiesJudging
Spec == Init /\ [][Next]_vars
-----------------------------------------------------------------------------
\* Nothing is silenced: what enough ticks in a row have seen has been told of
\* within the window, in the spell it is in, whatever window an earlier spell,
\* another kind or a killed tick opened.  A page that is lost is lost for a window.
NothingSilenced ==
  \A k \in Kinds :
    owed[k] >= Need[k] /\ k \notin missed => told[k] # Null /\ told[k] < Renotify

\* A row that says healthy stands on clean markers: nothing of an earlier
\* outage is left to grey the box, to defer a write or to shorten the next
\* outage's wait.  (The count of failed mints is, and is not among them.)
HealthyIsClean ==
  label = "healthy" =>
    /\ brain.asleep = Null /\ brain.incoherent = 0 /\ brain.checkfail = 0
    /\ brain.pending = 0 /\ ~brain.mismatch
    /\ \A k \in {"both-dead", "cannot-converge"} : brain.quiet[k] = 0

\* What is wrong with the box is told, and what is over leaves nothing behind.
AlertsTrue == NothingSilenced /\ HealthyIsClean
=============================================================================
