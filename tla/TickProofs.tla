----------------------------- MODULE TickProofs -----------------------------
(***************************************************************************)
(* The two halves of a tick.  For any number of boxes, releases and mishaps: *)
(* one pass of the upgrade engine breaks one box at most, and never another  *)
(* box than the canary with a release that breaks the canary.  For any       *)
(* window, wait and number of killed ticks and lost pages: what is wrong     *)
(* with a box is told, and what is over leaves nothing behind.               *)
(***************************************************************************)
EXTENDS BoxPass, FleetPasses, FiniteSetTheorems, WellFoundedInduction, TLAPS

(* The passes over the fleet. *)

\* A pass takes a box of its queue (orderForApply loses none and adds none).
LEMMA FirstIsQueued ==
  ASSUME NEW queue \in SUBSET Boxes, queue # {}, NEW guard
  PROVE  First(queue, guard) \in queue
<1>1. CASE guard \in queue
  BY <1>1 DEF First
<1>2. CASE guard \notin queue
  <2>1. queue \subseteq Nat
    BY PassAssumption DEF Boxes
  <2>2. PICK b \in queue : \A c \in queue : <<c, b>> \notin OpToRel(<, Nat)
    BY <2>1, NatLessThanWellFounded, WFMin
  <2>3. \A c \in queue : b <= c
    <3> SUFFICES ASSUME NEW c \in queue, c < b PROVE FALSE
      BY <2>1
    <3>1. <<c, b>> \in OpToRel(<, Nat)
      BY <2>1 DEF OpToRel
    <3> QED
      BY <2>2, <3>1
  <2> QED
    BY <1>2, <2>3, Zenon DEF First
<1> QED
  BY <1>1, <1>2

-----------------------------------------------------------------------------
Passes ==
  [tgt : Nat, queue : SUBSET Boxes, guard : Boxes \cup {0}, broke : SUBSET Boxes, cli : BOOLEAN]
Ticks == [up : SUBSET Boxes, leased : SUBSET Boxes, drifted : SUBSET Boxes]

PassTyped ==
  /\ nature.fixed \in Boxes \cup {0}
  /\ target \in Nat /\ tick \in Ticks /\ pass \in Passes

\* A box that breaks ends the pass; outside a deploy no pass has broken any.
BreakEndsPass ==
  /\ pc = "deploy" \/ pass.broke = {}
  /\ pass.broke = {} \/ pass.queue = {}
  /\ \E b \in Boxes : pass.broke \subseteq {b}

\* A release that breaks the canary waits behind it for every other box.
CanaryInFront ==
  pc = "deploy" /\ pass.guard = Canary /\ Broken(pass.tgt, Canary)
    => /\ pass.broke \subseteq {Canary}
       /\ pass.queue = {} \/ Canary \in pass.queue

PassInv == PassTyped /\ BreakEndsPass /\ CanaryInFront

LEMMA PassInitially == PassInit => PassInv
<1> SUFFICES ASSUME PassInit PROVE PassInv
  OBVIOUS
<1>1. nature \in Natures /\ AtRest(0)
  BY DEF PassInit
<1>2. nature.fixed \in Fixed
  BY <1>1 DEF Natures
<1>3. PassTyped
  BY <1>1, <1>2, PassAssumption DEF AtRest, PassTyped, Idle, NoPass, Passes, Ticks
<1> QED
  BY <1>1, <1>3, PassAssumption DEF AtRest, NoPass, PassInv, BreakEndsPass, CanaryInFront

\* What the engine plans breaks nothing yet, and has the canary in front.
LEMMA EnginePlans ==
  ASSUME PassTyped, NEW bs \in SUBSET Boxes, NEW cli \in BOOLEAN, Engine(bs, cli)
  PROVE  /\ pass' \in Passes /\ pass'.broke = {}
         /\ pass'.guard = Canary => (pass'.queue = {} \/ Canary \in pass'.queue)
<1> DEFINE todo(down) == {b \in bs \ down : ~(Readable(b) /\ boxv[b] = target)}
<1>1. PICK down \in SUBSET bs :
        pass' = [tgt |-> target, cli |-> cli, broke |-> {},
                 guard |-> IF Canary \in todo(down) THEN Canary ELSE 0,
                 queue |-> IF Canary \in down THEN {} ELSE todo(down)]
  BY Zenon DEF Engine
<1>2. todo(down) \in SUBSET Boxes
  OBVIOUS
<1> HIDE DEF todo
<1> QED
  BY <1>1, <1>2, PassAssumption DEF PassTyped, Passes, Boxes

\* One box breaks, and then the pass is over.
LEMMA DeployBreaksOne ==
  ASSUME PassInv, Deploy
  PROVE  pass' \in Passes /\ BreakEndsPass' /\ CanaryInFront'
<1> DEFINE b == First(pass.queue, pass.guard)
           breaks == IF Broken(pass.tgt, b) THEN pass.broke \cup {b} ELSE pass.broke
<1>1. pc = "deploy" /\ pc' = pc /\ nature' = nature /\ pass.queue # {} /\ pass \in Passes
  BY DEF Deploy, PassInv, PassTyped
<1>2. b \in pass.queue /\ b \in Boxes /\ pass.broke = {}
  <2>1. pass.queue \in SUBSET Boxes
    BY <1>1 DEF Passes
  <2> QED
    BY <1>1, <2>1, FirstIsQueued DEF PassInv, BreakEndsPass
<1>3. \/ pass' = [pass EXCEPT !.queue = Rest(b, ~Broken(pass.tgt, b)), !.broke = breaks]
      \/ pass' = [pass EXCEPT !.queue = Rest(b, FALSE)]
      \/ pass' = [pass EXCEPT !.queue = Rest(b, FALSE), !.broke = breaks]
  BY Zenon DEF Deploy
<1>4. pass.guard = Canary /\ Broken(pass.tgt, Canary) => b = Canary
  BY <1>1 DEF PassInv, CanaryInFront, First
<1> HIDE DEF b
<1>5. /\ pass' \in Passes /\ pass'.tgt = pass.tgt /\ pass'.guard = pass.guard
      /\ pass'.broke \subseteq {b}
      /\ pass'.broke # {} => pass'.queue = {}
      /\ pass.guard = Canary /\ Broken(pass.tgt, Canary) => pass'.queue = {}
  <2>1. breaks \in SUBSET Boxes /\ breaks \subseteq {b}
    BY <1>2
  <2>2. breaks = {} \/ Broken(pass.tgt, b)
    BY <1>2
  <2> HIDE DEF breaks
  <2>3. CASE pass' = [pass EXCEPT !.queue = Rest(b, ~Broken(pass.tgt, b)), !.broke = breaks]
    BY <1>1, <1>2, <1>4, <2>1, <2>2, <2>3 DEF Passes, Rest
  <2>4. CASE pass' = [pass EXCEPT !.queue = Rest(b, FALSE)]
    BY <1>1, <1>2, <2>4 DEF Passes, Rest
  <2>5. CASE pass' = [pass EXCEPT !.queue = Rest(b, FALSE), !.broke = breaks]
    BY <1>1, <1>2, <2>1, <2>5 DEF Passes, Rest
  <2> QED
    BY <1>3, <2>3, <2>4, <2>5
<1> QED
  BY <1>1, <1>2, <1>4, <1>5 DEF BreakEndsPass, CanaryInFront, Broken

LEMMA PassInductive == PassInv /\ [PassNext]_pvars => PassInv'<1> SUFFICES ASSUME PassInv, [PassNext]_pvars PROVE PassInv'
  OBVIOUS
<1>1. /\ nature' = nature
      /\ target' \in Nat
  <2>1. target' = target \/ target' = target + 1
    BY Zenon DEF PassNext, Brain, TickStart, NoRollout, EngineStart, Deploy, Deployed, ConfigStart, Push, TickEnds,
                 Land, Upgrade, Release, Edit, TickDies, pvars
  <2>2. nature' = nature
    BY Zenon DEF PassNext, Brain, TickStart, NoRollout, EngineStart, Deploy, Deployed, ConfigStart, Push, TickEnds,
                 Land, Upgrade, Release, Edit, TickDies, pvars
  <2> QED
    BY <2>1, <2>2 DEF PassInv, PassTyped
<1>2. tick' \in Ticks
  <2>1. \/ tick' = tick \/ tick' = Idle
        \/ \E up, leased \in SUBSET Boxes :
             tick' = [up |-> up, leased |-> leased,
                      drifted |-> {b \in up \ leased : Readable(b) /\ boxv[b] # target}]
    BY Zenon DEF PassNext, Brain, TickStart, NoRollout, EngineStart, Deploy, Deployed, ConfigStart, Push, TickEnds,
                 Land, Upgrade, Release, Edit, TickDies, pvars
  <2> QED
    BY <2>1 DEF Idle, Ticks, PassInv, PassTyped
\* Every step but those of a deploy leaves no broken box in its pass, or the pass alone.
<1>3. /\ pass' \in Passes /\ BreakEndsPass' /\ CanaryInFront'
  <2>1. CASE pass' = NoPass
    <3>1. NoPass \in Passes
      BY DEF NoPass, Passes
    <3> QED
      BY <2>1, <3>1, PassAssumption DEF NoPass, BreakEndsPass, CanaryInFront, Boxes
  <2>2. CASE pass' = pass /\ pc' = pc
    BY <1>1, <2>2 DEF PassInv, PassTyped, BreakEndsPass, CanaryInFront, Broken
  <2>3. CASE NoRollout
    BY <2>3 DEF NoRollout, PassInv, PassTyped, BreakEndsPass, CanaryInFront
  <2>4. CASE EngineStart \/ Upgrade
    <3>1. /\ pass' \in Passes /\ pass'.broke = {}
          /\ pass'.guard = Canary => (pass'.queue = {} \/ Canary \in pass'.queue)
      <4>1. tick.drifted \in SUBSET Boxes
        BY DEF PassInv, PassTyped, Ticks
      <4>2. CASE Engine(tick.drifted, FALSE)
        BY <4>1, <4>2, EnginePlans DEF PassInv
      <4>3. CASE Engine(Boxes, TRUE)
        BY <4>3, EnginePlans DEF PassInv
      <4> QED
        BY <2>4, <4>2, <4>3 DEF EngineStart, Upgrade
    <3> QED
      BY <3>1, PassAssumption DEF BreakEndsPass, CanaryInFront
  <2>5. CASE Deploy
    BY <2>5, DeployBreaksOne
  <2>6. CASE ConfigStart
    <3>1. ToPush \in SUBSET Boxes
      BY DEF ToPush
    <3>2. ConfigCanary \in Boxes \cup {0}
      <4> DEFINE free == tick.up \ tick.leased
      <4>1. free \in SUBSET Boxes
        BY DEF PassInv, PassTyped, Ticks
      <4>2. CASE nature.fixed = 0 /\ free # {}
        <5>1. First(free, 0) \in free
          BY <4>1, <4>2, FirstIsQueued
        <5>2. 0 \notin free
          BY <4>1, PassAssumption DEF Boxes
        <5>3. ConfigCanary = First(free, 0)
          BY <4>2, <5>2 DEF ConfigCanary, First
        <5> QED
          BY <4>1, <5>1, <5>3
      <4>3. CASE nature.fixed # 0 \/ free = {}
        BY <4>3 DEF ConfigCanary, PassInv, PassTyped
      <4> QED
        BY <4>2, <4>3
    <3>3. pass' = [NoPass EXCEPT !.queue = ToPush, !.guard = ConfigCanary]
      BY <2>6 DEF ConfigStart
    <3>4. pass' \in Passes /\ pass'.broke = {}
      BY <3>1, <3>2, <3>3 DEF NoPass, Passes
    <3> QED
      BY <2>6, <3>4, PassAssumption DEF ConfigStart, BreakEndsPass, CanaryInFront
  <2>7. CASE Push
    <3>1. PICK q \in {{}, pass.queue \ {First(pass.queue, pass.guard)}} : pass' = [pass EXCEPT !.queue = q]
      BY <2>7, Zenon DEF Push
    <3>2. pc = "push" /\ pc' = "push" /\ pass \in Passes /\ pass.broke = {}
      BY <2>7 DEF Push, PassInv, PassTyped, BreakEndsPass
    <3>3. pass' \in Passes /\ pass'.broke = {}
      BY <3>1, <3>2 DEF Passes
    <3> QED
      BY <3>2, <3>3, PassAssumption DEF BreakEndsPass, CanaryInFront
  <2> QED
    BY <2>1, <2>2, <2>3, <2>4, <2>5, <2>6, <2>7, Zenon
       DEF PassNext, Brain, TickStart, Deployed, TickEnds, Land, Release, Edit, TickDies, pvars
<1> QED
  BY <1>1, <1>2, <1>3 DEF PassInv, PassTyped

LEMMA PassAlways == PassSpec => []PassInv
<1>1. PassInit => PassInv
  BY PassInitially
<1>2. PassInv /\ [PassNext]_pvars => PassInv'
  BY PassInductive
<1> QED
  BY <1>1, <1>2, PTL DEF PassSpec

\* One pass of the upgrade engine breaks one box at most, and a release that
\* breaks the canary breaks no other in a pass that has the canary to upgrade
\* (runUpgradePass stops at the first failure, orderForApply puts it first).
THEOREM OnePassBreaksOne == PassSpec => []OnePassOneBreak
<1>1. PassInv => OnePassOneBreak
  <2> SUFFICES ASSUME PassInv PROVE OnePassOneBreak
    OBVIOUS
  <2>1. PICK b \in Boxes : pass.broke \subseteq {b}
    BY DEF PassInv, BreakEndsPass
  <2>2. pass.broke = {} \/ pass.broke = {b}
    BY <2>1
  <2>3. Cardinality({}) = 0 /\ Cardinality({b}) = 1
    BY FS_EmptySet, FS_Singleton, Zenon
  <2>4. Cardinality(pass.broke) <= 1
    BY <2>2, <2>3
  <2> QED
    BY <2>4 DEF PassInv, CanaryInFront, OnePassOneBreak
<1> QED
  BY <1>1, PassAlways, PTL

-----------------------------------------------------------------------------
(* The pages of one box. *)

Sleeps == [since : Nat, next : Nat \cup {Null}]
Brains ==
  [quiet : [Kinds -> Nat], asleep : {Null} \cup Sleeps, incoherent : Nat, checkfail : Nat, seedfail : Nat,
   keepawake : Nat, wedge : Nat \cup {Null}, pending : Nat, mismatch : BOOLEAN]

\* What every view has: a box that cannot be reached was not checked.
ViewShape(v) ==
  /\ v.tunnel \in {"up", "down"} /\ v.check \in {"none", "ok", "read", "unread", "banner"}
  /\ v.tunnel = "down" <=> v.check = "none"
  /\ v.report \in Reports

LEMMA ViewsHaveShape == \A v \in Views : ViewShape(v)
<1>1. Quiet \in Reports
  BY DEF Quiet, Reports
<1>2. \A v \in PathViews : ViewShape(v)
  BY <1>1 DEF PathViews, ViewShape
<1>3. \A v \in NameViews : ViewShape(v)
  BY <1>1 DEF NameViews, ViewShape
<1>4. \A v \in ReportViews : ViewShape(v)
  BY <1>1 DEF ReportViews, ViewShape
<1> QED
  BY <1>2, <1>3, <1>4 DEF Views

LEMMA Counting ==
  /\ \A n, cap \in Nat : UpTo(n, cap) \in Nat
  /\ \A n \in Nat : Down(n) \in Nat
  /\ \A n \in Nat \cup {Null} : Down(n) \in Nat \cup {Null} /\ (Down(n) = Null <=> n = Null)
BY AlertAssumption DEF UpTo, Down

AwakeCond(v) == ~(RowAsleep(v) \/ RowE(v) \/ ~(Known(v) \/ StatusSeen(v)))
OlderSleep(b) ==
  IF b.asleep = Null THEN Null
  ELSE [since |-> UpTo(b.asleep.since, AsleepAfter), next |-> Down(b.asleep.next)]
NowFailing(b, v) ==
  IF CheckFails(v) THEN UpTo(b.checkfail, 4) ELSE IF v.check = "ok" THEN 0 ELSE b.checkfail

LEMMA AgedFields ==
  ASSUME NEW b \in Brains
  PROVE  /\ Aged(b) \in Brains
         /\ \A k \in Kinds : Aged(b).quiet[k] = Down(b.quiet[k])
         /\ Aged(b).asleep = OlderSleep(b)
         /\ Aged(b).incoherent = b.incoherent /\ Aged(b).checkfail = b.checkfail
         /\ Aged(b).keepawake = b.keepawake /\ Aged(b).wedge = b.wedge
<1>1. OlderSleep(b) \in {Null} \cup Sleeps
  <2>1. CASE b.asleep # Null
    <3>1. b.asleep.since \in Nat /\ b.asleep.next \in Nat \cup {Null}
      BY <2>1 DEF Brains, Sleeps
    <3>2. UpTo(b.asleep.since, AsleepAfter) \in Nat /\ Down(b.asleep.next) \in Nat \cup {Null}
      BY <3>1, Counting, AlertAssumption
    <3> QED
      BY <2>1, <3>2 DEF OlderSleep, Sleeps
  <2> QED
    BY <2>1 DEF OlderSleep
<1>2. [k \in Kinds |-> Down(b.quiet[k])] \in [Kinds -> Nat]
  BY Counting DEF Brains
<1>3. Aged(b) = [b EXCEPT !.quiet = [k \in Kinds |-> Down(b.quiet[k])], !.asleep = OlderSleep(b)]
  BY Zenon DEF Aged, OlderSleep
<1> DEFINE q == [k \in Kinds |-> Down(b.quiet[k])]
           n == Aged(b)
<1>4. n = [b EXCEPT !.quiet = q, !.asleep = OlderSleep(b)] /\ \A k \in Kinds : q[k] = Down(b.quiet[k])
  BY <1>3
<1>5. q \in [Kinds -> Nat]
  BY <1>2
<1> HIDE DEF q, n
<1>6. /\ n \in Brains /\ n.quiet = q /\ n.asleep = OlderSleep(b) /\ n.incoherent = b.incoherent
      /\ n.checkfail = b.checkfail /\ n.keepawake = b.keepawake /\ n.wedge = b.wedge
  BY <1>1, <1>4, <1>5 DEF Brains
<1> QED
  BY <1>4, <1>6 DEF n

LEMMA CheckedFields ==
  ASSUME NEW b \in Brains, NEW v
  PROVE  /\ Checked(b, v) \in Brains
         /\ Checked(b, v).checkfail = NowFailing(b, v)
         /\ Checked(b, v).quiet = b.quiet /\ Checked(b, v).asleep = b.asleep
         /\ Checked(b, v).incoherent = b.incoherent
         /\ Checked(b, v).keepawake = b.keepawake /\ Checked(b, v).wedge = b.wedge
<1>1. NowFailing(b, v) \in Nat
  BY Counting DEF Brains, NowFailing
<1>2. Checked(b, v) = [b EXCEPT !.checkfail = NowFailing(b, v)]
  <2>1. CASE CheckFails(v)
    BY <2>1 DEF Checked, NowFailing, CheckFails
  <2>2. CASE ~CheckFails(v) /\ v.check = "ok"
    BY <2>2 DEF Checked, NowFailing
  <2>3. CASE ~CheckFails(v) /\ v.check # "ok"
    <3>1. Checked(b, v) = b /\ NowFailing(b, v) = b.checkfail
      BY <2>3 DEF Checked, NowFailing
    <3> QED
      BY <3>1 DEF Brains
  <2> QED
    BY <2>1, <2>2, <2>3
<1> QED
  BY <1>1, <1>2 DEF Brains

\* What the tick has read before it judges: brain2 is the brain behind Rearmed.
Reading(b, v) == Rearmed(Awake(Marked(Checked(Aged(b), v), v), v), v)

LEMMA AwakeFields ==
  ASSUME NEW b \in Brains, NEW v
  PROVE  /\ Awake(Marked(b, v), v) \in Brains
         /\ Awake(Marked(b, v), v).asleep = IF AwakeCond(v) THEN Null ELSE b.asleep
         /\ Awake(Marked(b, v), v).incoherent = IF AwakeCond(v) THEN 0 ELSE b.incoherent
         /\ Awake(Marked(b, v), v).mismatch = Banner(v)
         /\ Awake(Marked(b, v), v).quiet = b.quiet
         /\ Awake(Marked(b, v), v).checkfail = b.checkfail
         /\ Awake(Marked(b, v), v).keepawake = b.keepawake /\ Awake(Marked(b, v), v).wedge = b.wedge
<1> DEFINE n == Awake(Marked(b, v), v)
<1>1. Marked(b, v) = [b EXCEPT !.mismatch = Banner(v)] /\ Banner(v) \in BOOLEAN
  BY DEF Marked, Banner
<1>2. CASE AwakeCond(v)
  <2>1. n = [b EXCEPT !.mismatch = Banner(v), !.asleep = Null, !.incoherent = 0]
    BY <1>1, <1>2 DEF Awake, AwakeCond
  <2> HIDE DEF n
  <2>2. /\ n \in Brains /\ n.asleep = Null /\ n.incoherent = 0 /\ n.mismatch = Banner(v)
        /\ n.quiet = b.quiet /\ n.checkfail = b.checkfail /\ n.keepawake = b.keepawake /\ n.wedge = b.wedge
    BY <1>1, <2>1 DEF Brains
  <2> QED
    BY <1>2, <2>2 DEF n
<1>3. CASE ~AwakeCond(v)
  <2>1. Awake(Marked(b, v), v) = [b EXCEPT !.mismatch = Banner(v)]
    BY <1>1, <1>3 DEF Awake, AwakeCond
  <2> QED
    BY <1>1, <1>3, <2>1 DEF Brains
<1> QED
  BY <1>2, <1>3

LEMMA ClearedFields ==
  ASSUME NEW b \in Brains, NEW ks
  PROVE  /\ Cleared(b, ks) \in Brains
         /\ \A k \in Kinds : Cleared(b, ks).quiet[k] = IF k \in ks THEN 0 ELSE b.quiet[k]
         /\ Cleared(b, ks).asleep = b.asleep /\ Cleared(b, ks).incoherent = b.incoherent
         /\ Cleared(b, ks).checkfail = b.checkfail /\ Cleared(b, ks).mismatch = b.mismatch
         /\ Cleared(b, ks).keepawake = b.keepawake /\ Cleared(b, ks).wedge = b.wedge
         /\ Cleared(b, ks).pending = b.pending
<1> DEFINE q == [k \in Kinds |-> IF k \in ks THEN 0 ELSE b.quiet[k]]
<1>1. q \in [Kinds -> Nat]
  BY DEF Brains
<1>2. Cleared(b, ks) = [b EXCEPT !.quiet = q]
  BY DEF Cleared, Brains
<1> QED
  BY <1>1, <1>2 DEF Brains

LEMMA SentFields ==
  ASSUME NEW b \in Brains, NEW ks
  PROVE  /\ Sent(b, ks) \in Brains
         /\ \A k \in Kinds : Sent(b, ks).quiet[k] = IF k \in Due(b, ks) THEN Renotify ELSE b.quiet[k]
         /\ Sent(b, ks).asleep = b.asleep /\ Sent(b, ks).incoherent = b.incoherent
         /\ Sent(b, ks).checkfail = b.checkfail /\ Sent(b, ks).mismatch = b.mismatch
         /\ Sent(b, ks).keepawake = b.keepawake /\ Sent(b, ks).wedge = b.wedge
         /\ Sent(b, ks).pending = b.pending
<1> DEFINE q == [k \in Kinds |-> IF k \in Due(b, ks) THEN Renotify ELSE b.quiet[k]]
<1>1. q \in [Kinds -> Nat]
  BY AlertAssumption DEF Brains
<1>2. Sent(b, ks) = [b EXCEPT !.quiet = q]
  BY DEF Sent, Brains
<1> QED
  BY <1>1, <1>2 DEF Brains

LEMMA ReadingFields ==
  ASSUME NEW b \in Brains, NEW v
  PROVE  LET n == Reading(b, v)
         IN  /\ n \in Brains
             /\ \A k \in Kinds : n.quiet[k] = IF k \in Incidents /\ k \notin Tokens(n, v) /\ ObservedBy(k, v)
                                               THEN 0 ELSE Down(b.quiet[k])
             /\ n.asleep = IF AwakeCond(v) THEN Null ELSE OlderSleep(b)
             /\ n.incoherent = IF AwakeCond(v) THEN 0 ELSE b.incoherent
             /\ n.checkfail = NowFailing(b, v) /\ n.mismatch = Banner(v)
             /\ n.keepawake = b.keepawake /\ n.wedge = b.wedge
<1> DEFINE a == Aged(b)
           c == Checked(a, v)
           w == Awake(Marked(c, v), v)
           ks == {k \in Incidents : k \notin Tokens(w, v) /\ ObservedBy(k, v)}
           n == Cleared(w, ks)
<1>1. /\ a \in Brains /\ a.asleep = OlderSleep(b) /\ a.incoherent = b.incoherent /\ a.checkfail = b.checkfail
      /\ a.keepawake = b.keepawake /\ a.wedge = b.wedge
      /\ \A k \in Kinds : a.quiet[k] = Down(b.quiet[k])
  BY AgedFields
<1> HIDE DEF a
<1>2. /\ c \in Brains /\ c.checkfail = NowFailing(b, v) /\ c.quiet = a.quiet /\ c.asleep = a.asleep
      /\ c.incoherent = a.incoherent /\ c.keepawake = a.keepawake /\ c.wedge = a.wedge
  <2>1. NowFailing(a, v) = NowFailing(b, v)
    BY <1>1 DEF NowFailing
  <2> QED
    BY <1>1, <2>1, CheckedFields
<1> HIDE DEF c
<1>3. /\ w \in Brains /\ w.asleep = (IF AwakeCond(v) THEN Null ELSE c.asleep)
      /\ w.incoherent = (IF AwakeCond(v) THEN 0 ELSE c.incoherent) /\ w.mismatch = Banner(v)
      /\ w.quiet = c.quiet /\ w.checkfail = c.checkfail /\ w.keepawake = c.keepawake /\ w.wedge = c.wedge
  BY <1>2, AwakeFields
<1>4. n = Reading(b, v)
  BY DEF Reading, Rearmed, a, c
<1> HIDE DEF w, ks
<1>5. /\ n \in Brains /\ \A k \in Kinds : n.quiet[k] = IF k \in ks THEN 0 ELSE w.quiet[k]
      /\ n.asleep = w.asleep /\ n.incoherent = w.incoherent /\ n.checkfail = w.checkfail
      /\ n.mismatch = w.mismatch /\ n.keepawake = w.keepawake /\ n.wedge = w.wedge
  BY <1>3, ClearedFields
<1> HIDE DEF n
<1>6. ks = {k \in Incidents : k \notin Tokens(n, v) /\ ObservedBy(k, v)}
  BY <1>5 DEF ks, Tokens
<1>7. \A k \in Kinds : n.quiet[k] = IF k \in Incidents /\ k \notin Tokens(n, v) /\ ObservedBy(k, v)
                                      THEN 0 ELSE Down(b.quiet[k])
  BY <1>1, <1>2, <1>3, <1>5, <1>6
<1> QED
  BY <1>1, <1>2, <1>3, <1>4, <1>5, <1>7

LEMMA PagingIsActive == \A b, r : Paging(b, r) \subseteq Conditions /\ Paging(b, r) \cap Over(b, r) = {}
BY DEF Paging, Over, Active, Conditions

LEMMA CountedFields ==
  ASSUME NEW b \in Brains, NEW r \in Reports
  PROVE  /\ Counted(b, r) \in Brains
         /\ Counted(b, r).keepawake = IF r.keepawake THEN UpTo(b.keepawake, 3) ELSE 0
         /\ Counted(b, r).quiet = b.quiet /\ Counted(b, r).asleep = b.asleep
         /\ Counted(b, r).incoherent = b.incoherent /\ Counted(b, r).checkfail = b.checkfail
         /\ Counted(b, r).mismatch = b.mismatch /\ Counted(b, r).pending = b.pending
<1> DEFINE streak == IF r.keepawake THEN UpTo(b.keepawake, 3) ELSE 0
           n == Counted(b, r)
<1>1. streak \in Nat /\ r.wedge \in Nat
  <2>1. b.keepawake \in Nat /\ r.wedge \in 0..2
    BY DEF Brains, Reports
  <2>2. UpTo(b.keepawake, 3) \in Nat
    BY <2>1, Counting
  <2> QED
    BY <2>1, <2>2
<1>2. n = [b EXCEPT !.keepawake = streak, !.wedge = r.wedge]
  BY DEF Counted, Brains
<1> HIDE DEF streak, n
<1>3. /\ n \in Brains /\ n.keepawake = streak /\ n.quiet = b.quiet /\ n.asleep = b.asleep
      /\ n.incoherent = b.incoherent /\ n.checkfail = b.checkfail /\ n.mismatch = b.mismatch
      /\ n.pending = b.pending
  BY <1>1, <1>2 DEF Brains
<1> QED
  BY <1>3 DEF n, streak

LEMMA JudgedFields ==
  ASSUME NEW b \in Brains, NEW v, v.report \in Reports
  PROVE  LET n == Judged(b, v)
         IN  /\ n \in Brains
             /\ \A k \in Kinds : n.quiet[k] = IF k \in JudgedPages(b, v) THEN Renotify
                                               ELSE IF StatusSeen(v) /\ k \in Over(b, v.report) THEN 0
                                               ELSE b.quiet[k]
             /\ n.keepawake = IF ~StatusSeen(v) THEN b.keepawake
                              ELSE IF v.report.keepawake THEN UpTo(b.keepawake, 3) ELSE 0
             /\ n.asleep = b.asleep /\ n.incoherent = b.incoherent /\ n.checkfail = b.checkfail
             /\ n.mismatch = b.mismatch
<1>1. CASE ~StatusSeen(v)
  BY <1>1 DEF Judged, JudgedPages
<1>2. CASE StatusSeen(v)
  <2> DEFINE r == v.report
             ks == Paging(b, r)
             c == Cleared(b, Over(b, r))
             s == Sent(c, ks)
             n == Counted(s, r)
  <2>1. /\ c \in Brains /\ \A k \in Kinds : c.quiet[k] = IF k \in Over(b, r) THEN 0 ELSE b.quiet[k]
        /\ c.asleep = b.asleep /\ c.incoherent = b.incoherent /\ c.checkfail = b.checkfail
        /\ c.mismatch = b.mismatch /\ c.keepawake = b.keepawake
    BY ClearedFields
  <2> HIDE DEF c
  <2>2. /\ s \in Brains /\ \A k \in Kinds : s.quiet[k] = IF k \in Due(c, ks) THEN Renotify ELSE c.quiet[k]
        /\ s.asleep = c.asleep /\ s.incoherent = c.incoherent /\ s.checkfail = c.checkfail
        /\ s.mismatch = c.mismatch /\ s.keepawake = c.keepawake
    BY <2>1, SentFields
  <2> HIDE DEF s
  <2>3. /\ n \in Brains /\ n.keepawake = IF r.keepawake THEN UpTo(s.keepawake, 3) ELSE 0
        /\ n.quiet = s.quiet /\ n.asleep = s.asleep /\ n.incoherent = s.incoherent
        /\ n.checkfail = s.checkfail /\ n.mismatch = s.mismatch
    BY <2>2, CountedFields
  <2>4. n = Judged(b, v) /\ JudgedPages(b, v) = Due(b, ks)
    BY <1>2 DEF Judged, JudgedPages, c, s
  <2>5. ks \subseteq Kinds /\ ks \cap Over(b, r) = {}
    BY PagingIsActive DEF Kinds
  <2> HIDE DEF n, ks, r
  <2>6. Due(c, ks) = Due(b, ks)
    BY <2>1, <2>5 DEF Due
  <2>7. \A k \in Kinds : n.quiet[k] = IF k \in Due(b, ks) THEN Renotify
                                        ELSE IF k \in Over(b, r) THEN 0 ELSE b.quiet[k]
    BY <2>1, <2>2, <2>3, <2>6
  <2> QED
    BY <1>2, <2>1, <2>2, <2>3, <2>4, <2>7 DEF r
<1> QED
  BY <1>1, <1>2

\* The brain in front of the actions: judged, marked for repair, counted.
Settled(b, v) == Bumped(Pending(Judged(b, v), v), v)

LEMMA SettledFields ==
  ASSUME NEW b \in Brains, NEW v, v.report \in Reports
  PROVE  LET n == Settled(b, v)
         IN  /\ n \in Brains /\ n.quiet = Judged(b, v).quiet /\ n.keepawake = Judged(b, v).keepawake
             /\ n.incoherent = IF RowE(v) THEN UpTo(b.incoherent, 2) ELSE b.incoherent
             /\ RowE(v) \/ Banner(v) \/ n.pending = 0
             /\ n.asleep = b.asleep /\ n.checkfail = b.checkfail /\ n.mismatch = b.mismatch
<1> DEFINE j == Judged(b, v)
           waits == IF RowE(v) \/ Banner(v) THEN UpTo(j.pending, 2) ELSE 0
           count == IF RowE(v) THEN UpTo(j.incoherent, 2) ELSE j.incoherent
           n == Settled(b, v)
<1>1. /\ j \in Brains /\ j.asleep = b.asleep /\ j.incoherent = b.incoherent /\ j.checkfail = b.checkfail
      /\ j.mismatch = b.mismatch
  BY JudgedFields
<1>2. Settled(b, v) = Bumped(Pending(j, v), v)
  BY DEF Settled
<1> HIDE DEF j
<1>3. waits \in Nat /\ count \in Nat
  BY <1>1, Counting DEF Brains
<1>4. Pending(j, v) = [j EXCEPT !.pending = waits]
  BY <1>1 DEF Pending, Brains
<1>5. n = [j EXCEPT !.pending = waits, !.incoherent = count]
  BY <1>1, <1>2, <1>4 DEF Bumped, Brains
<1>6. (RowE(v) \/ Banner(v) \/ waits = 0) /\ count = IF RowE(v) THEN UpTo(b.incoherent, 2) ELSE b.incoherent
  BY <1>1
<1> HIDE DEF n, waits, count
<1>7. /\ n \in Brains /\ n.quiet = j.quiet /\ n.keepawake = j.keepawake /\ n.incoherent = count
      /\ n.pending = waits /\ n.asleep = j.asleep /\ n.checkfail = j.checkfail /\ n.mismatch = j.mismatch
  BY <1>1, <1>3, <1>5 DEF Brains
<1> QED
  BY <1>1, <1>6, <1>7 DEF n, j

LEMMA ActedFields ==
  ASSUME NEW b \in Brains, NEW v, NEW m
  PROVE  LET n == Acted(b, v, m)
         IN  /\ n \in Brains
             /\ \A k \in Kinds : n.quiet[k] = IF k \in Due(b, Alerts(b, v)) THEN Renotify ELSE b.quiet[k]
             /\ n.asleep = IF RowAsleep(v) THEN Slept(b).asleep ELSE b.asleep
             /\ n.incoherent = b.incoherent /\ n.checkfail = b.checkfail /\ n.mismatch = b.mismatch
             /\ n.keepawake = b.keepawake /\ n.pending = b.pending
<1> DEFINE next == IF AsleepDue(b) THEN Renotify ELSE Timer(b).next
           s == IF RowAsleep(v) THEN Slept(b) ELSE b
           t == Sent(s, Alerts(s, v))
           n == Acted(b, v, m)
<1>1. Slept(b) = [b EXCEPT !.asleep = [since |-> Timer(b).since, next |-> next]]
  BY DEF Slept, Brains
<1>2. [since |-> Timer(b).since, next |-> next] \in Sleeps
  BY AlertAssumption DEF Timer, Sleeps, Brains
<1> HIDE DEF next
<1>3. /\ Slept(b) \in Brains /\ Slept(b).quiet = b.quiet /\ Slept(b).incoherent = b.incoherent
      /\ Slept(b).checkfail = b.checkfail /\ Slept(b).mismatch = b.mismatch
      /\ Slept(b).keepawake = b.keepawake /\ Slept(b).pending = b.pending
  BY <1>1, <1>2 DEF Brains
<1>4. /\ s \in Brains /\ s.quiet = b.quiet /\ s.incoherent = b.incoherent /\ s.checkfail = b.checkfail
      /\ s.mismatch = b.mismatch /\ s.keepawake = b.keepawake /\ s.pending = b.pending
      /\ s.asleep = IF RowAsleep(v) THEN Slept(b).asleep ELSE b.asleep
  BY <1>3
<1>5. n = Minted(t, v, m)
  BY DEF Acted
<1> HIDE DEF s
<1>6. Alerts(s, v) = Alerts(b, v)
  BY <1>4 DEF Alerts, Tokens
<1>7. Due(s, Alerts(s, v)) = Due(b, Alerts(b, v))
  BY <1>4, <1>6 DEF Due
<1>8. /\ t \in Brains
      /\ \A k \in Kinds : t.quiet[k] = IF k \in Due(b, Alerts(b, v)) THEN Renotify ELSE b.quiet[k]
      /\ t.asleep = s.asleep /\ t.incoherent = s.incoherent /\ t.checkfail = s.checkfail
      /\ t.mismatch = s.mismatch /\ t.keepawake = s.keepawake /\ t.pending = s.pending
  BY <1>4, <1>7, SentFields
<1> HIDE DEF n, t
<1>9. \E i \in Nat : n = [t EXCEPT !.seedfail = i]
  <2>1. t.seedfail \in Nat /\ UpTo(t.seedfail, 4) \in Nat
    BY <1>8, Counting DEF Brains
  <2>2. t = [t EXCEPT !.seedfail = t.seedfail]
    BY <1>8 DEF Brains
  <2> QED
    BY <1>5, <2>1, <2>2 DEF Minted
<1>10. /\ n \in Brains /\ n.quiet = t.quiet /\ n.asleep = t.asleep /\ n.incoherent = t.incoherent
       /\ n.checkfail = t.checkfail /\ n.mismatch = t.mismatch /\ n.keepawake = t.keepawake
       /\ n.pending = t.pending
  BY <1>8, <1>9 DEF Brains
<1> QED
  BY <1>4, <1>8, <1>10 DEF n

\* The books are numbers, and they are about the box's kinds.
AlertTyped ==
  /\ brain \in Brains
  /\ told \in [Kinds -> Nat \cup {Null}] /\ owed \in [Kinds -> Nat]

\* An open window is the window of a page that arrived, in this spell, and it
\* closes before that page is a window old; or of one that was lost.
Windows ==
  \A k \in Kinds \ {"asleep"} :
    k \in missed \/ brain.quiet[k] = 0 \/ (told[k] # Null /\ told[k] + brain.quiet[k] <= Renotify)

\* So does the time to the next digest of a sleeping box.
Digest ==
  \/ brain.asleep = Null \/ "asleep" \in missed
  \/ brain.asleep.next = Null
  \/ told["asleep"] # Null /\ told["asleep"] + brain.asleep.next <= Renotify

\* What holds a page back has counted at least the ticks that have seen the kind.
Waits ==
  /\ owed["both-dead"] <= brain.incoherent /\ owed["cannot-converge"] <= brain.checkfail
  /\ owed["keepawake"] <= brain.keepawake
  /\ owed["asleep"] = 0 \/ (brain.asleep # Null /\ owed["asleep"] <= brain.asleep.since + 1)

AlertInv == AlertTyped /\ Windows /\ Digest /\ Waits /\ AlertsTrue

LEMMA OlderCounts ==
  /\ \A n, d, cap \in Nat : n <= d => UpTo(n, cap) <= UpTo(d, cap)
  /\ \A n, d, cap \in Nat : n <= d + 1 => UpTo(n, cap + 1) <= UpTo(d, cap) + 1
  /\ \A n, cap \in Nat : UpTo(n, cap) <= n + 1
BY DEF UpTo

LEMMA NeedPositive == \A k \in Kinds : Need[k] \in Nat /\ Need[k] > 0
<1> SUFFICES ASSUME NEW k \in Kinds PROVE Need[k] \in Nat /\ Need[k] > 0
  OBVIOUS
<1>1. \/ Need[k] = AsleepAfter + 1 \/ Need[k] = 2 \/ Need[k] = 4 \/ Need[k] = 3 \/ Need[k] = 1
  BY DEF Need
<1> QED
  BY <1>1, AlertAssumption

\* The books of a step that saw the kinds `gone' end and the kinds `here'.
Books(gone, here, out, lost) ==
  /\ told' = [k \in Kinds |-> IF k \in out \ lost THEN 0
                              ELSE IF k \in gone \/ told[k] = Null THEN Null
                              ELSE UpTo(told[k], Renotify)]
  /\ owed' = [k \in Kinds |-> IF k \in here THEN UpTo(owed[k], Need[k]) ELSE 0]
  /\ missed' = (missed \ (gone \cup out)) \cup lost

LEMMA BooksOf ==
  ASSUME NEW v, NEW out, NEW lost, NEW could
  PROVE  /\ Account(v, TRUE, out, lost, could) => Books(Gone(brain, v), Present(brain, v) \cap could, out, lost)
         /\ Account(v, FALSE, out, lost, could) => Books({}, {}, out, lost)
BY Zenon DEF Account, Books

LEMMA BooksFields ==
  ASSUME AlertTyped, NEW gone, NEW here, NEW out, NEW lost, Books(gone, here, out, lost)
  PROVE  /\ told' \in [Kinds -> Nat \cup {Null}] /\ owed' \in [Kinds -> Nat]
         /\ \A k \in Kinds :
              /\ told'[k] = IF k \in out \ lost THEN 0
                            ELSE IF k \in gone \/ told[k] = Null THEN Null
                            ELSE UpTo(told[k], Renotify)
              /\ owed'[k] = IF k \in here THEN UpTo(owed[k], Need[k]) ELSE 0
              /\ k \in missed' <=> (k \in lost \/ (k \in missed /\ k \notin out /\ k \notin gone))
<1> DEFINE tell == [k \in Kinds |-> IF k \in out \ lost THEN 0
                                    ELSE IF k \in gone \/ told[k] = Null THEN Null
                                    ELSE UpTo(told[k], Renotify)]
           owe == [k \in Kinds |-> IF k \in here THEN UpTo(owed[k], Need[k]) ELSE 0]
<1>1. told' = tell /\ owed' = owe /\ missed' = (missed \ (gone \cup out)) \cup lost
  BY DEF Books
<1>2. tell \in [Kinds -> Nat \cup {Null}]
  BY Counting, AlertAssumption DEF AlertTyped
<1>3. owe \in [Kinds -> Nat]
  BY Counting, NeedPositive DEF AlertTyped
<1> QED
  BY <1>1, <1>2, <1>3

\* A window opens with a page, gets shorter by the tick, and is shut by what ends the spell.
LEMMA WindowsKept ==
  ASSUME AlertInv, brain' \in Brains, NEW gone, NEW here, NEW out, NEW lost,
         Books(gone, here, out, lost),
         \A k \in Kinds \ {"asleep"} :
           IF k \in out THEN brain'.quiet[k] = Renotify
           ELSE brain'.quiet[k] = 0 \/ (brain'.quiet[k] = Down(brain.quiet[k]) /\ k \notin gone)
  PROVE  Windows'
<1> SUFFICES ASSUME NEW k \in Kinds \ {"asleep"}, k \notin missed', brain'.quiet[k] # 0
             PROVE  told'[k] # Null /\ told'[k] + brain'.quiet[k] <= Renotify
  BY DEF Windows
<1>1. /\ told'[k] = IF k \in out \ lost THEN 0
                    ELSE IF k \in gone \/ told[k] = Null THEN Null
                    ELSE UpTo(told[k], Renotify)
      /\ k \notin lost
      /\ k \notin missed \/ k \in out \/ k \in gone
  BY BooksFields DEF AlertInv
<1>2. CASE k \in out
  BY <1>1, <1>2, AlertAssumption
<1>3. CASE k \notin out
  <2>1. brain'.quiet[k] = Down(brain.quiet[k]) /\ k \notin gone /\ brain.quiet[k] \in Nat
    BY <1>3 DEF AlertInv, AlertTyped, Brains
  <2>2. brain.quiet[k] # 0 /\ brain'.quiet[k] = brain.quiet[k] - 1
    BY <2>1, AlertAssumption DEF Down
  <2>3. told[k] # Null /\ told[k] + brain.quiet[k] <= Renotify /\ told[k] \in Nat
    BY <1>1, <1>3, <2>1, <2>2 DEF AlertInv, Windows, AlertTyped
  <2>4. told'[k] = UpTo(told[k], Renotify)
    BY <1>1, <1>3, <2>1, <2>3
  <2>5. UpTo(told[k], Renotify) <= told[k] + 1 /\ UpTo(told[k], Renotify) \in Nat
    BY <2>3, OlderCounts, Counting, AlertAssumption
  <2> HIDE DEF UpTo
  <2> QED
    BY <2>1, <2>2, <2>3, <2>4, <2>5, AlertAssumption
<1> QED
  BY <1>2, <1>3

\* So does the time to the next digest, in a step that sends none.
LEMMA DigestKept ==
  ASSUME AlertInv, brain' \in Brains, NEW gone, NEW here, NEW out, NEW lost,
         Books(gone, here, out, lost), "asleep" \notin out,
         \/ brain'.asleep = Null \/ brain'.asleep.next = Null
         \/ /\ brain.asleep # Null /\ brain'.asleep.next = Down(brain.asleep.next)
            /\ "asleep" \notin gone
  PROVE  Digest'
<1> SUFFICES ASSUME brain'.asleep # Null, "asleep" \notin missed', brain'.asleep.next # Null
             PROVE  told'["asleep"] # Null /\ told'["asleep"] + brain'.asleep.next <= Renotify
  BY DEF Digest
<1>1. /\ brain.asleep # Null /\ brain'.asleep.next = Down(brain.asleep.next)
      /\ "asleep" \notin gone
  OBVIOUS
<1>2. /\ told'["asleep"] = IF "asleep" \in out \ lost THEN 0
                           ELSE IF "asleep" \in gone \/ told["asleep"] = Null THEN Null
                           ELSE UpTo(told["asleep"], Renotify)
      /\ "asleep" \notin missed \/ "asleep" \in out \/ "asleep" \in gone
  <2>1. "asleep" \in Kinds
    BY DEF Kinds
  <2> QED
    BY <2>1, BooksFields DEF AlertInv
<1>3. /\ brain.asleep.next \in Nat \cup {Null} /\ brain.asleep.next # Null
      /\ told["asleep"] \in Nat \cup {Null}
  BY <1>1 DEF AlertInv, AlertTyped, Brains, Sleeps, Down, Kinds
<1>4. told["asleep"] # Null /\ told["asleep"] + brain.asleep.next <= Renotify
  BY <1>1, <1>2, <1>3 DEF AlertInv, Digest
<1>5. told'["asleep"] = UpTo(told["asleep"], Renotify)
  BY <1>1, <1>2, <1>4
<1>6. UpTo(told["asleep"], Renotify) <= told["asleep"] + 1 /\ UpTo(told["asleep"], Renotify) \in Nat
  BY <1>3, <1>4, OlderCounts, Counting, AlertAssumption
<1>7. brain.asleep.next = 0 \/ Down(brain.asleep.next) = brain.asleep.next - 1
  BY <1>3 DEF Down
<1>8. CASE brain.asleep.next = 0
  <2>1. Down(brain.asleep.next) = 0
    BY <1>8 DEF Down
  <2>2. UpTo(told["asleep"], Renotify) <= Renotify
    BY <1>3, <1>4, <1>8, AlertAssumption DEF UpTo
  <2> QED
    BY <1>1, <1>5, <1>6, <2>1, <2>2, AlertAssumption
<1>9. CASE brain.asleep.next # 0
  BY <1>1, <1>3, <1>4, <1>5, <1>6, <1>7, <1>9, AlertAssumption
<1> QED
  BY <1>8, <1>9

\* What a killed tick leaves of the timer.
LEMMA TimerRuns ==
  ASSUME AlertInv
  PROVE  \/ OlderSleep(brain) = Null /\ brain.asleep = Null
         \/ /\ brain.asleep # Null /\ OlderSleep(brain).next = Down(brain.asleep.next)
            /\ OlderSleep(brain).since = UpTo(brain.asleep.since, AsleepAfter)
            /\ brain.asleep.since \in Nat /\ brain.asleep.next \in Nat \cup {Null}
            /\ OlderSleep(brain) # Null
<1>1. brain \in Brains
  BY DEF AlertInv, AlertTyped
<1>2. CASE brain.asleep = Null
  BY <1>2 DEF OlderSleep
<1>3. CASE brain.asleep # Null
  <2>1. brain.asleep.since \in Nat /\ brain.asleep.next \in Nat \cup {Null}
    BY <1>1, <1>3 DEF Brains, Sleeps
  <2>2. OlderSleep(brain) = [since |-> UpTo(brain.asleep.since, AsleepAfter), next |-> Down(brain.asleep.next)]
    BY <1>3 DEF OlderSleep
  <2>3. UpTo(brain.asleep.since, AsleepAfter) \in Nat /\ Down(brain.asleep.next) \in Nat \cup {Null}
    BY <2>1, Counting, AlertAssumption
  <2> QED
    BY <1>3, <2>1, <2>2, <2>3, AlertAssumption
<1> QED
  BY <1>2, <1>3

LEMMA ReadingDies == AlertInv /\ DiesReading => AlertInv'
<1> SUFFICES ASSUME AlertInv, DiesReading PROVE AlertInv'
  OBVIOUS
<1>1. PICK v \in Views : brain' = Checked(Aged(brain), v) /\ Books({}, {}, {}, {})
  BY BooksOf, Zenon DEF DiesReading
<1>2. brain \in Brains
  BY DEF AlertInv, AlertTyped
<1>3. /\ brain' \in Brains /\ brain'.asleep = OlderSleep(brain)
      /\ \A k \in Kinds : brain'.quiet[k] = Down(brain.quiet[k])
      /\ label' = Null
  BY <1>1, <1>2, AgedFields, CheckedFields DEF DiesReading
<1>4. /\ told' \in [Kinds -> Nat \cup {Null}] /\ owed' \in [Kinds -> Nat]
      /\ \A k \in Kinds : owed'[k] = 0
  <2>1. told' \in [Kinds -> Nat \cup {Null}]
    BY <1>1, BooksFields DEF AlertInv
  <2>2. owed' = [k \in Kinds |-> 0]
    BY <1>1 DEF Books
  <2> QED
    BY <2>1, <2>2
<1>5. Windows'
  BY <1>1, <1>3, WindowsKept
<1>6. Digest'
  BY <1>1, <1>3, DigestKept, TimerRuns
<1>7. Waits'
  <2>1. {"both-dead", "cannot-converge", "keepawake", "asleep"} \subseteq Kinds
    BY DEF Kinds, Incidents, Conditions
  <2>2. brain'.incoherent \in Nat /\ brain'.checkfail \in Nat /\ brain'.keepawake \in Nat
    BY <1>3 DEF Brains
  <2> QED
    BY <1>4, <2>1, <2>2 DEF Waits
<1>8. NothingSilenced'
  BY <1>4, NeedPositive DEF NothingSilenced
<1>9. HealthyIsClean'
  BY <1>3, AlertAssumption DEF HealthyIsClean
<1> QED
  BY <1>3, <1>4, <1>5, <1>6, <1>7, <1>8, <1>9 DEF AlertInv, AlertTyped, AlertsTrue

\* What a tick saw end is not raised by it, and its row is cleared.
LEMMA SpellOver ==
  ASSUME NEW b, NEW n, NEW v, ViewShape(v)
  PROVE  /\ \A k \in Incidents : k \in Gone(b, v) => (k \notin Tokens(n, v) /\ ObservedBy(k, v))
         /\ \A k \in Conditions : k \in Gone(b, v) => (StatusSeen(v) /\ k \in Over(b, v.report))
         /\ "asleep" \in Gone(b, v) => AwakeCond(v)
<1> USE DEF ViewShape, Incidents, Conditions
<1>1. "duplicate" \in Gone(b, v) => "duplicate" \notin Tokens(n, v) /\ Known(v)
  BY DEF Gone, Over, Tokens
<1>2. "both-dead" \in Gone(b, v) => "both-dead" \notin Tokens(n, v) /\ StatusSeen(v)
  BY DEF Gone, Over, Tokens, RowE, StatusSeen
<1>3. "cannot-converge" \in Gone(b, v) => "cannot-converge" \notin Tokens(n, v) /\ StatusSeen(v)
  BY DEF Gone, Over, Tokens, CheckFails, StatusSeen
<1>4. \A k \in Conditions : k \in Gone(b, v) => (StatusSeen(v) /\ k \in Over(b, v.report))
  BY DEF Gone
<1>5. "asleep" \in Gone(b, v) => AwakeCond(v)
  BY DEF Gone, Over, AwakeCond, RowAsleep, RowE
<1> QED
  BY <1>1, <1>2, <1>3, <1>4, <1>5 DEF ObservedBy

LEMMA SameConditions ==
  ASSUME NEW b, NEW n, n.wedge = b.wedge, n.keepawake = b.keepawake, NEW r
  PROVE  Active(n, r) = Active(b, r) /\ Over(n, r) = Over(b, r) /\ Paging(n, r) = Paging(b, r)
<1>1. Counted(n, r).keepawake = Counted(b, r).keepawake
  BY DEF Counted
<1>2. Active(n, r) = Active(b, r)
  BY <1>1 DEF Active
<1> QED
  BY <1>2 DEF Over, Paging

\* The rows of the tick once it has judged the conditions.
LEMMA JudgedRows ==
  ASSUME NEW b \in Brains, NEW v, ViewShape(v)
  PROVE  LET n == Reading(b, v)
             j == Judged(n, v)
         IN  /\ JudgedPages(n, v) \subseteq Conditions
             /\ \A k \in Kinds :
                  /\ IF k \in JudgedPages(n, v) THEN j.quiet[k] = Renotify
                     ELSE j.quiet[k] = 0 \/ (j.quiet[k] = Down(b.quiet[k]) /\ (k = "asleep" \/ k \notin Gone(b, v)))
                  /\ StatusSeen(v) /\ k \in Paging(b, v.report) => j.quiet[k] > 0
<1> DEFINE n == Reading(b, v)
           j == Judged(n, v)
           r == v.report
<1>1. /\ n \in Brains /\ n.keepawake = b.keepawake /\ n.wedge = b.wedge
      /\ \A k \in Kinds : n.quiet[k] = IF k \in Incidents /\ k \notin Tokens(n, v) /\ ObservedBy(k, v)
                                         THEN 0 ELSE Down(b.quiet[k])
  BY ReadingFields
<1> HIDE DEF n
<1>2. \A k \in Kinds : j.quiet[k] = IF k \in JudgedPages(n, v) THEN Renotify
                                      ELSE IF StatusSeen(v) /\ k \in Over(n, r) THEN 0
                                      ELSE n.quiet[k]
  BY <1>1, JudgedFields DEF ViewShape
<1>3. Over(n, r) = Over(b, r) /\ Paging(n, r) = Paging(b, r)
  BY <1>1, SameConditions
<1>4. JudgedPages(n, v) \subseteq Conditions /\ (StatusSeen(v) => JudgedPages(n, v) = Due(n, Paging(b, r)))
  <2>1. Paging(n, r) \subseteq Conditions
    BY PagingIsActive
  <2> QED
    BY <1>3, <2>1 DEF JudgedPages, Due
<1> HIDE DEF j, r
<1>5. ASSUME NEW k \in Kinds
      PROVE  IF k \in JudgedPages(n, v) THEN j.quiet[k] = Renotify
             ELSE j.quiet[k] = 0 \/ (j.quiet[k] = Down(b.quiet[k]) /\ (k = "asleep" \/ k \notin Gone(b, v)))
  <2>1. CASE k \in Incidents
    BY <1>1, <1>2, <2>1, SpellOver
  <2>2. CASE k \in Conditions
    <3>1. k \notin Incidents
      BY <2>2 DEF Conditions, Incidents
    <3> QED
      BY <1>1, <1>2, <1>3, <2>2, <3>1, SpellOver DEF r
  <2>3. CASE k = "asleep"
    BY <1>1, <1>2, <2>3 DEF Incidents
  <2> QED
    BY <2>1, <2>2, <2>3 DEF Kinds
<1>6. ASSUME NEW k \in Kinds, StatusSeen(v), k \in Paging(b, v.report)
      PROVE  j.quiet[k] > 0
  <2>1. k \notin Over(n, r)
    BY <1>3, <1>6, PagingIsActive DEF r
  <2>2. k \in JudgedPages(n, v) \/ n.quiet[k] # 0
    BY <1>4, <1>6 DEF Due, r
  <2>3. n.quiet[k] \in Nat
    BY <1>1 DEF Brains
  <2> QED
    BY <1>2, <2>1, <2>2, <2>3, AlertAssumption
<1> QED
  BY <1>4, <1>5, <1>6 DEF j, n

LEMMA PresentMeans ==
  ASSUME NEW b, NEW v
  PROVE  /\ "asleep" \in Present(b, v) => RowAsleep(v)
         /\ "both-dead" \in Present(b, v) => RowE(v)
         /\ "cannot-converge" \in Present(b, v) => CheckFails(v)
         /\ "duplicate" \in Present(b, v) => BothLive(v)
         /\ "keepawake" \in Present(b, v) => (StatusSeen(v) /\ v.report.keepawake)
         /\ \A k \in Conditions \ {"keepawake"} : k \in Present(b, v) => (StatusSeen(v) /\ k \in Paging(b, v.report))
<1>1. StatusSeen(v) => Paging(b, v.report) \subseteq Conditions
  BY PagingIsActive
<1> QED
  BY <1>1 DEF Present, Conditions

\* A condition seen for as long as it takes is one of those the tick pages.
LEMMA ConditionIsPaged ==
  ASSUME NEW b \in Brains, NEW v, ViewShape(v), NEW k \in Conditions, k \in Present(b, v),
         NEW n \in Nat, k = "keepawake" => n <= b.keepawake, UpTo(n, Need[k]) >= Need[k]
  PROVE  StatusSeen(v) /\ k \in Paging(b, v.report)
<1>1. CASE k # "keepawake"
  BY <1>1, PresentMeans
<1>2. CASE k = "keepawake"
  <2>1. StatusSeen(v) /\ v.report.keepawake
    BY <1>2, PresentMeans
  <2>2. Need["keepawake"] = 3
    BY DEF Need, Kinds, Conditions
  <2>3. b.keepawake \in Nat
    BY DEF Brains
  <2>4. UpTo(n, 3) <= UpTo(b.keepawake, 3) /\ UpTo(n, 3) >= 3
    BY <1>2, <2>2, <2>3, OlderCounts
  <2>5. UpTo(n, 3) \in Nat /\ UpTo(b.keepawake, 3) \in Nat
    BY <2>3, Counting
  <2>6. Counted(b, v.report).keepawake = UpTo(b.keepawake, 3)
    BY <2>1 DEF Counted, Brains
  <2>7. "keepawake" \in Active(b, v.report)
    BY <2>4, <2>5, <2>6 DEF Active
  <2> QED
    BY <1>2, <2>1, <2>7 DEF Paging
<1> QED
  BY <1>1, <1>2

LEMMA OpenIsTold ==
  ASSUME Windows', brain' \in Brains, told' \in [Kinds -> Nat \cup {Null}],
         NEW k \in Kinds \ {"asleep"}, k \notin missed', brain'.quiet[k] > 0
  PROVE  told'[k] # Null /\ told'[k] < Renotify
<1>1. brain'.quiet[k] \in Nat /\ told'[k] \in Nat \cup {Null}
  BY DEF Brains
<1>2. told'[k] # Null /\ told'[k] + brain'.quiet[k] <= Renotify
  BY <1>1 DEF Windows
<1> QED
  BY <1>1, <1>2, AlertAssumption

\* The streak of failures is at least as long as the ticks that have seen them.
LEMMA StreakCounts ==
  ASSUME AlertInv, NEW v, NEW gone, NEW could, NEW out, NEW lost,
         Books(gone, Present(brain, v) \cap could, out, lost),
         brain'.keepawake = IF ~StatusSeen(v) THEN brain.keepawake
                            ELSE IF v.report.keepawake THEN UpTo(brain.keepawake, 3) ELSE 0,
         brain' \in Brains
  PROVE  owed'["keepawake"] <= brain'.keepawake
<1>1. brain.keepawake \in Nat /\ brain'.keepawake \in Nat /\ owed["keepawake"] \in Nat /\ "keepawake" \in Kinds
  BY DEF AlertInv, AlertTyped, Brains, Kinds, Conditions
<1>2. Need["keepawake"] = 3
  BY DEF Need, Kinds, Conditions
<1>3. \/ owed'["keepawake"] = 0
      \/ "keepawake" \in Present(brain, v) /\ owed'["keepawake"] = UpTo(owed["keepawake"], 3)
  BY <1>1, <1>2, BooksFields DEF AlertInv
<1>4. CASE owed'["keepawake"] = 0
  BY <1>1, <1>4
<1>5. CASE "keepawake" \in Present(brain, v) /\ owed'["keepawake"] = UpTo(owed["keepawake"], 3)
  <2>1. StatusSeen(v) /\ v.report.keepawake
    BY <1>5, PresentMeans
  <2>2. brain'.keepawake = UpTo(brain.keepawake, 3)
    BY <2>1
  <2>3. owed["keepawake"] <= brain.keepawake
    BY DEF AlertInv, Waits
  <2>4. UpTo(owed["keepawake"], 3) <= UpTo(brain.keepawake, 3)
    BY <1>1, <2>3, OlderCounts
  <2> QED
    BY <1>5, <2>2, <2>4
<1> QED
  BY <1>3, <1>4, <1>5

LEMMA JudgingDies == AlertInv /\ DiesJudging => AlertInv'
<1> SUFFICES ASSUME AlertInv, DiesJudging PROVE AlertInv'
  OBVIOUS
<1>1. PICK v \in Views : /\ brain' = Judged(Reading(brain, v), v)
                         /\ Books(Gone(brain, v), Present(brain, v) \cap Conditions,
                                  JudgedPages(Reading(brain, v), v), {})
  BY BooksOf, Zenon DEF DiesJudging, Reading
<1> DEFINE n == Reading(brain, v)
           out == JudgedPages(n, v)
<1>2. ViewShape(v) /\ brain \in Brains /\ label' = Null
  BY ViewsHaveShape DEF AlertInv, AlertTyped, DiesJudging
<1>3. n \in Brains /\ n.asleep = (IF AwakeCond(v) THEN Null ELSE OlderSleep(brain)) /\ n.keepawake = brain.keepawake
  BY <1>2, ReadingFields
<1>4. /\ out \subseteq Conditions
      /\ \A k \in Kinds :
           /\ IF k \in out THEN brain'.quiet[k] = Renotify
              ELSE brain'.quiet[k] = 0 \/ (brain'.quiet[k] = Down(brain.quiet[k]) /\ (k = "asleep" \/ k \notin Gone(brain, v)))
           /\ (StatusSeen(v) /\ k \in Paging(brain, v.report)) => brain'.quiet[k] > 0
  BY <1>1, <1>2, JudgedRows
<1> HIDE DEF n
<1>5. /\ brain' \in Brains /\ brain'.asleep = n.asleep
      /\ brain'.keepawake = IF ~StatusSeen(v) THEN n.keepawake
                            ELSE IF v.report.keepawake THEN UpTo(n.keepawake, 3) ELSE 0
  BY <1>1, <1>2, <1>3, JudgedFields DEF ViewShape, n
<1>6. Books(Gone(brain, v), Present(brain, v) \cap Conditions, out, {})
  BY <1>1 DEF n
<1> HIDE DEF out
<1>7. /\ told' \in [Kinds -> Nat \cup {Null}] /\ owed' \in [Kinds -> Nat]
      /\ \A k \in Kinds : owed'[k] = IF k \in Present(brain, v) \cap Conditions THEN UpTo(owed[k], Need[k]) ELSE 0
  BY <1>6, BooksFields DEF AlertInv
<1>8. Windows'
  BY <1>4, <1>5, <1>6, WindowsKept
<1>9. Digest'
  <2>1. "asleep" \notin out
    BY <1>4 DEF Conditions
  <2>2. "asleep" \in Gone(brain, v) => brain'.asleep = Null
    BY <1>2, <1>3, <1>5, SpellOver
  <2>3. brain'.asleep = Null \/ brain'.asleep = OlderSleep(brain)
    BY <1>3, <1>5
  <2> QED
    BY <1>5, <1>6, <2>1, <2>2, <2>3, TimerRuns, DigestKept
<1>10. Waits'
  <2>1. owed'["keepawake"] <= brain'.keepawake
    BY <1>3, <1>5, <1>6, StreakCounts
  <2>2. owed'["both-dead"] = 0 /\ owed'["cannot-converge"] = 0 /\ owed'["asleep"] = 0
    BY <1>7 DEF Kinds, Incidents, Conditions
  <2>3. brain'.incoherent \in Nat /\ brain'.checkfail \in Nat
    BY <1>5 DEF Brains
  <2> QED
    BY <2>1, <2>2, <2>3 DEF Waits
<1>11. NothingSilenced'
  <2> SUFFICES ASSUME NEW k \in Kinds, owed'[k] >= Need[k], k \notin missed'
               PROVE  told'[k] # Null /\ told'[k] < Renotify
    BY DEF NothingSilenced
  <2>1. k \in Present(brain, v) /\ k \in Conditions /\ UpTo(owed[k], Need[k]) >= Need[k]
    BY <1>7, NeedPositive
  <2>2. owed[k] \in Nat /\ (k = "keepawake" => owed[k] <= brain.keepawake)
    BY DEF AlertInv, AlertTyped, Waits
  <2>3. StatusSeen(v) /\ k \in Paging(brain, v.report)
    BY <1>2, <2>1, <2>2, ConditionIsPaged
  <2>4. k # "asleep"
    BY <2>1 DEF Conditions
  <2> QED
    BY <1>4, <1>5, <1>7, <1>8, <2>3, <2>4, OpenIsTold
<1>12. HealthyIsClean'
  BY <1>2, AlertAssumption DEF HealthyIsClean
<1> QED
  BY <1>5, <1>7, <1>8, <1>9, <1>10, <1>11, <1>12 DEF AlertInv, AlertTyped, AlertsTrue

\* A whole tick: the brain it read, the one in front of the actions, its pages.
WholeTick(v, m, n, s, out, lost) ==
  /\ ViewShape(v) /\ n = Reading(brain, v) /\ s = Settled(n, v) /\ brain' = Acted(s, v, m)
  /\ out = JudgedPages(n, v) \cup ActedPages(s, v, m) /\ lost \subseteq out
  /\ Books(Gone(brain, v), Present(brain, v), out, lost)
  /\ label' = Label(v)

LEMMA TickIsWhole ==
  ASSUME Tick
  PROVE  \E v, m, n, s, out, lost : WholeTick(v, m, n, s, out, lost)
<1>1. PICK v \in Views :
        \E m \in Mints(Settled(Reading(brain, v), v), v) :
          LET out == JudgedPages(Reading(brain, v), v) \cup ActedPages(Settled(Reading(brain, v), v), v, m)
          IN  \E lost \in {{}} \cup {{k} : k \in out \cap Kinds} :
                /\ brain' = Acted(Settled(Reading(brain, v), v), v, m)
                /\ label' = Label(v)
                /\ Account(v, TRUE, out, lost, Kinds)
  BY Zenon DEF Tick, Reading, Settled
<1> DEFINE n == Reading(brain, v)
           s == Settled(n, v)
           out(m) == JudgedPages(n, v) \cup ActedPages(s, v, m)
<1>2. PICK m \in Mints(s, v) :
        \E lost \in {{}} \cup {{k} : k \in out(m) \cap Kinds} :
          /\ brain' = Acted(s, v, m) /\ label' = Label(v) /\ Account(v, TRUE, out(m), lost, Kinds)
  BY <1>1, Zenon
<1>3. PICK lost \in {{}} \cup {{k} : k \in out(m) \cap Kinds} :
        brain' = Acted(s, v, m) /\ label' = Label(v) /\ Account(v, TRUE, out(m), lost, Kinds)
  BY <1>2, Zenon
<1>4. Books(Gone(brain, v), Present(brain, v) \cap Kinds, out(m), lost)
  BY <1>3, BooksOf, Zenon
<1>5. Present(brain, v) \cap Kinds = Present(brain, v)
  <2>1. Paging(brain, v.report) \subseteq Conditions
    BY PagingIsActive
  <2> QED
    BY <2>1 DEF Present, Kinds, Incidents, Conditions
<1>6. ViewShape(v)
  BY ViewsHaveShape
<1>7. lost \subseteq out(m)
  BY <1>3
<1>8. WholeTick(v, m, n, s, out(m), lost)
  BY <1>3, <1>4, <1>5, <1>6, <1>7, Zenon DEF WholeTick
<1> QED
  BY <1>8, Zenon

\* The brain behind the tick, field by field.
LEMMA TickFields ==
  ASSUME AlertInv, NEW v, NEW m, NEW n, NEW s, NEW out, NEW lost, WholeTick(v, m, n, s, out, lost)
  PROVE  /\ brain' \in Brains /\ n \in Brains /\ s \in Brains
         /\ s.asleep = IF AwakeCond(v) THEN Null ELSE OlderSleep(brain)
         /\ brain'.asleep = IF RowAsleep(v) THEN Slept(s).asleep ELSE s.asleep
         /\ brain'.checkfail = NowFailing(brain, v) /\ s.checkfail = NowFailing(brain, v)
         /\ brain'.incoherent = s.incoherent
         /\ s.incoherent = IF RowE(v) THEN UpTo(brain.incoherent, 2)
                           ELSE IF AwakeCond(v) THEN 0 ELSE brain.incoherent
         /\ brain'.keepawake = IF ~StatusSeen(v) THEN brain.keepawake
                               ELSE IF v.report.keepawake THEN UpTo(brain.keepawake, 3) ELSE 0
         /\ brain'.mismatch = Banner(v)
         /\ RowE(v) \/ Banner(v) \/ brain'.pending = 0
<1>1. brain \in Brains /\ v.report \in Reports
  BY DEF AlertInv, AlertTyped, WholeTick, ViewShape
<1>2. /\ n \in Brains /\ n.asleep = (IF AwakeCond(v) THEN Null ELSE OlderSleep(brain))
      /\ n.incoherent = (IF AwakeCond(v) THEN 0 ELSE brain.incoherent)
      /\ n.checkfail = NowFailing(brain, v) /\ n.mismatch = Banner(v) /\ n.keepawake = brain.keepawake
  BY <1>1, ReadingFields DEF WholeTick
<1>3. /\ s \in Brains /\ s.keepawake = Judged(n, v).keepawake
      /\ s.incoherent = (IF RowE(v) THEN UpTo(n.incoherent, 2) ELSE n.incoherent)
      /\ RowE(v) \/ Banner(v) \/ s.pending = 0
      /\ s.asleep = n.asleep /\ s.checkfail = n.checkfail /\ s.mismatch = n.mismatch
  BY <1>1, <1>2, SettledFields DEF WholeTick
<1>4. Judged(n, v).keepawake = IF ~StatusSeen(v) THEN n.keepawake
                               ELSE IF v.report.keepawake THEN UpTo(n.keepawake, 3) ELSE 0
  BY <1>1, <1>2, JudgedFields
<1>5. /\ brain' \in Brains /\ brain'.asleep = IF RowAsleep(v) THEN Slept(s).asleep ELSE s.asleep
      /\ brain'.incoherent = s.incoherent /\ brain'.checkfail = s.checkfail /\ brain'.mismatch = s.mismatch
      /\ brain'.keepawake = s.keepawake /\ brain'.pending = s.pending
  BY <1>3, ActedFields DEF WholeTick
<1>6. RowE(v) => ~AwakeCond(v)
  BY DEF AwakeCond
<1> QED
  BY <1>2, <1>3, <1>4, <1>5, <1>6

\* The rows behind the tick.
LEMMA TickRows ==
  ASSUME AlertInv, NEW v, NEW m, NEW n, NEW s, NEW out, NEW lost, WholeTick(v, m, n, s, out, lost)
  PROVE  /\ "asleep" \in out <=> (RowAsleep(v) /\ AsleepDue(s))
         /\ \A k \in Kinds \ {"asleep"} :
              /\ IF k \in out THEN brain'.quiet[k] = Renotify
                 ELSE brain'.quiet[k] = 0 \/ (brain'.quiet[k] = Down(brain.quiet[k]) /\ k \notin Gone(brain, v))
              /\ k \in Alerts(s, v) => brain'.quiet[k] > 0
              /\ (StatusSeen(v) /\ k \in Paging(brain, v.report)) => brain'.quiet[k] > 0
<1> DEFINE j == Judged(n, v)
           jp == JudgedPages(n, v)
           due == Due(s, Alerts(s, v))
<1>1. brain \in Brains /\ v.report \in Reports /\ n \in Brains /\ s \in Brains /\ ViewShape(v)
  BY TickFields DEF AlertInv, AlertTyped, WholeTick, ViewShape
<1>2. /\ jp \subseteq Conditions
      /\ \A k \in Kinds :
           /\ IF k \in jp THEN j.quiet[k] = Renotify
              ELSE j.quiet[k] = 0 \/ (j.quiet[k] = Down(brain.quiet[k]) /\ (k = "asleep" \/ k \notin Gone(brain, v)))
           /\ (StatusSeen(v) /\ k \in Paging(brain, v.report)) => j.quiet[k] > 0
  <2>1. n = Reading(brain, v)
    BY DEF WholeTick
  <2> QED
    BY <1>1, <2>1, JudgedRows
<1>3. s.quiet = j.quiet
  BY <1>1, SettledFields DEF WholeTick
<1>4. \A k \in Kinds : brain'.quiet[k] = IF k \in due THEN Renotify ELSE s.quiet[k]
  BY <1>1, ActedFields DEF WholeTick
<1>5. out = jp \cup due \cup (IF RowAsleep(v) /\ AsleepDue(s) THEN {"asleep"} ELSE {}) \cup SeedPages(s, v, m)
  BY DEF WholeTick, ActedPages
<1>6. due \subseteq Incidents /\ SeedPages(s, v, m) \subseteq {"seedfail"} /\ "seedfail" \notin Kinds
  BY DEF Due, Alerts, SeedPages, Kinds, Incidents, Conditions
<1>7. "asleep" \notin Incidents /\ "asleep" \notin Conditions /\ "asleep" \notin {"seedfail"}
  BY DEF Incidents, Conditions
<1> HIDE DEF j, jp
<1>8. ASSUME NEW k \in Kinds, k \in Alerts(s, v) PROVE brain'.quiet[k] > 0
  <2>1. k \in due \/ s.quiet[k] # 0
    BY <1>8 DEF Due
  <2>2. s.quiet[k] \in Nat
    BY <1>1 DEF Brains
  <2> HIDE DEF due
  <2> QED
    BY <1>4, <2>1, <2>2, AlertAssumption
<1>9. due \subseteq Alerts(s, v)
  BY DEF Due
<1> HIDE DEF due
<1> QED
  BY <1>2, <1>3, <1>4, <1>5, <1>6, <1>7, <1>8, <1>9, AlertAssumption

\* What the tick neither raises nor failed to read has no window open behind it.
LEMMA RearmedRows ==
  ASSUME AlertInv, NEW v, NEW m, NEW n, NEW s, NEW out, NEW lost, WholeTick(v, m, n, s, out, lost),
         NEW k \in Incidents, k \notin Tokens(n, v), ObservedBy(k, v)
  PROVE  brain'.quiet[k] = 0
<1>1. /\ brain \in Brains /\ v.report \in Reports /\ n \in Brains /\ s \in Brains
      /\ n = Reading(brain, v) /\ s = Settled(n, v) /\ brain' = Acted(s, v, m)
      /\ n.checkfail = NowFailing(brain, v) /\ s.checkfail = NowFailing(brain, v)
  <2>1. n.checkfail = NowFailing(brain, v)
    BY ReadingFields DEF WholeTick, AlertInv, AlertTyped
  <2> QED
    BY <2>1, TickFields DEF AlertInv, AlertTyped, WholeTick, ViewShape
<1>2. k \in Kinds /\ k \notin Conditions
  BY DEF Kinds, Incidents, Conditions
<1>3. n.quiet[k] = 0
  BY <1>1, <1>2, ReadingFields
<1>4. k \notin JudgedPages(n, v)
  BY <1>2, PagingIsActive DEF JudgedPages, Due
<1>5. Judged(n, v).quiet[k] = 0
  BY <1>1, <1>2, <1>3, <1>4, JudgedFields DEF Over
<1>6. s.quiet[k] = 0
  BY <1>1, <1>5, SettledFields
<1>7. k \notin Due(s, Alerts(s, v))
  BY <1>1 DEF Due, Alerts, Tokens
<1> QED
  BY <1>1, <1>2, <1>6, <1>7, ActedFields

\* What a whole tick keeps of the timer of a sleeping box.
LEMMA SleepCounts ==
  ASSUME AlertInv, NEW v, NEW m, NEW n, NEW s, NEW out, NEW lost, WholeTick(v, m, n, s, out, lost),
         RowAsleep(v)
  PROVE  /\ brain'.asleep # Null /\ brain'.asleep.since \in Nat /\ Timer(s).since = brain'.asleep.since
         /\ brain'.asleep.next = IF AsleepDue(s) THEN Renotify ELSE Timer(s).next
         /\ IF OlderSleep(brain) = Null
            THEN /\ Timer(s).next = Null /\ brain'.asleep.since = 0 /\ owed["asleep"] = 0
            ELSE /\ brain.asleep # Null /\ Timer(s).next = Down(brain.asleep.next)
                 /\ brain'.asleep.since = UpTo(brain.asleep.since, AsleepAfter)
                 /\ brain.asleep.since \in Nat /\ brain.asleep.next \in Nat \cup {Null}
         /\ owed["asleep"] \in Nat
         /\ UpTo(owed["asleep"], AsleepAfter + 1) <= brain'.asleep.since + 1
<1>1. ~AwakeCond(v)
  BY DEF AwakeCond
<1>2. /\ s \in Brains /\ brain' \in Brains /\ s.asleep = OlderSleep(brain) /\ brain'.asleep = Slept(s).asleep
  BY <1>1, TickFields
<1>3. Slept(s).asleep = [since |-> Timer(s).since, next |-> IF AsleepDue(s) THEN Renotify ELSE Timer(s).next]
  BY <1>2 DEF Slept, Brains
<1>4. Timer(s) \in Sleeps
  BY <1>2, AlertAssumption DEF Timer, Sleeps, Brains
<1>5. /\ brain'.asleep.since = Timer(s).since /\ Timer(s).since \in Nat
      /\ brain'.asleep.next = IF AsleepDue(s) THEN Renotify ELSE Timer(s).next
  BY <1>2, <1>3, <1>4 DEF Sleeps
<1>6. brain'.asleep # Null
  <2>1. Slept(s).asleep \in Sleeps
    BY <1>3, <1>4, AlertAssumption DEF Sleeps
  <2> QED
    BY <1>2, <2>1, AlertAssumption DEF Sleeps
<1>7. owed["asleep"] \in Nat /\ (owed["asleep"] = 0 \/ (brain.asleep # Null /\ owed["asleep"] <= brain.asleep.since + 1))
  BY DEF AlertInv, AlertTyped, Waits, Kinds
<1>8. CASE OlderSleep(brain) = Null
  <2>1. Timer(s) = [since |-> 0, next |-> Null] /\ brain.asleep = Null
    BY <1>2, <1>8, TimerRuns DEF Timer
  <2>2. UpTo(0, AsleepAfter + 1) = 1
    BY AlertAssumption DEF UpTo
  <2> QED
    BY <1>5, <1>6, <1>7, <1>8, <2>1, <2>2
<1>9. CASE OlderSleep(brain) # Null
  <2>1. Timer(s) = OlderSleep(brain)
    BY <1>2, <1>9 DEF Timer
  <2>2. /\ brain.asleep # Null /\ OlderSleep(brain).next = Down(brain.asleep.next)
        /\ OlderSleep(brain).since = UpTo(brain.asleep.since, AsleepAfter)
        /\ brain.asleep.since \in Nat /\ brain.asleep.next \in Nat \cup {Null}
    BY <1>9, TimerRuns
  <2>3. owed["asleep"] <= brain.asleep.since + 1
    BY <1>7, <2>2
  <2>4. UpTo(owed["asleep"], AsleepAfter + 1) <= UpTo(brain.asleep.since, AsleepAfter) + 1
    BY <1>7, <2>2, <2>3, OlderCounts, AlertAssumption
  <2> QED
    BY <1>5, <1>6, <1>7, <1>9, <2>1, <2>2, <2>4
<1> QED
  BY <1>8, <1>9

LEMMA WholeTickKeeps ==
  ASSUME AlertInv, NEW v, NEW m, NEW n, NEW s, NEW out, NEW lost, WholeTick(v, m, n, s, out, lost)
  PROVE  AlertInv'
<1>1. /\ brain \in Brains /\ brain' \in Brains /\ n \in Brains /\ s \in Brains /\ ViewShape(v)
      /\ Books(Gone(brain, v), Present(brain, v), out, lost) /\ lost \subseteq out
  BY TickFields DEF AlertInv, AlertTyped, WholeTick
<1>2. /\ told' \in [Kinds -> Nat \cup {Null}] /\ owed' \in [Kinds -> Nat]
      /\ \A k \in Kinds :
           /\ told'[k] = IF k \in out \ lost THEN 0
                         ELSE IF k \in Gone(brain, v) \/ told[k] = Null THEN Null
                         ELSE UpTo(told[k], Renotify)
           /\ owed'[k] = IF k \in Present(brain, v) THEN UpTo(owed[k], Need[k]) ELSE 0
           /\ k \in missed' <=> (k \in lost \/ (k \in missed /\ k \notin out /\ k \notin Gone(brain, v)))
  BY <1>1, BooksFields DEF AlertInv
<1>3. {"both-dead", "cannot-converge", "duplicate", "keepawake", "asleep"} \subseteq Kinds
  BY DEF Kinds, Incidents, Conditions
<1>4. Need["both-dead"] = 2 /\ Need["cannot-converge"] = 4 /\ Need["asleep"] = AsleepAfter + 1
  BY <1>3 DEF Need
<1>5. Windows'
  BY <1>1, TickRows, WindowsKept
<1>6. RowAsleep(v) => "asleep" \notin Gone(brain, v)
  BY <1>1, SpellOver DEF AwakeCond
<1>7. Digest'
  <2>1. CASE "asleep" \in out
    <3>1. RowAsleep(v) /\ AsleepDue(s)
      BY <2>1, TickRows
    <3>2. brain'.asleep.next = Renotify
      BY <3>1, SleepCounts
    <3>3. "asleep" \in missed' \/ told'["asleep"] = 0
      BY <1>2, <1>3, <2>1
    <3> QED
      BY <3>2, <3>3, AlertAssumption DEF Digest
  <2>2. CASE "asleep" \notin out /\ RowAsleep(v)
    <3>1. ~AsleepDue(s)
      BY <2>2, TickRows
    <3>2. brain'.asleep.next = Null \/ (brain.asleep # Null /\ brain'.asleep.next = Down(brain.asleep.next))
      BY <2>2, <3>1, SleepCounts
    <3> QED
      BY <1>1, <1>6, <2>2, <3>2, DigestKept
  <2>3. CASE "asleep" \notin out /\ ~RowAsleep(v)
    <3>1. brain'.asleep = IF AwakeCond(v) THEN Null ELSE OlderSleep(brain)
      BY <2>3, TickFields
    <3>2. "asleep" \in Gone(brain, v) => brain'.asleep = Null
      BY <1>1, <3>1, SpellOver
    <3> QED
      BY <1>1, <2>3, <3>1, <3>2, TimerRuns, DigestKept
  <2> QED
    BY <2>1, <2>2, <2>3
<1>8. owed["both-dead"] \in Nat /\ owed["cannot-converge"] \in Nat /\ owed["keepawake"] \in Nat
  BY <1>3 DEF AlertInv, AlertTyped
<1>9. /\ brain.incoherent \in Nat /\ brain.checkfail \in Nat /\ brain.keepawake \in Nat
      /\ brain'.incoherent \in Nat /\ brain'.checkfail \in Nat
  BY <1>1 DEF Brains
<1>10. "both-dead" \in Present(brain, v) =>
         RowE(v) /\ brain'.incoherent = UpTo(brain.incoherent, 2) /\ s.incoherent = brain'.incoherent
                 /\ UpTo(owed["both-dead"], 2) <= UpTo(brain.incoherent, 2)
  BY <1>8, <1>9, PresentMeans, TickFields, OlderCounts DEF AlertInv, Waits
<1>11. "cannot-converge" \in Present(brain, v) =>
         CheckFails(v) /\ brain'.checkfail = UpTo(brain.checkfail, 4) /\ s.checkfail = brain'.checkfail
                       /\ UpTo(owed["cannot-converge"], 4) <= UpTo(brain.checkfail, 4)
  BY <1>8, <1>9, PresentMeans, TickFields, OlderCounts DEF AlertInv, Waits, NowFailing
<1>12. Waits'
  <2>1. owed'["both-dead"] <= brain'.incoherent
    BY <1>2, <1>3, <1>4, <1>9, <1>10
  <2>2. owed'["cannot-converge"] <= brain'.checkfail
    BY <1>2, <1>3, <1>4, <1>9, <1>11
  <2>3. owed'["keepawake"] <= brain'.keepawake
    <3>1. Present(brain, v) \cap Present(brain, v) = Present(brain, v)
      OBVIOUS
    <3>2. brain'.keepawake = IF ~StatusSeen(v) THEN brain.keepawake
                             ELSE IF v.report.keepawake THEN UpTo(brain.keepawake, 3) ELSE 0
      BY TickFields
    <3>3. Books(Gone(brain, v), Present(brain, v) \cap Present(brain, v), out, lost)
      BY <1>1, <3>1
    <3> QED
      BY <1>1, <3>2, <3>3, StreakCounts
  <2>4. owed'["asleep"] = 0 \/ (brain'.asleep # Null /\ owed'["asleep"] <= brain'.asleep.since + 1)
    <3>1. CASE "asleep" \in Present(brain, v)
      BY <1>2, <1>3, <1>4, <3>1, PresentMeans, SleepCounts
    <3>2. CASE "asleep" \notin Present(brain, v)
      BY <1>2, <1>3, <3>2
    <3> QED
      BY <3>1, <3>2
  <2> QED
    BY <2>1, <2>2, <2>3, <2>4 DEF Waits
<1>13. NothingSilenced'
  <2> SUFFICES ASSUME NEW k \in Kinds, owed'[k] >= Need[k], k \notin missed'
               PROVE  told'[k] # Null /\ told'[k] < Renotify
    BY DEF NothingSilenced
  <2>1. k \in Present(brain, v) /\ UpTo(owed[k], Need[k]) >= Need[k] /\ owed[k] \in Nat
    BY <1>2, NeedPositive DEF AlertInv, AlertTyped
  <2>2. CASE k \in out
    BY <1>2, <2>2, AlertAssumption
  <2>3. CASE k = "asleep" /\ k \notin out
    <3>1. RowAsleep(v) /\ ~AsleepDue(s)
      BY <2>1, <2>3, PresentMeans, TickRows
    <3>2. Timer(s).since >= AsleepAfter
      <4>1. UpTo(owed["asleep"], AsleepAfter + 1) >= AsleepAfter + 1
        BY <1>4, <2>1, <2>3
      <4>2. /\ UpTo(owed["asleep"], AsleepAfter + 1) <= brain'.asleep.since + 1
            /\ brain'.asleep.since \in Nat /\ Timer(s).since = brain'.asleep.since
        BY <3>1, SleepCounts
      <4>3. UpTo(owed["asleep"], AsleepAfter + 1) \in Nat
        <5>1. AsleepAfter + 1 \in Nat /\ owed["asleep"] \in Nat
          BY <2>1, <2>3, AlertAssumption
        <5> QED
          BY <5>1, Counting
      <4> QED
        BY <4>1, <4>2, <4>3, AlertAssumption
    <3>3. Timer(s).next # Null /\ Timer(s).next # 0
      BY <3>1, <3>2 DEF AsleepDue
    <3>4. /\ brain'.asleep.next = Timer(s).next /\ Timer(s).next = Down(brain.asleep.next)
          /\ brain.asleep.next \in Nat \cup {Null} /\ brain'.asleep # Null
      BY <3>1, <3>3, SleepCounts
    <3>5. brain'.asleep.next \in Nat
      BY <3>3, <3>4, Counting
    <3>6. told'["asleep"] # Null /\ told'["asleep"] + brain'.asleep.next <= Renotify
      BY <1>7, <2>3, <3>3, <3>4 DEF Digest
    <3>7. told'["asleep"] \in Nat
      BY <1>2, <1>3, <3>6
    <3> QED
      BY <2>3, <3>3, <3>4, <3>5, <3>6, <3>7, AlertAssumption
  <2>4. CASE k # "asleep" /\ k \notin out
    <3>1. k \in Alerts(s, v) \/ (StatusSeen(v) /\ k \in Paging(brain, v.report))
      <4>1. CASE k = "both-dead"
        <5>1. RowE(v) /\ s.incoherent >= 2
          <6>1. UpTo(owed["both-dead"], 2) \in Nat /\ UpTo(brain.incoherent, 2) \in Nat
            BY <1>8, <1>9, Counting
          <6> QED
            BY <1>4, <1>10, <2>1, <4>1, <6>1
        <5>2. s.incoherent \in Nat
          BY <1>1 DEF Brains
        <5> QED
          BY <4>1, <5>1, <5>2 DEF Alerts, Tokens, Incidents
      <4>2. CASE k = "cannot-converge"
        <5>1. CheckFails(v) /\ s.checkfail > 3
          <6>1. UpTo(owed["cannot-converge"], 4) \in Nat /\ UpTo(brain.checkfail, 4) \in Nat
            BY <1>8, <1>9, Counting
          <6> QED
            BY <1>4, <1>11, <2>1, <4>2, <6>1
        <5> QED
          BY <4>2, <5>1 DEF Alerts, Tokens, Incidents
      <4>3. CASE k = "duplicate"
        BY <2>1, <4>3, PresentMeans DEF Alerts, Tokens, Incidents
      <4>4. CASE k \in Conditions
        BY <1>1, <2>1, <4>4, ConditionIsPaged DEF AlertInv, Waits
      <4> QED
        BY <2>4, <4>1, <4>2, <4>3, <4>4 DEF Kinds, Incidents
    <3>2. brain'.quiet[k] > 0
      BY <2>4, <3>1, TickRows
    <3> QED
      BY <1>1, <1>2, <1>5, <2>4, <3>2, OpenIsTold
  <2> QED
    BY <2>2, <2>3, <2>4
<1>14. HealthyIsClean'
  <2> SUFFICES ASSUME label' = "healthy"
               PROVE  /\ brain'.asleep = Null /\ brain'.incoherent = 0 /\ brain'.checkfail = 0
                      /\ brain'.pending = 0 /\ ~brain'.mismatch
                      /\ \A k \in {"both-dead", "cannot-converge"} : brain'.quiet[k] = 0
    BY DEF HealthyIsClean
  <2>1. ~Banner(v) /\ ~RowE(v) /\ ~RowAsleep(v) /\ Known(v) /\ v.tunnel # "down" /\ ~CheckFails(v)
    BY DEF WholeTick, Label
  <2>2. v.check = "ok" /\ StatusSeen(v) /\ AwakeCond(v)
    BY <1>1, <2>1 DEF ViewShape, CheckFails, StatusSeen, AwakeCond
  <2>3. NowFailing(brain, v) = 0
    BY <2>1, <2>2 DEF NowFailing
  <2>4. "both-dead" \notin Tokens(n, v) /\ "cannot-converge" \notin Tokens(n, v)
    BY <2>1 DEF Tokens
  <2>5. \A k \in {"both-dead", "cannot-converge"} : k \in Incidents /\ k \notin Tokens(n, v) /\ ObservedBy(k, v)
    BY <2>2, <2>4 DEF Incidents, ObservedBy
  <2>6. \A k \in {"both-dead", "cannot-converge"} : brain'.quiet[k] = 0
    BY <2>5, RearmedRows
  <2> QED
    BY <2>1, <2>2, <2>3, <2>6, TickFields
<1> QED
  BY <1>1, <1>2, <1>5, <1>7, <1>12, <1>13, <1>14 DEF AlertInv, AlertTyped, AlertsTrue

LEMMA AlertInitially == Init => AlertInv
<1> SUFFICES ASSUME Init PROVE AlertInv
  OBVIOUS
<1>1. Quiescent
  BY DEF Init
<1>2. /\ brain \in Brains /\ brain.asleep = Null
      /\ \A k \in Kinds : brain.quiet[k] = 0
      /\ brain.incoherent = 0 /\ brain.checkfail = 0 /\ brain.keepawake = 0
  BY <1>1 DEF Quiescent, Brains
<1>3. told = [k \in Kinds |-> Null] /\ owed = [k \in Kinds |-> 0] /\ label = Null
  BY <1>1 DEF Quiescent
<1>4. {"both-dead", "cannot-converge", "keepawake", "asleep"} \subseteq Kinds
  BY DEF Kinds, Incidents, Conditions
<1>5. AlertTyped /\ Windows /\ Digest /\ Waits
  BY <1>2, <1>3, <1>4 DEF AlertTyped, Windows, Digest, Waits
<1>6. AlertsTrue
  BY <1>3, NeedPositive, AlertAssumption DEF AlertsTrue, NothingSilenced, HealthyIsClean
<1> QED
  BY <1>5, <1>6 DEF AlertInv

LEMMA AlertInductive == AlertInv /\ [Next]_vars => AlertInv'
<1> SUFFICES ASSUME AlertInv, [Next]_vars PROVE AlertInv'
  OBVIOUS
<1>1. CASE Tick
  BY <1>1, TickIsWhole, WholeTickKeeps
<1>2. CASE DiesReading
  BY <1>2, ReadingDies
<1>3. CASE DiesJudging
  BY <1>3, JudgingDies
<1>4. CASE UNCHANGED vars
  BY <1>4 DEF vars, AlertInv, AlertTyped, Windows, Digest, Waits, AlertsTrue, NothingSilenced, HealthyIsClean
<1> QED
  BY <1>1, <1>2, <1>3, <1>4 DEF Next

\* For any window, any wait and any number of killed ticks and lost pages: what
\* enough ticks in a row have seen is told of within the window, and a row that
\* says healthy stands on clean markers (reconcileOne, alertDue, alertClear).
THEOREM AlertsAreTrue == Spec => []AlertsTrue
<1>1. Init => AlertInv
  BY AlertInitially
<1>2. AlertInv /\ [Next]_vars => AlertInv'
  BY AlertInductive
<1>3. AlertInv => AlertsTrue
  BY DEF AlertInv
<1> QED
  BY <1>1, <1>2, <1>3, PTL DEF Spec
=============================================================================
