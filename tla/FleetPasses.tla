---------------------------- MODULE FleetPasses ----------------------------
(* The two passes a tick makes over the fleet behind its loop: the rollout of *)
(* boxup (the upgrade engine over the boxes the loop found drifted, canary    *)
(* first) and the push of the managed config.  A release may come between the *)
(* loop and the engine, a box may be gone or leased for a tick, a copy may    *)
(* fail, an installer may end long after the pass gave it up.                 *)
EXTENDS Integers, FiniteSets

CONSTANTS
  N,          \* the boxes, in target order, are 1..N
  Canary,     \* [rollout].canary
  Fixed,      \* the values of [fleet-brain].canary_box, 0 for none: the config pass chooses
  MaxTarget,  \* releases
  MaxMishaps   \* disturbed ticks, failed steps, edits, an operator's upgrade

Boxes == 1..N

ASSUME PassAssumption == N \in Nat \ {0} /\ Canary \in Boxes /\ Fixed \subseteq Boxes \cup {0}

VARIABLES
  nature,     \* what the first release, the boxes and the config are like
  target,     \* the release origin/main points at
  boxv,       \* per box, the release it runs
  landing,    \* per box, the release a detached installer is still putting on, or 0
  refused,    \* the boxes whose rendered managed.toml the validation refuses
  conf,       \* per box, whether it has the managed.toml wanted
  checkfail, cfgfail,
  pc, tick, pass, mishaps

pvars == <<nature, target, boxv, landing, refused, conf, checkfail, cfgfail, pc, tick, pass, mishaps>>
-----------------------------------------------------------------------------
Broken(r, b) == <<r, b>> \in nature.broken
Sick(b)      == Broken(boxv[b], b)
Count(n)     == IF n < 4 THEN n + 1 ELSE n

\* A disturbance is one of a bounded number.
Disturb(is) == mishaps + (IF is THEN 1 ELSE 0) <= MaxMishaps
               /\ mishaps' = mishaps + (IF is THEN 1 ELSE 0)

\* The version of a box whose check fails is read from a second probe.
ReadableHealthy(b) == ~Sick(b)
Readable(b) == ~(Sick(b) /\ nature.mute)

Idle   == [up |-> Boxes, leased |-> {}, drifted |-> {}]
NoPass == [tgt |-> 0, queue |-> {}, guard |-> 0, broke |-> {}, cli |-> FALSE]

\* The box a pass takes next: its canary (orderForApply), then in target order.
FirstAsGiven(queue, guard) == CHOOSE b \in queue : \A c \in queue : b <= c
First(queue, guard) ==
  IF guard \in queue THEN guard ELSE CHOOSE b \in queue : \A c \in queue : b <= c

\* The loop: every box is read, its failures counted, its drift taken down.
TickStart ==
  /\ pc = "idle" /\ pc' = "rollout"
  /\ \E up, leased \in SUBSET Boxes :
       /\ Disturb(up # Boxes \/ leased # {})
       /\ checkfail' = [b \in Boxes |-> IF b \notin up THEN checkfail[b]
                                        ELSE IF Sick(b) THEN Count(checkfail[b]) ELSE 0]
       /\ tick' = [up |-> up, leased |-> leased,
                   drifted |-> {b \in up \ leased : Readable(b) /\ boxv[b] # target}]
  /\ pass' = NoPass
  /\ UNCHANGED <<nature, target, boxv, landing, refused, conf, cfgfail>>

\* No drift, or the fixed canary is in use: no rollout in this tick.
NoRollout ==
  /\ pc = "rollout" /\ pc' = "config"
  /\ tick.drifted = {} \/ Canary \in tick.leased
  /\ UNCHANGED <<nature, target, boxv, landing, refused, conf, checkfail, cfgfail, tick, pass, mishaps>>
-----------------------------------------------------------------------------
(* The upgrade engine. *)

\* It resolves the target itself and probes each box again: in sync by the
\* version, and a version it cannot read is not in sync.  Its canary down
\* ends the pass before the first deploy.
Engine(bs, cli) ==
  \E down \in SUBSET bs :
    LET todo == {b \in bs \ down : ~(Readable(b) /\ boxv[b] = target)}
    IN  /\ Disturb(down # {} \/ cli)
        /\ pass' = [tgt |-> target, cli |-> cli, broke |-> {},
                    guard |-> IF Canary \in todo THEN Canary ELSE 0,
                    queue |-> IF Canary \in down THEN {} ELSE todo]

EngineStart ==
  /\ pc = "rollout" /\ pc' = "deploy"
  /\ tick.drifted # {} /\ Canary \notin tick.leased
  /\ Engine(tick.drifted, FALSE)
  /\ UNCHANGED <<nature, target, boxv, landing, refused, conf, checkfail, cfgfail, tick>>

\* grokfleet upgrade --all --apply, under the reconcile lock.
Upgrade ==
  /\ pc = "idle" /\ pc' = "deploy"
  /\ Engine(Boxes, TRUE)
  /\ UNCHANGED <<nature, target, boxv, landing, refused, conf, checkfail, cfgfail, tick>>

\* What is left of the pass once a box is done: the first failure ends it.
Rest(b, ok) == IF ok THEN pass.queue \ {b} ELSE {}

\* One box: copied, installed and verified (the DONE of the installer, then two
\* checks in a row that are well and of the target's sha).
Deploy ==
  /\ pc = "deploy" /\ pass.queue # {}
  /\ LET b == First(pass.queue, pass.guard)
     IN  \/ \* it lands, and is verified if it works
            /\ b \notin nature.stuck
            /\ boxv' = [boxv EXCEPT ![b] = pass.tgt]
            /\ pass' = [pass EXCEPT !.queue = Rest(b, ~Broken(pass.tgt, b)),
                                    !.broke = IF Broken(pass.tgt, b) THEN @ \cup {b} ELSE @]
            /\ UNCHANGED <<landing, mishaps>>
         \/ \* the copy or the install fails: nothing landed
            /\ Disturb(b \notin nature.stuck)
            /\ pass' = [pass EXCEPT !.queue = Rest(b, FALSE)]
            /\ UNCHANGED <<boxv, landing>>
         \/ \* no DONE in time: the pass is over, the installer is not
            /\ b \notin nature.stuck /\ Disturb(TRUE)
            /\ landing' = [landing EXCEPT ![b] = pass.tgt]
            /\ pass' = [pass EXCEPT !.queue = Rest(b, FALSE),
                                    !.broke = IF Broken(pass.tgt, b) THEN @ \cup {b} ELSE @]
            /\ UNCHANGED boxv
  /\ UNCHANGED <<nature, target, refused, conf, checkfail, cfgfail, pc, tick>>

Deployed ==
  /\ pc = "deploy" /\ pass.queue = {}
  /\ pc' = IF pass.cli THEN "idle" ELSE "config"
  /\ pass' = NoPass
  /\ UNCHANGED <<nature, target, boxv, landing, refused, conf, checkfail, cfgfail, tick, mishaps>>

Land ==
  /\ \E b \in Boxes :
       /\ landing[b] # 0
       /\ boxv' = [boxv EXCEPT ![b] = landing[b]]
       /\ landing' = [landing EXCEPT ![b] = 0]
  /\ UNCHANGED <<nature, target, refused, conf, checkfail, cfgfail, pc, tick, pass, mishaps>>
-----------------------------------------------------------------------------
(* The config pass. *)

\* Fixed, or the first box in the order that is up and not leased.
ConfigCanary ==
  LET free == tick.up \ tick.leased
  IN  IF nature.fixed # 0 THEN nature.fixed
      ELSE IF free = {} THEN 0 ELSE CHOOSE b \in free : \A c \in free : b <= c

Pushable(b) == b \in tick.up \ tick.leased /\ checkfail[b] <= 3

\* A canary that cannot be pushed to is passed over; a canary that is fixed and
\* leased takes the pass with it.
ToPushNoCanaryNoPass == IF Pushable(ConfigCanary) THEN {b \in Boxes : Pushable(b)} ELSE {}

ToPush ==
  IF nature.fixed # 0 /\ nature.fixed \in tick.leased THEN {} ELSE {b \in Boxes : Pushable(b)}

ConfigStart ==
  /\ pc = "config" /\ pc' = "push"
  /\ pass' = [NoPass EXCEPT !.queue = ToPush, !.guard = ConfigCanary]
  /\ UNCHANGED <<nature, target, boxv, landing, refused, conf, checkfail, cfgfail, tick, mishaps>>

\* rc 0 is in sync; rc 6 is ssh's own 255, whatever the box had done by then;
\* every other rc is a failure of the content, a call that ran out of time too.
PushRc(b) == IF b \in refused THEN {4} ELSE {0, 5, 6}

Push ==
  /\ pc = "push" /\ pass.queue # {}
  /\ LET b == First(pass.queue, pass.guard)
     IN  \E rc \in PushRc(b), lands \in BOOLEAN :
           /\ Disturb(rc \in {5, 6})
           /\ rc = 0 => lands
           /\ rc = 4 => ~lands
           /\ conf' = IF lands THEN [conf EXCEPT ![b] = TRUE] ELSE conf
           /\ cfgfail' = [cfgfail EXCEPT ![b] = CASE rc = 0 -> 0 [] rc = 6 -> @ [] OTHER -> Count(@)]
           /\ pass' = [pass EXCEPT !.queue = IF b = pass.guard /\ rc \notin {0, 6}
                                             THEN {} ELSE @ \ {b}]
  /\ UNCHANGED <<nature, target, boxv, landing, refused, checkfail, pc, tick>>

TickEnds ==
  /\ pc = "push" /\ pass.queue = {}
  /\ pc' = "idle" /\ tick' = Idle /\ pass' = NoPass
  /\ UNCHANGED <<nature, target, boxv, landing, refused, conf, checkfail, cfgfail, mishaps>>
-----------------------------------------------------------------------------
(* The world. *)

Release ==
  /\ target < MaxTarget /\ target' = target + 1
  /\ UNCHANGED <<nature, boxv, landing, refused, conf, checkfail, cfgfail, pc, tick, pass, mishaps>>

\* The operator edits fleet.toml or a box's own, well or badly.
Edit ==
  /\ Disturb(TRUE)
  /\ refused' \in {{}} \cup {{b} : b \in Boxes}
  /\ conf' = [b \in Boxes |-> FALSE]
  /\ UNCHANGED <<nature, target, boxv, landing, checkfail, cfgfail, pc, tick, pass>>

TickDies ==
  /\ pc # "idle" /\ Disturb(TRUE)
  /\ pc' = "idle" /\ tick' = Idle /\ pass' = NoPass
  /\ UNCHANGED <<nature, target, boxv, landing, refused, conf, checkfail, cfgfail>>

\* The first release may break any of the boxes; or one box takes no install.
Natures ==
  [broken : {({1} \X bs) : bs \in SUBSET Boxes}, stuck : {{}}, mute : BOOLEAN, fixed : Fixed]
  \cup [broken : {{}}, stuck : {{b} : b \in Boxes}, mute : {FALSE}, fixed : Fixed]

\* Between two ticks, with the boxes on release r.
AtRest(r) ==
  /\ target = 1 /\ refused = {} /\ pc = "idle" /\ tick = Idle /\ pass = NoPass /\ mishaps = 0
  /\ boxv = [b \in Boxes |-> r] /\ landing = [b \in Boxes |-> 0]
  /\ conf = [b \in Boxes |-> r = 1]
  /\ checkfail = [b \in Boxes |-> 0] /\ cfgfail = [b \in Boxes |-> 0]

PassInit == nature \in Natures /\ AtRest(0)

Brain == TickStart \/ NoRollout \/ EngineStart \/ Deploy \/ Deployed \/ ConfigStart \/ Push \/ TickEnds
PassNext == Brain \/ Land \/ Upgrade \/ Release \/ Edit \/ TickDies
PassSpec == PassInit /\ [][PassNext]_pvars /\ WF_pvars(Brain) /\ WF_pvars(Land)
-----------------------------------------------------------------------------
\* A pass breaks one box at most, and a release that breaks the canary breaks
\* no other box in a pass that has the canary to upgrade.  (In one pass: a
\* canary that runs the broken release is not drifted, and the next pass goes
\* without it.)
OnePassOneBreak ==
  /\ Cardinality(pass.broke) <= 1
  /\ pc = "deploy" /\ pass.guard = Canary /\ Broken(pass.tgt, Canary) => pass.broke \subseteq {Canary}

\* What keeps a release from a box for good: the box takes no install, a box in
\* front of it takes none and every pass ends there, or nobody can read its version.
Held(b) ==
  \/ \E c \in nature.stuck : c = Canary \/ c = b \/ (c < b /\ b # Canary)
  \/ Sick(b) /\ nature.mute

\* Every other box ends up on the last release.
RolledOut == \A b \in Boxes : <>[](boxv[b] = target \/ Held(b))

\* What keeps a managed.toml from a box for good: it is refused, the canary's
\* is and every pass ends there, or the box's check fails and nothing is pushed.
Withheld(b) ==
  LET guard == IF nature.fixed # 0 THEN nature.fixed ELSE 1
  IN  \/ b \in refused \/ checkfail[b] > 3
      \/ guard \in refused /\ checkfail[guard] <= 3

\* Every other box ends up with what the operator wrote last.
ConfigArrives == \A b \in Boxes : <>[](conf[b] \/ Withheld(b))
=============================================================================
