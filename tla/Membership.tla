------------------------------ MODULE Membership ------------------------------
(***************************************************************************)
(* Membership of one index of the fleet, under its two names: the enrol    *)
(* saga (src/fleet/src/commands/enroll.ts, enroll-wiring.ts) run by the    *)
(* operator or by the tick's adopt, resume and repair passes               *)
(* (reconcile/discover.ts, discover-wiring.ts), `retire' and `rename', over *)
(* the store's box row (store/state.ts), the VPS's authorized_keys and map *)
(* and the box itself.                                                     *)
(*                                                                         *)
(* Old and New are the two spellings of one index, hence of one port.      *)
(* `retire' and `rename' wait for the reconcile lock and let it go at once *)
(* (a probe); the operator's `enroll' never asks for it.  With Disturbed,   *)
(* other programs start while they run, as the probe lets them; without it *)
(* they end first, as they do between two ticks of the timer.              *)
(*                                                                         *)
(* A failed stage, a killed program and a re-image are faults, at most     *)
(* MaxFaults of them.  Failure streaks and backoff are in Discover.        *)
(***************************************************************************)
EXTENDS Naturals, FiniteSets

CONSTANTS Old, New,    \* the two names
          Keys,        \* tunnel keypairs the box may generate
          MaxFaults,
          Disturbed    \* programs start beside a running retire or rename

ASSUME MembershipAssumption ==
  Old # New /\ MaxFaults \in Nat /\ Disturbed \in BOOLEAN /\ Keys # {}

VARIABLES rows,     \* name -> its row of `boxes', or NoRow
          lines,    \* keys with an authorized_keys line for the port
          map,      \* <<name, key>> rows of authorized-keys.map
          machine,  \* the box
          sagas,    \* who runs an enrol saga -> where it is
          tick,     \* the tick: the membership it read, its mutation slot
          retire, rename,
          faults

vars == <<rows, lines, map, machine, sagas, tick, retire, rename, faults>>

Names == {Old, New}
Stages == 5
NoRow == [phase |-> "none"]
Idle == [at |-> "idle"]
Actors == {"tick", "cli"}

Phase(n) == rows[n].phase
InPhase(p) == {n \in Names : Phase(n) = p}
Row(phase, stage, key) == [phase |-> phase, stage |-> stage, key |-> key]
Saga(n, first, config) ==
  [at |-> "stage", box |-> n, key |-> machine.key, next |-> first, config |-> config]

RowSet == {NoRow} \cup
  [phase : {"enrolling", "enrolled", "retired"}, stage : 0 .. Stages, key : Keys]
SagaSet == {Idle} \cup
  [at : {"stage"}, box : Names, key : Keys, next : 1 .. Stages, config : BOOLEAN]

\* The box answers its tailnet name and nothing else.
Reachable(n) == machine.name = n
\* What the row's export writes: every enrolled row with its key.
Exported(rs) == {<<n, rs[n].key>> : n \in {m \in Names : rs[m].phase = "enrolled"}}
\* Mutant: a line for the port is enough, whatever its key.
CoherentByPresence(n) == lines # {} /\ (\E k \in Keys : <<n, k>> \in map) /\ machine.fleet
\* The three content checks of `inspect'.
LineCoherent == lines = {machine.key}
MapCoherent(n) == {r \in map : r[1] = n} = {<<n, machine.key>>}
BlockCoherent == machine.fleet
Coherent(n) == LineCoherent /\ MapCoherent(n) /\ BlockCoherent

Init ==
  /\ rows = [n \in Names |-> NoRow]
  /\ lines = {} /\ map = {}
  /\ \E k \in Keys : machine = [name |-> Old, key |-> k, vpsKey |-> FALSE,
                                fleet |-> FALSE, up |-> FALSE]
  /\ sagas = [a \in Actors |-> Idle]
  /\ tick = Idle /\ retire = Idle /\ rename = Idle
  /\ faults = 0

Undisturbed == Disturbed \/ (retire = Idle /\ rename = Idle)
\* What `retire' and `rename' wait for.
LockFree == tick = Idle /\ (Disturbed \/ sagas["cli"] = Idle)

-----------------------------------------------------------------------------
(* The enrol saga.                                                          *)

\* beginEnrol: a new or retired row is enrolling from stage 0; an enrolled row
\* keeps its phase, an enrolling row its stage, whatever their keys.
Opened(row) == IF row.phase \in {"none", "retired"} THEN Row("enrolling", 0, machine.key)
               ELSE [row EXCEPT !.key = machine.key]
FirstStage(row) == IF row.phase = "enrolling" THEN row.stage + 1 ELSE 1

\* The prechecks and the read of the box's key write nothing.
BeginEnrol(a, n, config) ==
  /\ sagas[a] = Idle /\ Reachable(n)
  /\ rows' = [rows EXCEPT ![n] = Opened(@)]
  /\ map' = IF rows[n].phase = "retired" THEN Exported(rows') ELSE map
  /\ sagas' = [sagas EXCEPT ![a] = Saga(n, FirstStage(rows[n]), config)]

\* advanceStage: a row deleted meanwhile is left alone.
Advance(n, stage) ==
  rows' = IF rows[n] = NoRow THEN rows ELSE [rows EXCEPT ![n].stage = stage]
Goto(a, stage) == sagas' = [sagas EXCEPT ![a].next = stage]

AtStage(a, i) == sagas[a] # Idle /\ sagas[a].next = i

\* The line of this port, or of this key, is replaced by the new one; so is the
\* row of this box, or of this port, in the map.
OneLine(key) == {key}
OneRow(n, key) == {<<n, key>>}
Configured(m) == [m EXCEPT !.fleet = TRUE]

\* Stage 1: the fleet user's authorized_keys.
InstallLine(a) ==
  /\ AtStage(a, 1)
  /\ lines' = OneLine(sagas[a].key)
  /\ Advance(sagas[a].box, 1) /\ Goto(a, 2)
  /\ UNCHANGED <<map, machine, tick, retire, rename, faults>>

\* Stage 2: the audit copy.  Its failure is a warning and the saga goes on.
RecordMapping(a) ==
  LET s == sagas[a] IN
  /\ AtStage(a, 2)
  /\ \/ map' = OneRow(s.box, s.key) /\ faults' = faults
     \/ faults < MaxFaults /\ faults' = faults + 1 /\ map' = map
  /\ Advance(s.box, 2) /\ Goto(a, 3)
  /\ UNCHANGED <<lines, machine, tick, retire, rename>>

\* Stage 3: the VPS's own key into the box's authorized_keys.
InstallBoxKey(a) ==
  /\ AtStage(a, 3) /\ Reachable(sagas[a].box)
  /\ machine' = [machine EXCEPT !.vpsKey = TRUE]
  /\ Advance(sagas[a].box, 3) /\ Goto(a, 4)
  /\ UNCHANGED <<lines, map, tick, retire, rename, faults>>

\* Stage 4: the [fleet] block, unless --no-box-config.
WriteConfig(a) ==
  LET s == sagas[a] IN
  /\ AtStage(a, 4)
  /\ IF s.config
     THEN Reachable(s.box) /\ machine' = Configured(machine) /\ Advance(s.box, 4)
     ELSE UNCHANGED <<machine, rows>>
  /\ Goto(a, 5)
  /\ UNCHANGED <<lines, map, tick, retire, rename, faults>>

\* Stage 5: recordEnrolled inserts the row or makes it enrolled, whatever it
\* has become since the saga began, and exports the membership.
RecordEnrolled(a) ==
  LET s == sagas[a] IN
  /\ AtStage(a, 5)
  /\ rows' = [rows EXCEPT ![s.box] = Row("enrolled", Stages, s.key)]
  /\ map' = Exported(rows')
  /\ sagas' = [sagas EXCEPT ![a] = Idle]
  /\ UNCHANGED <<lines, machine, tick, retire, rename, faults>>

\* A stage fails, runs into its abort point, or its program is killed.
Abandon(a) ==
  LET s == sagas[a] IN
  /\ s # Idle
  /\ \/ s.next \in {3, 4} /\ ~Reachable(s.box) /\ faults' = faults
     \/ faults < MaxFaults /\ faults' = faults + 1
  /\ sagas' = [sagas EXCEPT ![a] = Idle]
  /\ UNCHANGED <<rows, lines, map, machine, tick, retire, rename>>

SagaStep(a) == \/ InstallLine(a) \/ RecordMapping(a) \/ InstallBoxKey(a)
               \/ WriteConfig(a) \/ RecordEnrolled(a)

EnrollByHand(n) ==
  /\ Undisturbed
  /\ \E config \in BOOLEAN : BeginEnrol("cli", n, config)
  /\ UNCHANGED <<lines, machine, tick, retire, rename, faults>>

-----------------------------------------------------------------------------
(* The tick: membership is read once, and at most one saga runs.            *)

TickStart ==
  /\ tick = Idle /\ Undisturbed
  /\ tick' = [at |-> "pass", slot |-> TRUE, seen |-> InPhase("enrolled"),
              excluded |-> InPhase("enrolling") \cup InPhase("retired")]
  /\ UNCHANGED <<rows, lines, map, machine, sagas, retire, rename, faults>>

\* Mutants: a parked name is a candidate; a resume looks for its row among the members.
MayAdoptParked(n) == tick.seen = {}
MayResumeMembers(n) == n \in tick.seen /\ Phase(n) = "enrolling"
\* selectCandidates: not a member, not excluded, its index held by no member.
MayAdopt(n) == n \notin tick.excluded /\ tick.seen = {}
\* The resume pass reads the enrolling rows when it runs.
MayResume(n) == Phase(n) = "enrolling"
\* A member whose tunnel is down and whose artefacts disagree.
MayRepair(n) == n \in tick.seen /\ ~machine.up /\ ~Coherent(n)

TickEnrols(n) ==
  /\ tick # Idle /\ tick.slot
  /\ MayAdopt(n) \/ MayResume(n) \/ MayRepair(n)
  /\ BeginEnrol("tick", n, TRUE)
  /\ tick' = [tick EXCEPT !.slot = FALSE]
  /\ UNCHANGED <<lines, machine, retire, rename, faults>>

TickEnd ==
  /\ tick # Idle /\ sagas["tick"] = Idle
  /\ tick' = Idle
  /\ UNCHANGED <<rows, lines, map, machine, sagas, retire, rename, faults>>

-----------------------------------------------------------------------------
(* retire.                                                                  *)

\* Mutant: a row that is still enrolling is taken to have no line yet.
RetireStartUntrusted(n, forget) ==
  /\ retire = Idle /\ Undisturbed /\ LockFree
  /\ rows[n] # NoRow /\ (Phase(n) = "retired" => forget)
  /\ retire' = [at |-> IF Phase(n) = "enrolling" THEN "store" ELSE "lines", box |-> n,
                phase |-> Phase(n), key |-> rows[n].key, forget |-> forget]
  /\ UNCHANGED <<rows, lines, map, machine, sagas, tick, rename, faults>>
\* The row is read, then the lock waited for.
RetireStart(n, forget) ==
  /\ retire = Idle /\ Undisturbed /\ LockFree
  /\ rows[n] # NoRow /\ (Phase(n) = "retired" => forget)
  /\ retire' = [at |-> "lines", box |-> n, phase |-> Phase(n), key |-> rows[n].key,
                forget |-> forget]
  /\ UNCHANGED <<rows, lines, map, machine, sagas, tick, rename, faults>>

\* Every line of the port goes, and the /etc copy; the Tailscale key is then
\* revoked over the network.
RetireLines ==
  /\ retire.at = "lines"
  /\ lines' = {}
  /\ retire' = [retire EXCEPT !.at = "store"]
  /\ UNCHANGED <<rows, map, machine, sagas, tick, rename, faults>>

\* --forget deletes the row; otherwise the transition refuses a row whose phase
\* is no longer the one that was read.
RetireStore ==
  LET n == retire.box IN
  /\ retire.at = "store"
  /\ rows' = IF retire.forget THEN [rows EXCEPT ![n] = NoRow]
             ELSE IF Phase(n) = retire.phase THEN [rows EXCEPT ![n].phase = "retired"]
             ELSE rows
  /\ map' = IF rows' = rows THEN map ELSE Exported(rows')
  /\ retire' = Idle
  /\ UNCHANGED <<lines, machine, sagas, tick, rename, faults>>

-----------------------------------------------------------------------------
(* rename Old to New: copy first, delete last.                              *)

\* enrolledPort answers for a row in any phase.
RenameStart ==
  /\ rename = Idle /\ Undisturbed /\ LockFree
  /\ rows[Old] # NoRow /\ machine.up
  /\ rename' = [at |-> "copy"]
  /\ UNCHANGED <<rows, lines, map, machine, sagas, tick, retire, faults>>

RenameCopy ==
  /\ rename.at = "copy" /\ rows[Old] # NoRow
  /\ rows' = [rows EXCEPT ![New] = Row("enrolled", Stages, rows[Old].key)]
  /\ map' = Exported(rows')
  /\ rename' = [at |-> "name"]
  /\ UNCHANGED <<lines, machine, sagas, tick, retire, faults>>

\* The hostname is written over the tunnel, and the control plane follows.
RenameBox ==
  /\ rename.at = "name" /\ machine.up
  /\ machine' = [machine EXCEPT !.name = New]
  /\ rename' = [at |-> "verify"]
  /\ UNCHANGED <<rows, lines, map, sagas, tick, retire, faults>>

\* Mutant: the old name goes before the box has taken the new one.
RenameDeleteEarly ==
  /\ rename.at = "name" /\ machine.up
  /\ rows' = [rows EXCEPT ![Old] = NoRow]
  /\ map' = IF rows[Old] = NoRow THEN map ELSE Exported(rows')
  /\ rename' = Idle
  /\ UNCHANGED <<lines, machine, sagas, tick, retire, faults>>
RenameDelete ==
  /\ rename.at = "verify" /\ machine.name = New /\ machine.up
  /\ rows' = [rows EXCEPT ![Old] = NoRow]
  /\ map' = IF rows[Old] = NoRow THEN map ELSE Exported(rows')
  /\ rename' = Idle
  /\ UNCHANGED <<lines, machine, sagas, tick, retire, faults>>

\* retire or rename is killed, or gives up on an answer; nothing is undone.
GiveUp ==
  /\ \/ retire # Idle /\ retire' = Idle /\ UNCHANGED rename
     \/ rename # Idle /\ rename' = Idle /\ UNCHANGED retire
  /\ faults < MaxFaults /\ faults' = faults + 1
  /\ UNCHANGED <<rows, lines, map, machine, sagas, tick>>

\* A rename that can no longer go on: no row to copy, or the tunnel is down.
RenameAborts ==
  /\ \/ rename.at = "copy" /\ rows[Old] = NoRow
     \/ rename.at \in {"name", "verify"} /\ ~machine.up
  /\ rename' = Idle
  /\ UNCHANGED <<rows, lines, map, machine, sagas, tick, retire, faults>>

-----------------------------------------------------------------------------
(* The box.                                                                 *)

\* A re-image: boxup generates a new keypair and nothing of the saga is left.
Reimage ==
  /\ faults < MaxFaults /\ faults' = faults + 1
  /\ \E k \in Keys \ {machine.key} :
       machine' = [machine EXCEPT !.key = k, !.vpsKey = FALSE, !.fleet = FALSE, !.up = FALSE]
  /\ UNCHANGED <<rows, lines, map, sagas, tick, retire, rename>>

Dial ==
  /\ ~machine.up /\ machine.fleet /\ machine.key \in lines
  /\ machine' = [machine EXCEPT !.up = TRUE]
  /\ UNCHANGED <<rows, lines, map, sagas, tick, retire, rename, faults>>

\* A tunnel lives on after its line is removed, until it drops.
TunnelDrops ==
  /\ machine.up
  /\ machine' = [machine EXCEPT !.up = FALSE]
  /\ UNCHANGED <<rows, lines, map, sagas, tick, retire, rename, faults>>

-----------------------------------------------------------------------------
Next == \/ \E a \in Actors : SagaStep(a) \/ Abandon(a)
        \/ \E n \in Names : EnrollByHand(n) \/ TickEnrols(n)
        \/ \E n \in Names, forget \in BOOLEAN : RetireStart(n, forget)
        \/ TickStart \/ TickEnd \/ RetireLines \/ RetireStore
        \/ RenameStart \/ RenameCopy \/ RenameBox \/ RenameDelete \/ RenameAborts
        \/ GiveUp \/ Reimage \/ Dial \/ TunnelDrops

Spec == Init /\ [][Next]_vars

\* A started program ends (its waits are bounded), the timer fires ticks and a
\* box dials until it is answered.  That every due name gets the tick's slot in
\* the end is what Discover shows; here it is fairness of TickEnrols.
Fairness == /\ \A a \in Actors : WF_vars(SagaStep(a) \/ Abandon(a))
            /\ \A n \in Names : SF_vars(TickEnrols(n))
            /\ SF_vars(TickStart) /\ WF_vars(TickEnd)
            /\ WF_vars(RetireLines \/ RetireStore)
            /\ WF_vars(RenameCopy \/ RenameBox \/ RenameDelete \/ RenameAborts)
            /\ WF_vars(Dial)

FairSpec == Spec /\ Fairness

-----------------------------------------------------------------------------
(* Properties.                                                              *)

\* Types.
TypeOK ==
  /\ rows \in [Names -> RowSet]
  /\ lines \subseteq Keys /\ map \subseteq Names \X Keys
  /\ machine \in [name : Names, key : Keys, vpsKey : BOOLEAN, fleet : BOOLEAN, up : BOOLEAN]
  /\ sagas \in [Actors -> SagaSet]
  /\ tick \in {Idle} \cup [at : {"pass"}, slot : BOOLEAN, seen : SUBSET Names,
                           excluded : SUBSET Names]
  /\ retire \in {Idle} \cup [at : {"lines", "store"}, box : Names, forget : BOOLEAN,
                             phase : {"enrolling", "enrolled", "retired"}, key : Keys]
  /\ rename \in {Idle} \cup [at : {"copy", "name", "verify"}]
  /\ faults \in 0 .. MaxFaults

\* A retired box's key opens nothing: the line
\* goes before the row says `retired', and no kill, failed stage or re-image
\* leaves the one without the other (commands/retire.ts's order of writes).
RetiredIsUntrusted ==
  (Phase(Old) \in {"none", "retired"} /\ Phase(New) \in {"none", "retired"})
    => lines = {}

\* No tick brings a retired row back; an operator's enrolment or rename does.
\* Discovery drops the names the store holds as retired, and a tick that lost
\* them would adopt the parked box again five minutes later (discover.ts).
OnlyOperatorsRevive ==
  [][\A n \in Names : (Phase(n) = "retired" /\ Phase(n)' \in {"enrolling", "enrolled"})
        => rename.at = "copy" \/ (sagas'["cli"] # Idle /\ sagas'["cli"].box = n)]_vars

\* A rename may stop anywhere, and the box still answers
\* to a member's name (commands/rename.ts: copy first, delete last).
RenameKeepsMember ==
  [][(rename # Idle /\ Phase(machine.name) = "enrolled")
        => rows'[machine'.name].phase = "enrolled"]_vars

\* An enrolling row of a box that answers does not stay enrolling: it is
\* resumed until it is enrolled, or an operator retires it.
EnrollingSettles ==
  \A n \in Names : Phase(n) = "enrolling" ~> (Phase(n) # "enrolling" \/ ~Reachable(n))

\* A member whose tunnel is down dials again: whatever a re-image, a killed
\* enrolment, a retirement or a rename left behind, repair puts the line, the
\* map and the [fleet] block together again.
MemberDialsAgain ==
  \A n \in Names : (Phase(n) = "enrolled" /\ ~machine.up)
                      ~> (machine.up \/ Phase(n) # "enrolled" \/ ~Reachable(n))

=============================================================================
