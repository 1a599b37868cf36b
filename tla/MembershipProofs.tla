--------------------------- MODULE MembershipProofs ---------------------------
(***************************************************************************)
(* For any keys and faults, when other programs end before a retire or a   *)
(* rename begins: a retired box is trusted by no line, no tick revives it, *)
(* and a rename never leaves the box without a member's row.               *)
(***************************************************************************)
EXTENDS Membership, TLAPS

Running(a) == sagas[a] # Idle

\* The probe of the reconcile lock, and that nothing starts beside the two.
Alone ==
  /\ retire # Idle => rename = Idle
  /\ retire # Idle \/ rename # Idle => tick = Idle /\ \A a \in Actors : ~Running(a)
  /\ tick = Idle => ~Running("tick")

\* A saga's row is there and not retired: only a retire would make it so.
RowOpen == \A a \in Actors : Running(a) => Phase(sagas[a].box) \in {"enrolling", "enrolled"}

\* What was retired when the tick read the membership is all that is retired.
ParkedExcluded ==
  tick # Idle => \A n \in Names : Phase(n) = "retired" => n \in tick.excluded /\ n \notin tick.seen

\* A row that is enrolling has a stage left to resume at.
StageLeft == \A n \in Names : rows[n].phase = "enrolling" => rows[n].stage < Stages

LinesGone == retire # Idle /\ retire.at = "store" => lines = {}
CopyMade == rename # Idle /\ rename.at \in {"name", "verify"} => Phase(New) = "enrolled"
BoxRenamed == rename # Idle /\ rename.at = "verify" => machine.name = New

MemberInv ==
  /\ TypeOK /\ Alone /\ RowOpen /\ ParkedExcluded /\ StageLeft
  /\ LinesGone /\ CopyMade /\ BoxRenamed /\ RetiredIsUntrusted
-----------------------------------------------------------------------------
RowsOf == [phase : {"enrolling", "enrolled", "retired"}, stage : 0 .. Stages, key : Keys]
Machines == [name : Names, key : Keys, vpsKey : BOOLEAN, fleet : BOOLEAN, up : BOOLEAN]
RunningSagas == [at : {"stage"}, box : Names, key : Keys, next : 1 .. Stages, config : BOOLEAN]
Ticks == [at : {"pass"}, slot : BOOLEAN, seen : SUBSET Names, excluded : SUBSET Names]
Retires == [at : {"lines", "store"}, box : Names, forget : BOOLEAN,
            phase : {"enrolling", "enrolled", "retired"}, key : Keys]
Renames == [at : {"copy", "name", "verify"}]

LEMMA Types ==
  TypeOK <=> /\ rows \in [Names -> RowsOf \cup {NoRow}]
             /\ lines \subseteq Keys /\ map \subseteq Names \X Keys /\ machine \in Machines
             /\ sagas \in [Actors -> RunningSagas \cup {Idle}] /\ tick \in Ticks \cup {Idle}
             /\ retire \in Retires \cup {Idle} /\ rename \in Renames \cup {Idle}
             /\ faults \in 0 .. MaxFaults
BY DEF TypeOK, RowSet, SagaSet, RowsOf, Machines, RunningSagas, Ticks, Retires, Renames

LEMMA TypesNext ==
  TypeOK' <=> /\ rows' \in [Names -> RowsOf \cup {NoRow}]
              /\ lines' \subseteq Keys /\ map' \subseteq Names \X Keys /\ machine' \in Machines
              /\ sagas' \in [Actors -> RunningSagas \cup {Idle}] /\ tick' \in Ticks \cup {Idle}
              /\ retire' \in Retires \cup {Idle} /\ rename' \in Renames \cup {Idle}
              /\ faults' \in 0 .. MaxFaults
BY DEF TypeOK, RowSet, SagaSet, RowsOf, Machines, RunningSagas, Ticks, Retires, Renames

LEMMA RowKinds ==
  /\ \A r \in RowsOf : r # NoRow /\ r.phase \in {"enrolling", "enrolled", "retired"} /\ r.key \in Keys
  /\ NoRow.phase = "none" /\ NoRow \notin RowsOf
BY DEF RowsOf, NoRow

LEMMA RowMade ==
  ASSUME NEW p \in {"enrolling", "enrolled", "retired"}, NEW i \in 0 .. Stages, NEW k \in Keys
  PROVE Row(p, i, k) \in RowsOf /\ Row(p, i, k).phase = p
BY DEF Row, RowsOf

LEMMA RowSteps ==
  ASSUME NEW r \in RowsOf, NEW i \in 0 .. Stages, NEW k \in Keys
  PROVE /\ [r EXCEPT !.stage = i] \in RowsOf /\ [r EXCEPT !.stage = i].phase = r.phase
        /\ [r EXCEPT !.key = k] \in RowsOf /\ [r EXCEPT !.key = k].phase = r.phase
        /\ [r EXCEPT !.phase = "retired"] \in RowsOf /\ [r EXCEPT !.phase = "retired"].phase = "retired"
BY DEF RowsOf

LEMMA SagaKinds ==
  /\ \A s \in RunningSagas : s # Idle /\ s.box \in Names /\ s.key \in Keys /\ s.next \in 1 .. Stages
  /\ \A s \in RunningSagas, i \in 1 .. Stages :
       [s EXCEPT !.next = i] \in RunningSagas /\ [s EXCEPT !.next = i].box = s.box
BY DEF RunningSagas, Idle

LEMMA OtherKinds ==
  /\ \A t \in Ticks : t # Idle
  /\ \A r \in Retires : r # Idle /\ r.box \in Names
  /\ \A r \in Renames : r # Idle
BY DEF Ticks, Retires, Renames, Idle

LEMMA ExportTyped ==
  ASSUME NEW rs \in [Names -> RowsOf \cup {NoRow}]
  PROVE Exported(rs) \subseteq Names \X Keys
<1> SUFFICES ASSUME NEW n \in Names, rs[n].phase = "enrolled" PROVE rs[n].key \in Keys
  BY DEF Exported
<1> QED BY RowKinds
-----------------------------------------------------------------------------
(* The steps of a saga, of the box, and of the tick within its pass: a row *)
(* is opened, never closed, and only while nobody retires or renames.      *)

IsOpen(p) == p \in {"enrolling", "enrolled"}
Quiet == retire = Idle /\ rename = Idle

Opens ==
  /\ UNCHANGED <<retire, rename>> /\ machine'.name = machine.name
  /\ tick' = Idle <=> tick = Idle
  /\ tick # Idle => tick'.seen = tick.seen /\ tick'.excluded = tick.excluded
  /\ \A n \in Names : rows'[n].phase = rows[n].phase \/ (IsOpen(rows'[n].phase) /\ Quiet)
  /\ \A n \in Names : rows'[n].phase = "enrolling" => rows'[n].stage < Stages
  /\ \A a \in Actors : sagas'[a] # Idle =>
       \/ Running(a) /\ sagas'[a].box = sagas[a].box
       \/ /\ sagas'[a].box \in Names /\ IsOpen(rows'[sagas'[a].box].phase)
          /\ Quiet /\ (a = "tick" => tick # Idle)
  /\ lines' = lines \/ \E a \in Actors : Running(a)

LEMMA OpensKeeps == MemberInv /\ TypeOK' /\ Opens => MemberInv'
<1> SUFFICES ASSUME MemberInv, TypeOK', Opens PROVE MemberInv'
  OBVIOUS
<1> USE DEF MemberInv, Opens
<1>1. \A a \in Actors : Running(a) => sagas[a].box \in Names
  BY Types, SagaKinds DEF Running
<1>2. Alone'
  BY DEF Alone, Running, Quiet, Actors
<1>3. RowOpen'
  BY <1>1 DEF RowOpen, Running, Phase, IsOpen
<1>4. ParkedExcluded'
  BY DEF ParkedExcluded, Phase, IsOpen
<1>7. StageLeft'
  BY DEF StageLeft
<1>5. LinesGone' /\ CopyMade' /\ BoxRenamed'
  <2>1. retire # Idle \/ rename # Idle => lines' = lines /\ \A n \in Names : rows'[n].phase = rows[n].phase
    BY DEF Alone, Quiet
  <2> QED BY <2>1 DEF LinesGone, CopyMade, BoxRenamed, Phase, Names
<1>6. RetiredIsUntrusted'
  <2> SUFFICES ASSUME \A n \in Names : rows'[n].phase \in {"none", "retired"} PROVE lines' = {}
    BY DEF RetiredIsUntrusted, Phase, Names
  <2>1. \A n \in Names : rows[n].phase \in {"none", "retired"}
    BY DEF IsOpen
  <2>2. \A a \in Actors : ~Running(a)
    BY <1>1, <2>1 DEF RowOpen, Phase
  <2> QED BY <2>1, <2>2 DEF RetiredIsUntrusted, Phase, Names
<1> QED BY <1>2, <1>3, <1>4, <1>5, <1>6, <1>7

\* A stage's row keeps its phase.
LEMMA AdvanceKeeps ==
  ASSUME TypeOK, NEW n \in Names, NEW i \in 0 .. Stages, i < Stages, StageLeft, Advance(n, i)
  PROVE /\ rows' \in [Names -> RowsOf \cup {NoRow}]
        /\ \A m \in Names : rows'[m].phase = rows[m].phase
        /\ \A m \in Names : rows'[m].phase = "enrolling" => rows'[m].stage < Stages
<1>1. CASE rows[n] = NoRow
  BY <1>1, Types DEF Advance, StageLeft
<1>2. CASE rows[n] # NoRow
  <2>1. rows[n] \in RowsOf /\ rows' = [rows EXCEPT ![n] = [rows[n] EXCEPT !.stage = i]]
    BY <1>2, Types DEF Advance
  <2>2. /\ [rows[n] EXCEPT !.stage = i] \in RowsOf /\ [rows[n] EXCEPT !.stage = i].phase = rows[n].phase
        /\ [rows[n] EXCEPT !.stage = i].stage = i
    BY <2>1 DEF RowsOf
  <2>3. rows'[n] = [rows[n] EXCEPT !.stage = i] /\ \A m \in Names \ {n} : rows'[m] = rows[m]
    BY <2>1, Types
  <2> QED BY <2>1, <2>2, <2>3, Types DEF StageLeft
<1> QED BY <1>1, <1>2

LEMMA SagaGoes ==
  ASSUME TypeOK, NEW a \in Actors, NEW i \in 1 .. Stages, Running(a), Goto(a, i)
  PROVE /\ sagas' \in [Actors -> RunningSagas \cup {Idle}]
        /\ \A b \in Actors : sagas'[b] # Idle => Running(b) /\ sagas'[b].box = sagas[b].box
<1>1. sagas[a] \in RunningSagas
  BY Types DEF Running
<1>2. sagas' = [sagas EXCEPT ![a] = [sagas[a] EXCEPT !.next = i]]
  BY DEF Goto
<1> QED BY <1>1, <1>2, SagaKinds, Types DEF Running

\* The stages of a saga.
LEMMA StageOpens ==
  ASSUME MemberInv, NEW a \in Actors,
         InstallLine(a) \/ RecordMapping(a) \/ InstallBoxKey(a) \/ WriteConfig(a)
  PROVE TypeOK' /\ Opens /\ \A n \in Names : rows'[n].phase = rows[n].phase
<1> USE DEF MemberInv
<1>1. Running(a) /\ sagas[a] \in RunningSagas
  BY Types DEF InstallLine, RecordMapping, InstallBoxKey, WriteConfig, AtStage, Running
<1>2. sagas[a].box \in Names /\ sagas[a].key \in Keys
  BY <1>1, SagaKinds
<1>n. 1 \in 0 .. Stages /\ 2 \in 0 .. Stages /\ 3 \in 0 .. Stages /\ 4 \in 0 .. Stages
      /\ 1 < Stages /\ 2 < Stages /\ 3 < Stages /\ 4 < Stages
      /\ 2 \in 1 .. Stages /\ 3 \in 1 .. Stages /\ 4 \in 1 .. Stages /\ 5 \in 1 .. Stages
  BY DEF Stages
<1>3. /\ sagas' \in [Actors -> RunningSagas \cup {Idle}]
      /\ \A b \in Actors : sagas'[b] # Idle => Running(b) /\ sagas'[b].box = sagas[b].box
  BY <1>1, <1>n, SagaGoes DEF InstallLine, RecordMapping, InstallBoxKey, WriteConfig
<1>4. /\ rows' \in [Names -> RowsOf \cup {NoRow}]
      /\ \A m \in Names : rows'[m].phase = rows[m].phase
      /\ \A m \in Names : rows'[m].phase = "enrolling" => rows'[m].stage < Stages
  BY <1>2, <1>n, AdvanceKeeps, Types DEF StageLeft, InstallLine, RecordMapping, InstallBoxKey, WriteConfig
<1>5. machine' \in Machines /\ machine'.name = machine.name
  <2>1. machine \in Machines
    BY Types
  <2>2. machine' \in {machine, [machine EXCEPT !.vpsKey = TRUE], [machine EXCEPT !.fleet = TRUE]}
    BY DEF InstallLine, RecordMapping, InstallBoxKey, WriteConfig, Configured
  <2> QED BY <2>1, <2>2 DEF Machines
<1>6. lines' \subseteq Keys /\ map' \subseteq Names \X Keys /\ faults' \in 0 .. MaxFaults
  BY <1>2, Types, MembershipAssumption
     DEF InstallLine, RecordMapping, InstallBoxKey, WriteConfig, OneLine, OneRow
<1>7. UNCHANGED <<tick, retire, rename>>
  BY DEF InstallLine, RecordMapping, InstallBoxKey, WriteConfig
<1>8. TypeOK'
  BY <1>3, <1>4, <1>5, <1>6, <1>7, Types, TypesNext
<1>9. Opens
  BY <1>1, <1>3, <1>4, <1>5, <1>7 DEF Opens
<1> QED BY <1>4, <1>8, <1>9

LEMMA RecordOpens ==
  ASSUME MemberInv, NEW a \in Actors, RecordEnrolled(a)
  PROVE TypeOK' /\ Opens /\ \A n \in Names : rows[n].phase = "retired" => rows'[n].phase = "retired"
<1> USE DEF MemberInv
<1>1. Running(a) /\ sagas[a] \in RunningSagas
  BY Types DEF RecordEnrolled, AtStage, Running
<1>2. sagas[a].box \in Names /\ sagas[a].key \in Keys
  BY <1>1, SagaKinds
<1>3. Row("enrolled", Stages, sagas[a].key) \in RowsOf /\ Row("enrolled", Stages, sagas[a].key).phase = "enrolled"
  BY <1>2, RowMade DEF Stages
<1>4. /\ rows' \in [Names -> RowsOf \cup {NoRow}]
      /\ \A m \in Names : rows'[m].phase = rows[m].phase \/ rows'[m].phase = "enrolled"
      /\ \A m \in Names : rows'[m].phase = "enrolling" => rows'[m].stage < Stages
  BY <1>2, <1>3, Types DEF RecordEnrolled, StageLeft
<1>5. map' \subseteq Names \X Keys
  BY <1>4, ExportTyped DEF RecordEnrolled
<1>6. sagas' \in [Actors -> RunningSagas \cup {Idle}] /\ \A b \in Actors : sagas'[b] \in {sagas[b], Idle}
  BY Types DEF RecordEnrolled
<1>7. UNCHANGED <<lines, machine, tick, retire, rename, faults>>
  BY DEF RecordEnrolled
<1>8. TypeOK'
  BY <1>4, <1>5, <1>6, <1>7, Types, TypesNext
<1>9. Quiet
  BY <1>1 DEF Alone, Quiet
<1>10. Opens
  BY <1>4, <1>6, <1>7, <1>9 DEF Opens, Running, IsOpen
<1>11. \A n \in Names : rows[n].phase = "retired" => rows'[n] = rows[n]
  BY <1>1, <1>2, Types DEF RecordEnrolled, RowOpen, Phase, IsOpen
<1> QED BY <1>8, <1>10, <1>11

LEMMA BeginOpens ==
  ASSUME MemberInv, NEW a \in Actors, NEW n \in Names, NEW config \in BOOLEAN, BeginEnrol(a, n, config),
         Quiet, a = "tick" => tick # Idle,
         UNCHANGED <<lines, machine, retire, rename, faults>>,
         tick' = tick \/ (tick # Idle /\ tick' = [tick EXCEPT !.slot = FALSE])
  PROVE /\ TypeOK' /\ Opens /\ sagas'[a] # Idle /\ sagas'[a].box = n
        /\ \A m \in Names \ {n} : rows'[m] = rows[m]
<1> USE DEF MemberInv
<1>1. machine.key \in Keys
  BY Types DEF Machines
<1>2. /\ Opened(rows[n]) \in RowsOf /\ IsOpen(Opened(rows[n]).phase)
      /\ Opened(rows[n]).phase = "enrolling" => Opened(rows[n]).stage < Stages
      /\ FirstStage(rows[n]) \in 1 .. Stages
  <2>1. rows[n] \in RowsOf \cup {NoRow}
    BY Types
  <2>2. CASE rows[n].phase \in {"none", "retired"}
    BY <1>1, <2>2, RowMade DEF Opened, FirstStage, IsOpen, Stages, Row
  <2>3. CASE rows[n].phase \notin {"none", "retired"}
    <3>1. rows[n] \in RowsOf
      BY <2>1, <2>3, RowKinds
    <3>2. /\ [rows[n] EXCEPT !.key = machine.key] \in RowsOf
          /\ [rows[n] EXCEPT !.key = machine.key].phase = rows[n].phase
          /\ [rows[n] EXCEPT !.key = machine.key].stage = rows[n].stage
      BY <1>1, <3>1 DEF RowsOf
    <3>3. FirstStage(rows[n]) \in 1 .. Stages
      BY <3>1 DEF FirstStage, RowsOf, StageLeft, Stages
    <3> QED BY <2>3, <3>1, <3>2, <3>3, RowKinds DEF Opened, IsOpen, StageLeft
  <2> QED BY <2>2, <2>3
<1>3. /\ rows' \in [Names -> RowsOf \cup {NoRow}] /\ IsOpen(rows'[n].phase)
      /\ \A m \in Names : rows'[m].phase = rows[m].phase \/ IsOpen(rows'[m].phase)
      /\ \A m \in Names : rows'[m].phase = "enrolling" => rows'[m].stage < Stages
  BY <1>2, Types DEF BeginEnrol, StageLeft
<1>4. map' \subseteq Names \X Keys
  BY <1>3, ExportTyped, Types DEF BeginEnrol
<1>5. Saga(n, FirstStage(rows[n]), config) \in RunningSagas /\ Saga(n, FirstStage(rows[n]), config).box = n
  BY <1>1, <1>2 DEF Saga, RunningSagas
<1>6. /\ sagas' \in [Actors -> RunningSagas \cup {Idle}]
      /\ sagas'[a].box = n /\ \A b \in Actors \ {a} : sagas'[b] = sagas[b]
  BY <1>5, Types DEF BeginEnrol
<1>7. tick' \in Ticks \cup {Idle} /\ (tick' = Idle <=> tick = Idle)
      /\ (tick # Idle => tick'.seen = tick.seen /\ tick'.excluded = tick.excluded)
  BY Types, OtherKinds DEF Ticks
<1>8. TypeOK'
  BY <1>3, <1>4, <1>6, <1>7, Types, TypesNext
<1>9. Opens
  BY <1>3, <1>6, <1>7 DEF Opens, Running
<1>10. sagas'[a] # Idle
  BY <1>5, <1>6, SagaKinds, Types DEF BeginEnrol
<1>11. \A m \in Names \ {n} : rows'[m] = rows[m]
  BY Types DEF BeginEnrol
<1> QED BY <1>6, <1>8, <1>9, <1>10, <1>11

\* A saga that stops, and what the box does.
LEMMA OthersOpen ==
  ASSUME MemberInv, Reimage \/ Dial \/ TunnelDrops \/ \E a \in Actors : Abandon(a)
  PROVE TypeOK' /\ Opens /\ rows' = rows
<1> USE DEF MemberInv
<1>1. machine \in Machines
  BY Types
<1>2. machine' \in Machines /\ machine'.name = machine.name
  BY <1>1 DEF Reimage, Dial, TunnelDrops, Abandon, Machines
<1>3. \A a \in Actors : sagas'[a] \in {sagas[a], Idle}
  BY Types DEF Reimage, Dial, TunnelDrops, Abandon
<1>4. sagas' \in [Actors -> RunningSagas \cup {Idle}]
  BY Types DEF Reimage, Dial, TunnelDrops, Abandon
<1>5. UNCHANGED <<rows, lines, map, tick, retire, rename>>
  BY DEF Reimage, Dial, TunnelDrops, Abandon
<1>6. faults' \in 0 .. MaxFaults
  <2>1. faults' = faults \/ (faults < MaxFaults /\ faults' = faults + 1)
    BY DEF Reimage, Dial, TunnelDrops, Abandon
  <2> QED BY <2>1, Types, MembershipAssumption
<1>7. TypeOK'
  BY <1>2, <1>4, <1>5, <1>6, Types, TypesNext
<1>8. Opens
  BY <1>2, <1>3, <1>5 DEF Opens, Running, StageLeft
<1> QED BY <1>5, <1>7, <1>8
-----------------------------------------------------------------------------
(* retire and rename: while one of them runs, nothing else does.           *)

LEMMA NothingElse ==
  ASSUME MemberInv, retire # Idle \/ rename # Idle
  PROVE tick = Idle /\ (\A a \in Actors : sagas[a] = Idle) /\ (retire = Idle \/ rename = Idle)
BY DEF MemberInv, Alone, Running

\* What the two wait for holds the tick and the operator off.
LEMMA WaitedFor ==
  ASSUME MemberInv, Disturbed = FALSE, Undisturbed, LockFree
  PROVE Quiet /\ tick = Idle /\ \A a \in Actors : sagas[a] = Idle
BY DEF MemberInv, Alone, Running, Undisturbed, LockFree, Quiet, Actors

LEMMA RetireStarts ==
  ASSUME MemberInv, Disturbed = FALSE, NEW n \in Names, NEW forget \in BOOLEAN, RetireStart(n, forget)
  PROVE MemberInv'
<1> USE DEF MemberInv
<1>1. Quiet /\ tick = Idle /\ \A a \in Actors : sagas[a] = Idle
  BY WaitedFor DEF RetireStart
<1>2. retire' \in Retires /\ retire' # Idle /\ retire'.at = "lines"
  <2>1. rows[n] \in RowsOf
    BY Types DEF RetireStart
  <2>2. Phase(n) \in {"enrolling", "enrolled", "retired"} /\ rows[n].key \in Keys
    BY <2>1, RowKinds DEF Phase
  <2> QED BY <2>2 DEF RetireStart, Retires, Idle
<1>3. UNCHANGED <<rows, lines, map, machine, sagas, tick, rename, faults>>
  BY DEF RetireStart
<1>4. TypeOK'
  BY <1>2, <1>3, Types, TypesNext
<1> QED
  BY <1>1, <1>2, <1>3, <1>4 DEF Alone, Running, RowOpen, ParkedExcluded, StageLeft, LinesGone,
     CopyMade, BoxRenamed, RetiredIsUntrusted, Quiet, Phase

LEMMA RetireGoesOn ==
  ASSUME MemberInv, RetireLines
  PROVE MemberInv'
<1> USE DEF MemberInv
<1>1. retire \in Retires
  BY Types DEF RetireLines, Idle
<1>2. tick = Idle /\ (\A a \in Actors : sagas[a] = Idle) /\ rename = Idle
  BY <1>1, OtherKinds, NothingElse
<1>3. retire' \in Retires /\ retire' # Idle
  BY <1>1, OtherKinds DEF RetireLines, Retires
<1>4. UNCHANGED <<rows, map, machine, sagas, tick, rename, faults>> /\ lines' = {}
  BY DEF RetireLines
<1>5. TypeOK'
  BY <1>3, <1>4, Types, TypesNext
<1> QED
  BY <1>2, <1>3, <1>4, <1>5 DEF Alone, Running, RowOpen, ParkedExcluded, StageLeft, LinesGone,
     CopyMade, BoxRenamed, RetiredIsUntrusted, Phase

LEMMA RetireEnds ==
  ASSUME MemberInv, RetireStore
  PROVE /\ MemberInv'
        /\ \A n \in Names : rows'[n].phase = rows[n].phase \/ ~IsOpen(rows'[n].phase)
<1> USE DEF MemberInv
<1>1. retire \in Retires /\ retire.at = "store" /\ retire.box \in Names
  BY Types, OtherKinds DEF RetireStore, Idle
<1>2. /\ tick = Idle /\ (\A a \in Actors : sagas[a] = Idle) /\ rename = Idle
      /\ lines = {}
  BY <1>1, OtherKinds, NothingElse DEF LinesGone
<1>3. UNCHANGED <<lines, machine, sagas, tick, rename, faults>> /\ retire' = Idle
  BY DEF RetireStore
<1>4. /\ rows' \in [Names -> RowsOf \cup {NoRow}]
      /\ \A n \in Names : rows'[n].phase = "enrolling" => rows'[n].stage < Stages
      /\ \A n \in Names : rows'[n].phase = rows[n].phase \/ ~IsOpen(rows'[n].phase)
  <2>1. CASE retire.forget
    BY <1>1, <2>1, RowKinds, Types DEF RetireStore, StageLeft, IsOpen
  <2>2. CASE ~retire.forget /\ Phase(retire.box) = retire.phase
    <3>1. rows[retire.box] \in RowsOf
      BY <1>1, <2>2, RowKinds, Types DEF Phase, Retires
    <3>2. /\ [rows[retire.box] EXCEPT !.phase = "retired"] \in RowsOf
          /\ [rows[retire.box] EXCEPT !.phase = "retired"].phase = "retired"
      BY <3>1 DEF RowsOf
    <3>3. rows' = [rows EXCEPT ![retire.box] = [rows[retire.box] EXCEPT !.phase = "retired"]]
      BY <2>2 DEF RetireStore
    <3> QED BY <1>1, <3>2, <3>3, Types DEF StageLeft, IsOpen
  <2>3. CASE ~retire.forget /\ Phase(retire.box) # retire.phase
    BY <2>3, Types DEF RetireStore, StageLeft
  <2> QED BY <2>1, <2>2, <2>3
<1>5. map' \subseteq Names \X Keys
  BY <1>4, ExportTyped, Types DEF RetireStore
<1>6. TypeOK'
  BY <1>3, <1>4, <1>5, Types, TypesNext
<1>7. MemberInv'
  BY <1>2, <1>3, <1>4, <1>6 DEF Alone, Running, RowOpen, ParkedExcluded, StageLeft, LinesGone,
     CopyMade, BoxRenamed, RetiredIsUntrusted
<1> QED BY <1>4, <1>7

LEMMA RenameStarts ==
  ASSUME MemberInv, Disturbed = FALSE, RenameStart
  PROVE MemberInv'
<1> USE DEF MemberInv
<1>1. Quiet /\ tick = Idle /\ \A a \in Actors : sagas[a] = Idle
  BY WaitedFor DEF RenameStart
<1>2. rename' \in Renames /\ rename' # Idle /\ rename'.at = "copy"
  BY DEF RenameStart, Renames, Idle
<1>3. UNCHANGED <<rows, lines, map, machine, sagas, tick, retire, faults>>
  BY DEF RenameStart
<1>4. TypeOK'
  BY <1>2, <1>3, Types, TypesNext
<1> QED
  BY <1>1, <1>2, <1>3, <1>4 DEF Alone, Running, RowOpen, ParkedExcluded, StageLeft, LinesGone,
     CopyMade, BoxRenamed, RetiredIsUntrusted, Quiet, Phase

\* The steps of a rename: the box's name has a member's row before and after.
LEMMA RenameGoesOn ==
  ASSUME MemberInv, RenameCopy \/ RenameBox \/ RenameDelete
  PROVE /\ MemberInv'
        /\ Phase(machine.name) = "enrolled" => rows'[machine'.name].phase = "enrolled"
        /\ \/ RenameCopy
           \/ \A n \in Names : rows'[n].phase = rows[n].phase \/ ~IsOpen(rows'[n].phase)
<1> USE DEF MemberInv
<1>1. rename # Idle /\ rename \in Renames
  BY Types DEF RenameCopy, RenameBox, RenameDelete, Idle
<1>2. tick = Idle /\ (\A a \in Actors : sagas[a] = Idle) /\ retire = Idle
  BY <1>1, NothingElse
<1>3. Old \in Names /\ New \in Names /\ Old # New /\ machine \in Machines /\ machine.name \in Names
  BY Types, MembershipAssumption DEF Names, Machines
<1>4. UNCHANGED <<lines, sagas, tick, retire, faults>>
  BY DEF RenameCopy, RenameBox, RenameDelete
<1>5. CASE RenameCopy
  <2>1. rows[Old] \in RowsOf
    BY <1>3, <1>5, Types DEF RenameCopy
  <2>2. /\ Row("enrolled", Stages, rows[Old].key) \in RowsOf
        /\ Row("enrolled", Stages, rows[Old].key).phase = "enrolled"
    BY <2>1, RowKinds, RowMade DEF Stages
  <2>3. /\ rows' \in [Names -> RowsOf \cup {NoRow}] /\ rows'[New].phase = "enrolled"
        /\ \A n \in Names \ {New} : rows'[n] = rows[n]
    BY <1>3, <1>5, <2>2, Types DEF RenameCopy
  <2>4. map' \subseteq Names \X Keys
    BY <1>5, <2>3, ExportTyped DEF RenameCopy
  <2>5. rename' \in Renames /\ rename' # Idle /\ rename'.at = "name" /\ machine' = machine
    BY <1>5 DEF RenameCopy, Renames, Idle
  <2>6. TypeOK'
    BY <1>4, <2>3, <2>4, <2>5, Types, TypesNext
  <2>7. MemberInv'
    BY <1>2, <1>3, <1>4, <2>3, <2>5, <2>6 DEF Alone, Running, RowOpen, ParkedExcluded, StageLeft,
       LinesGone, CopyMade, BoxRenamed, RetiredIsUntrusted, Phase
  <2> QED BY <1>3, <1>5, <2>3, <2>5, <2>7 DEF Phase
<1>6. CASE RenameBox
  <2>1. Phase(New) = "enrolled"
    BY <1>1, <1>6 DEF RenameBox, CopyMade
  <2>2. machine' \in Machines /\ machine'.name = New
    BY <1>3, <1>6 DEF RenameBox, Machines
  <2>3. rename' \in Renames /\ rename' # Idle /\ rename'.at = "verify" /\ rows' = rows /\ map' = map
    BY <1>6 DEF RenameBox, Renames, Idle
  <2>4. TypeOK'
    BY <1>4, <2>2, <2>3, Types, TypesNext
  <2>5. MemberInv'
    BY <1>2, <1>4, <2>1, <2>2, <2>3, <2>4 DEF Alone, Running, RowOpen, ParkedExcluded, StageLeft,
       LinesGone, CopyMade, BoxRenamed, RetiredIsUntrusted, Phase
  <2> QED BY <2>1, <2>2, <2>3, <2>5 DEF Phase
<1>7. CASE RenameDelete
  <2>1. Phase(New) = "enrolled" /\ machine.name = New
    BY <1>1, <1>7 DEF RenameDelete, CopyMade
  <2>2. /\ rows' \in [Names -> RowsOf \cup {NoRow}] /\ rows'[Old] = NoRow
        /\ \A n \in Names \ {Old} : rows'[n] = rows[n]
    BY <1>3, <1>7, Types DEF RenameDelete
  <2>3. map' \subseteq Names \X Keys
    BY <1>7, <2>2, ExportTyped, Types DEF RenameDelete
  <2>4. rename' = Idle /\ machine' = machine
    BY <1>7 DEF RenameDelete
  <2>5. TypeOK'
    BY <1>4, <2>2, <2>3, <2>4, Types, TypesNext
  <2>6. MemberInv'
    BY <1>2, <1>3, <1>4, <2>1, <2>2, <2>4, <2>5, RowKinds DEF Alone, Running, RowOpen, ParkedExcluded,
       StageLeft, LinesGone, CopyMade, BoxRenamed, RetiredIsUntrusted, Phase
  <2> QED BY <1>3, <2>1, <2>2, <2>4, <2>6, RowKinds DEF Phase, IsOpen
<1> QED BY <1>5, <1>6, <1>7

\* A program that stops, and a tick that begins or ends: nothing it shares moves.
LEMMA StopsOrTicks ==
  ASSUME MemberInv, Disturbed = FALSE, GiveUp \/ RenameAborts \/ TickStart \/ TickEnd
  PROVE MemberInv' /\ UNCHANGED <<rows, machine, sagas>>
<1> USE DEF MemberInv
<1>1. UNCHANGED <<rows, lines, map, machine, sagas>>
  BY DEF GiveUp, RenameAborts, TickStart, TickEnd
<1>2. retire' \in {retire, Idle} /\ rename' \in {rename, Idle}
  BY DEF GiveUp, RenameAborts, TickStart, TickEnd
<1>3. faults' \in 0 .. MaxFaults
  <2>1. faults' = faults \/ (faults < MaxFaults /\ faults' = faults + 1)
    BY DEF GiveUp, RenameAborts, TickStart, TickEnd
  <2> QED BY <2>1, Types, MembershipAssumption
<1>4. CASE TickStart
  <2>1. tick' \in Ticks
    BY <1>4 DEF TickStart, Ticks, InPhase
  <2>2. Quiet /\ tick = Idle /\ UNCHANGED <<retire, rename>> /\ ~Running("tick")
    BY <1>4 DEF TickStart, Undisturbed, Alone, Quiet
  <2>3. \A n \in Names : Phase(n) = "retired" => n \in tick'.excluded /\ n \notin tick'.seen
    BY <1>4 DEF TickStart, InPhase
  <2>4. TypeOK'
    BY <1>1, <1>3, <2>1, <2>2, Types, TypesNext
  <2> QED
    BY <1>1, <2>1, <2>2, <2>3, <2>4, OtherKinds DEF Alone, Running, RowOpen, ParkedExcluded, StageLeft,
       LinesGone, CopyMade, BoxRenamed, RetiredIsUntrusted, Quiet, Phase
<1>5. CASE TickEnd
  <2>1. tick' = Idle /\ UNCHANGED <<retire, rename>> /\ sagas["tick"] = Idle
    BY <1>5 DEF TickEnd
  <2>2. TypeOK'
    BY <1>1, <1>3, <2>1, Types, TypesNext
  <2> QED
    BY <1>1, <2>1, <2>2 DEF Alone, Running, RowOpen, ParkedExcluded, StageLeft,
       LinesGone, CopyMade, BoxRenamed, RetiredIsUntrusted, Phase
<1>6. CASE GiveUp \/ RenameAborts
  <2>1. tick' = tick
    BY <1>6 DEF GiveUp, RenameAborts
  <2>2. TypeOK'
    BY <1>1, <1>2, <1>3, <2>1, Types, TypesNext
  <2> QED
    BY <1>1, <1>2, <2>1, <2>2 DEF Alone, Running, RowOpen, ParkedExcluded, StageLeft,
       LinesGone, CopyMade, BoxRenamed, RetiredIsUntrusted, Phase
<1> QED BY <1>1, <1>4, <1>5, <1>6
-----------------------------------------------------------------------------
(* The invariant, and what a step may do besides keeping it.               *)

\* A retired row that opens again.
Revived(n) == Phase(n) = "retired" /\ IsOpen(rows'[n].phase)
ByOperator(n) == rename.at = "copy" \/ (sagas'["cli"] # Idle /\ sagas'["cli"].box = n)
KeepsMember == (rename # Idle /\ Phase(machine.name) = "enrolled") => rows'[machine'.name].phase = "enrolled"
GoodStep == MemberInv' /\ KeepsMember /\ \A n \in Names : Revived(n) => ByOperator(n)

\* A step of `Opens' keeps the box's name and its rows while a rename runs.
LEMMA OpensIsGood ==
  ASSUME MemberInv, TypeOK', Opens, \A n \in Names : Revived(n) => ByOperator(n)
  PROVE GoodStep
<1>1. MemberInv'
  BY OpensKeeps
<1>2. machine.name \in Names
  BY Types DEF MemberInv, Machines
<1> QED BY <1>1, <1>2 DEF GoodStep, KeepsMember, Opens, Quiet, Phase

LEMMA SagaStepIsGood ==
  ASSUME MemberInv, NEW a \in Actors, SagaStep(a)
  PROVE GoodStep
BY StageOpens, RecordOpens, OpensIsGood DEF SagaStep, Revived, Phase, IsOpen

\* Only an operator's enrolment finds a retired row; a tick has excluded it.
LEMMA EnrolIsGood ==
  ASSUME MemberInv, Disturbed = FALSE, NEW n \in Names, EnrollByHand(n) \/ TickEnrols(n)
  PROVE GoodStep
<1> USE DEF MemberInv
<1>1. "cli" \in Actors /\ "tick" \in Actors /\ TRUE \in BOOLEAN
  BY DEF Actors
<1>2. CASE EnrollByHand(n)
  <2>1. Quiet
    BY <1>2 DEF EnrollByHand, Undisturbed, Quiet
  <2>2. PICK config \in BOOLEAN : BeginEnrol("cli", n, config)
    BY <1>2 DEF EnrollByHand
  <2>3. UNCHANGED <<lines, machine, tick, retire, rename, faults>>
    BY <1>2 DEF EnrollByHand
  <2>4. /\ TypeOK' /\ Opens /\ sagas'["cli"] # Idle /\ sagas'["cli"].box = n
        /\ \A m \in Names \ {n} : rows'[m] = rows[m]
    BY <1>1, <2>1, <2>2, <2>3, BeginOpens
  <2>5. \A m \in Names : Revived(m) => ByOperator(m)
    BY <2>4 DEF Revived, ByOperator, Phase, IsOpen
  <2> QED BY <2>4, <2>5, OpensIsGood
<1>3. CASE TickEnrols(n)
  <2>1. Quiet /\ tick # Idle
    BY <1>3 DEF TickEnrols, Alone, Quiet
  <2>2. /\ BeginEnrol("tick", n, TRUE) /\ tick' = [tick EXCEPT !.slot = FALSE]
        /\ UNCHANGED <<lines, machine, retire, rename, faults>>
    BY <1>3 DEF TickEnrols
  <2>3. TypeOK' /\ Opens /\ \A m \in Names \ {n} : rows'[m] = rows[m]
    BY <1>1, <2>1, <2>2, BeginOpens
  <2>4. Phase(n) # "retired"
    BY <1>3, <2>1 DEF TickEnrols, MayAdopt, MayResume, MayRepair, ParkedExcluded
  <2>5. \A m \in Names : ~Revived(m)
    BY <2>3, <2>4 DEF Revived, Phase, IsOpen
  <2> QED BY <2>3, <2>5, OpensIsGood
<1> QED BY <1>2, <1>3

LEMMA StepIsGood ==
  ASSUME MemberInv, Disturbed = FALSE, [Next]_vars
  PROVE GoodStep
<1> USE DEF MemberInv
<1>1. machine.name \in Names
  BY Types DEF Machines
<1>2. ASSUME NEW a \in Actors, SagaStep(a) \/ Abandon(a) PROVE GoodStep
  BY <1>2, SagaStepIsGood, OthersOpen, OpensIsGood DEF Revived, Phase, IsOpen
<1>3. ASSUME NEW n \in Names, EnrollByHand(n) \/ TickEnrols(n) PROVE GoodStep
  BY <1>3, EnrolIsGood
<1>4. ASSUME NEW n \in Names, NEW forget \in BOOLEAN, RetireStart(n, forget) PROVE GoodStep
  <2>1. MemberInv'
    BY <1>4, RetireStarts
  <2>2. UNCHANGED <<rows, machine>>
    BY <1>4 DEF RetireStart
  <2> QED BY <2>1, <2>2 DEF GoodStep, KeepsMember, Revived, Phase, IsOpen
<1>5. CASE RetireLines
  <2>1. UNCHANGED <<rows, machine>>
    BY <1>5 DEF RetireLines
  <2> QED BY <1>5, <2>1, RetireGoesOn DEF GoodStep, KeepsMember, Revived, Phase, IsOpen
<1>6. CASE RetireStore
  <2>1. rename = Idle
    <3>1. retire # Idle
      BY <1>6 DEF RetireStore, Idle
    <3> QED BY <3>1 DEF Alone
  <2> QED BY <1>6, <2>1, RetireEnds DEF GoodStep, KeepsMember, Revived, Phase, IsOpen
<1>7. CASE RenameStart
  <2>1. UNCHANGED <<rows, machine>>
    BY <1>7 DEF RenameStart
  <2> QED BY <1>7, <2>1, RenameStarts DEF GoodStep, KeepsMember, Revived, Phase, IsOpen
<1>8. CASE RenameCopy \/ RenameBox \/ RenameDelete
  <2>1. RenameCopy => rename.at = "copy"
    BY DEF RenameCopy
  <2> QED BY <1>8, <2>1, RenameGoesOn DEF GoodStep, KeepsMember, Revived, ByOperator, Phase, IsOpen
<1>9. CASE GiveUp \/ RenameAborts \/ TickStart \/ TickEnd
  BY <1>9, StopsOrTicks DEF GoodStep, KeepsMember, Revived, Phase, IsOpen
<1>10. CASE Reimage \/ Dial \/ TunnelDrops
  BY <1>10, OthersOpen, OpensIsGood DEF Revived, Phase, IsOpen
<1>11. CASE UNCHANGED vars
  <2> USE <1>11 DEF vars
  <2>1. MemberInv'
    BY DEF TypeOK, RowSet, SagaSet, Alone, Running, RowOpen, ParkedExcluded, StageLeft, LinesGone,
       CopyMade, BoxRenamed, RetiredIsUntrusted, Phase
  <2> QED BY <2>1 DEF GoodStep, KeepsMember, Revived, Phase, IsOpen
<1> QED BY <1>2, <1>3, <1>4, <1>5, <1>6, <1>7, <1>8, <1>9, <1>10, <1>11 DEF Next

LEMMA InitHolds == Init => MemberInv
<1> SUFFICES ASSUME Init PROVE MemberInv
  OBVIOUS
<1>1. machine \in Machines
  BY DEF Init, Machines, Names
<1>2. 0 \in 0 .. MaxFaults
  BY MembershipAssumption
<1>3. TypeOK
  BY <1>1, <1>2, Types DEF Init
<1> QED
  BY <1>3 DEF MemberInv, Init, Alone, Running, RowOpen, ParkedExcluded, StageLeft, LinesGone, CopyMade,
     BoxRenamed, RetiredIsUntrusted, Phase, Actors, Names, NoRow, Idle
-----------------------------------------------------------------------------
\* With no program beside a running retire or rename, the state is well typed
\* and the invariant holds.
THEOREM MembershipTypeCorrect ==
  ASSUME Disturbed = FALSE
  PROVE Spec => []TypeOK
<1>1. MemberInv /\ [Next]_vars => MemberInv'
  BY StepIsGood DEF GoodStep
<1>2. MemberInv => TypeOK
  BY DEF MemberInv
<1> QED BY <1>1, <1>2, InitHolds, PTL DEF Spec

\* A box whose two names are retired, or have no row, has no line in
\* authorized_keys: retire takes the lines before the row.
THEOREM RetiredOpensNothing ==
  ASSUME Disturbed = FALSE
  PROVE Spec => []RetiredIsUntrusted
<1>1. MemberInv /\ [Next]_vars => MemberInv'
  BY StepIsGood DEF GoodStep
<1>2. MemberInv => RetiredIsUntrusted
  BY DEF MemberInv
<1> QED BY <1>1, <1>2, InitHolds, PTL DEF Spec

\* No tick brings a retired row back: whatever it read, a parked name is
\* excluded from it until its pass ends.
THEOREM ParkedStaysParked ==
  ASSUME Disturbed = FALSE
  PROVE Spec => OnlyOperatorsRevive
<1>1. MemberInv /\ [Next]_vars => MemberInv'
  BY StepIsGood DEF GoodStep
<1>2. MemberInv /\ [Next]_vars
        => [\A n \in Names : (Phase(n) = "retired" /\ Phase(n)' \in {"enrolling", "enrolled"})
              => rename.at = "copy" \/ (sagas'["cli"] # Idle /\ sagas'["cli"].box = n)]_vars
  BY StepIsGood DEF GoodStep, Revived, ByOperator, IsOpen, Phase
<1> QED BY <1>1, <1>2, InitHolds, PTL DEF Spec, OnlyOperatorsRevive

\* Wherever a rename stops, the name the box answers to is a member's.
THEOREM RenameLeavesMember ==
  ASSUME Disturbed = FALSE
  PROVE Spec => RenameKeepsMember
<1>1. MemberInv /\ [Next]_vars => MemberInv'
  BY StepIsGood DEF GoodStep
<1>2. MemberInv /\ [Next]_vars
        => [(rename # Idle /\ Phase(machine.name) = "enrolled") => rows'[machine'.name].phase = "enrolled"]_vars
  BY StepIsGood DEF GoodStep, KeepsMember
<1> QED BY <1>1, <1>2, InitHolds, PTL DEF Spec, RenameKeepsMember
=============================================================================
