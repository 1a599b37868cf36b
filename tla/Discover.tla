------------------------------ MODULE Discover ------------------------------
(***************************************************************************)
(* The tick's discovery (src/fleet/src/reconcile/discover.ts): before the  *)
(* membership loop the adopt pass probes the candidates, after it the      *)
(* repair pass repairs members and resumes half-enrolled rows.  They share *)
(* one enrolment per tick, a budget of probe time and a ledger of failures *)
(* that is written back at the end of the tick.                            *)
(*                                                                         *)
(* A name is a candidate, an enrolling row or a member; what happens when  *)
(* discovery turns to it is its nature.  The steps of an enrolment are in  *)
(* Membership; here it is one step with an outcome.                        *)
(*                                                                         *)
(* Times are in units of 10 s.  The bounds BackoffCap and PruneTicks stand *)
(* for 12 and 288 ticks.                                                   *)
(***************************************************************************)
EXTENDS Naturals, Sequences, SequencesExt, FiniteSetsExt

CONSTANTS Names,        \* integers, in the order of the names
          BackoffCap, PruneTicks, MaxRecords,
          MaxFaults     \* API failures, killed ticks, failed enrolments, breakages

ASSUME DiscoverAssumption ==
  /\ Names \subseteq Nat /\ MaxFaults \in Nat
  /\ BackoffCap \in Nat \ {0} /\ PruneTicks \in Nat /\ BackoffCap < PruneTicks

VARIABLES kind,      \* name -> candidate, enrolling or member
          nature,    \* name -> what a probe, an inspection or an enrolment finds
          queue,     \* the enrolling rows, oldest first
          streak,    \* name -> stages of the row that failed in a row
          paged,     \* rows whose enrol-stuck alert went out
          marker,    \* name -> repair_pending: runs, and ticks since its stamp
          ledger,    \* the failures as the store has them
          api,       \* consecutive failures, and ticks until the next GET
          odd,       \* parity of the tick ordinal
          t,         \* the tick that runs
          faults

vars == <<kind, nature, queue, streak, paged, marker, ledger, api, odd, t, faults>>

\* 60 s, half of it for each side; a probe may start when 20 s still fit.
Pool == 6
Share == 3
Ceiling == 2
ListTime == 1
StuckStreak == 3
NoRecord == [failures |-> 0, age |-> 0]
Rest == [phase |-> "rest"]

\* failures that reach the cap of the backoff are all alike
MaxFailures == BackoffCap
Upto(a, b) == IF a < b THEN a ELSE b
BackoffTicks(f) == IF f = 0 THEN 0 ELSE Upto(2 ^ (f - 1), BackoffCap)
InBackoff(mem, n) == mem[n].failures > 0 /\ mem[n].age < BackoffTicks(mem[n].failures)
Failed(mem, n) ==
  [mem EXCEPT ![n] = [failures |-> Upto(@.failures + 1, MaxFailures), age |-> 0]]
Cleared(mem, n) == [mem EXCEPT ![n] = NoRecord]
Older(rec) == IF rec.failures = 0 THEN rec ELSE [rec EXCEPT !.age = Upto(@ + 1, PruneTicks + 1)]

Members == {n \in Names : kind[n] = "member"}
Candidates == {n \in Names : kind[n] = "candidate"}
\* Row e: the tunnel of a box that is online is down.
RowE(n) == nature[n] # "ok"
Ordered(S) == SetToSortSeq(S, LAMBDA a, b : a < b)
NatureOf == [candidate |-> {"good", "fails", "slow", "mismatch"},
             enrolling |-> {"good", "fails"},
             member |-> {"ok", "good", "fails", "slow", "coherent"}]
Kinds == DOMAIN NatureOf

\* Enrolling rows are what the ticks make of the candidates.
Init ==
  /\ kind \in [Names -> {"candidate", "member"}]
  /\ nature \in [Names -> UNION {NatureOf[k] : k \in Kinds}]
  /\ \A n \in Names : nature[n] \in NatureOf[kind[n]] \ {"ok"}
  /\ queue = <<>>
  /\ streak = [n \in Names |-> 0] /\ paged = {}
  /\ marker = [n \in Names |-> [runs |-> 0, age |-> 2]]
  /\ ledger = [n \in Names |-> NoRecord]
  /\ api = [fails |-> 0, wait |-> 0]
  /\ odd = FALSE /\ t = Rest /\ faults = 0

-----------------------------------------------------------------------------
(* The start of a tick: the ordinal, the devices GET, the latch.            *)

ApiWait(fails) == IF fails = 1 THEN 0 ELSE IF fails = 2 THEN 1 ELSE 3

\* A marker the tick before has stamped, whatever its member's backoff.
PendingRepair == \E n \in Members : marker[n].runs >= 1 /\ marker[n].age = 0
\* Mutants: no yield to a repair; an enrolling row in its backoff is yielded to.
PendingEnrolAlways(mem) == queue # <<>>
\* An enrolling row the resume pass may take this tick.
PendingEnrol(mem) == \E i \in DOMAIN queue : ~InBackoff(mem, queue[i])
YieldsToResume(mem) == PendingEnrol(mem)
Yields(mem) == PendingRepair \/ PendingEnrol(mem)

\* Neither a name in its backoff nor one the budget has no probe for is walked to.
Awake(mem, seq) == SelectSeq(seq, LAMBDA n : ~InBackoff(mem, n))

\* The ordinal, the devices GET, the list of peers: the pass yields, or walks
\* the candidates.
TickStart ==
  /\ t = Rest
  /\ odd' = ~odd
  /\ marker' = [n \in Names |-> [marker[n] EXCEPT !.age = Upto(@ + 1, 2)]]
  /\ ledger' = [n \in Names |-> Older(ledger[n])]
  /\ \E latched \in BOOLEAN :
       /\ IF api.wait > 0
          THEN latched /\ api' = [api EXCEPT !.wait = @ - 1] /\ faults' = faults
          ELSE IF latched
          THEN /\ faults < MaxFaults /\ faults' = faults + 1
               /\ LET f == Upto(api.fails + 1, 3) IN api' = [fails |-> f, wait |-> ApiWait(f)]
          ELSE api' = [fails |-> 0, wait |-> 0] /\ faults' = faults
       /\ t' = [phase |-> "adopt", latched |-> latched, slot |-> TRUE, mem |-> ledger',
                todo |-> IF latched \/ Yields(ledger') THEN <<>>
                         ELSE Awake(ledger', Ordered(Candidates)),
                total |-> ListTime, adopt |-> 0, repair |-> 0]
  /\ UNCHANGED <<kind, nature, queue, streak, paged>>

Charge(rec, side, cost) ==
  IF side = "adopt" THEN [rec EXCEPT !.total = @ + cost, !.adopt = @ + cost]
                    ELSE [rec EXCEPT !.total = @ + cost, !.repair = @ + cost]
CanStart(side) == /\ t.total + Ceiling <= Pool
                  /\ (IF side = "adopt" THEN t.adopt ELSE t.repair) + Ceiling <= Share

-----------------------------------------------------------------------------
(* The adopt pass.                                                          *)

Over(phase) == t.phase = phase /\ (t.todo = <<>> \/ ~CanStart(phase))
Takes(phase, n) == t.phase = phase /\ t.todo # <<>> /\ n = Head(t.todo) /\ CanStart(phase)
Skip(rec) == [rec EXCEPT !.todo = Tail(@)]
Stop(rec) == [rec EXCEPT !.todo = <<>>, !.slot = FALSE]

\* An enrolment that got as far as a stage and stopped: the row is enrolling.
HalfEnrolled(n) ==
  /\ kind' = [kind EXCEPT ![n] = IF @ = "member" THEN @ ELSE "enrolling"]
  /\ queue' = IF kind[n] = "candidate" THEN Append(queue, n) ELSE queue
  /\ streak' = [streak EXCEPT ![n] = Upto(@ + 1, StuckStreak)]

Enrolled(n) ==
  /\ kind' = [kind EXCEPT ![n] = "member"] /\ nature' = [nature EXCEPT ![n] = "ok"]
  /\ queue' = SelectSeq(queue, LAMBDA x : x # n)
  /\ streak' = [streak EXCEPT ![n] = 0]

\* `true', then the two reads, each with its own 20 s; a banner on the name
\* forgets its pin and probes once more without asking the budget.
ProbeCosts(n) == IF nature[n] = "slow" THEN {2} ELSE {0, 4}

Adopt(n) ==
  /\ Takes("adopt", n)
  /\ \E cost \in ProbeCosts(n) :
          LET r == Charge(t, "adopt", cost) IN
          CASE nature[n] = "slow" ->
                 /\ t' = Skip([r EXCEPT !.mem = Failed(@, n)])
                 /\ UNCHANGED <<kind, nature, queue, streak, faults>>
            [] nature[n] = "mismatch" ->
                 t' = Skip(r) /\ UNCHANGED <<kind, nature, queue, streak, faults>>
            [] OTHER ->
                 \/ /\ nature[n] # "fails" /\ faults' = faults
                    /\ t' = Stop([r EXCEPT !.mem = Cleared(@, n)])
                    /\ Enrolled(n)
                 \/ /\ IF nature[n] = "fails" THEN faults' = faults
                       ELSE faults < MaxFaults /\ faults' = faults + 1
                    /\ t' = Stop([r EXCEPT !.mem = Failed(@, n)])
                    /\ HalfEnrolled(n) /\ nature' = nature
  /\ UNCHANGED <<paged, marker, ledger, api, odd>>

-----------------------------------------------------------------------------
(* The loop stamps row e, the repair pass follows.                          *)

\* With no device list nothing is known to be online, and no row e holds.
Marked == [n \in Names |->
             IF n \notin Members THEN marker[n]
             ELSE IF RowE(n) /\ ~t.latched
             THEN [runs |-> Upto(marker[n].runs + 1, 2), age |-> 0]
             ELSE [runs |-> 0, age |-> 0]]

\* Mutant: repair always comes first.
InTurnRepair(repairs, resumes) == repairs \o resumes
InTurn(repairs, resumes) == IF odd THEN resumes \o repairs ELSE repairs \o resumes

RepairDue == {n \in Members : marker'[n].runs >= 2 /\ marker'[n].age = 0}

LoopEnds ==
  /\ Over("adopt")
  /\ marker' = Marked
  /\ t' = [t EXCEPT !.phase = "repair",
                    !.todo = IF t.latched \/ ~t.slot THEN <<>>
                             ELSE Awake(t.mem, InTurn(Ordered(RepairDue), queue))]
  /\ UNCHANGED <<kind, nature, queue, streak, paged, ledger, api, odd, faults>>

\* `inspect': unreachable, coherent, or something to repair.
Repair(n) ==
  /\ Takes("repair", n) /\ kind[n] = "member"
  /\ \E cost \in {0, 2} :
       LET r == Charge(t, "repair", cost) IN
       CASE nature[n] = "slow" ->
              /\ cost = 2 /\ t' = Skip([r EXCEPT !.mem = Failed(@, n)])
              /\ UNCHANGED <<kind, nature, queue, streak, faults>>
         [] nature[n] = "coherent" ->
              t' = Skip(r) /\ UNCHANGED <<kind, nature, queue, streak, faults>>
         [] OTHER ->
              /\ cost = 0
              /\ \/ /\ nature[n] # "fails" /\ faults' = faults
                    /\ t' = Stop([r EXCEPT !.mem = Cleared(@, n)])
                    /\ Enrolled(n)
                 \/ /\ IF nature[n] = "fails" THEN faults' = faults
                       ELSE faults < MaxFaults /\ faults' = faults + 1
                    /\ t' = Stop([r EXCEPT !.mem = Failed(@, n)])
                    /\ UNCHANGED <<kind, nature, queue, streak>>
  /\ UNCHANGED <<paged, marker, ledger, api, odd>>

Stuck(n) == streak'[n] >= StuckStreak

\* One more try at an enrolling row, whose next stage fails or goes through.
Resume(n) ==
  /\ Takes("repair", n) /\ kind[n] = "enrolling"
  /\ \/ /\ nature[n] = "good" /\ Enrolled(n)
        /\ t' = Stop([t EXCEPT !.mem = Cleared(@, n)])
        /\ UNCHANGED <<paged, faults>>
     \/ /\ IF nature[n] = "good" THEN faults < MaxFaults /\ faults' = faults + 1
           ELSE faults' = faults
        /\ HalfEnrolled(n)
        /\ t' = Stop([t EXCEPT !.mem = Failed(@, n)])
        /\ paged' = IF Stuck(n) THEN paged \cup {n} ELSE paged
        /\ nature' = nature
  /\ UNCHANGED <<marker, ledger, api, odd>>

\* The records a tick keeps: the untouched are dropped, then the oldest.
Recent(mem) == {n \in Names : mem[n].failures > 0 /\ mem[n].age <= PruneTicks}
Newer(mem, n) == {m \in Recent(mem) : mem[m].age < mem[n].age \/ (mem[m].age = mem[n].age /\ m < n)}
Kept(mem) == {n \in Recent(mem) : Cardinality(Newer(mem, n)) < MaxRecords}

Finish ==
  /\ Over("repair")
  /\ ledger' = [n \in Names |-> IF n \in Kept(t.mem) THEN t.mem[n] ELSE NoRecord]
  /\ t' = Rest
  /\ UNCHANGED <<kind, nature, queue, streak, paged, marker, api, odd, faults>>

\* A killed tick forgets the failures it saw.
Killed ==
  /\ t # Rest /\ faults < MaxFaults /\ faults' = faults + 1
  /\ t' = Rest
  /\ UNCHANGED <<kind, nature, queue, streak, paged, marker, ledger, api, odd>>

\* Between two ticks: a member loses its tunnel and an artefact of it.
Breaks(n) ==
  /\ t = Rest /\ kind[n] = "member" /\ nature[n] = "ok"
  /\ faults < MaxFaults /\ faults' = faults + 1
  /\ nature' = [nature EXCEPT ![n] = "good"]
  /\ UNCHANGED <<kind, queue, streak, paged, marker, ledger, api, odd, t>>

-----------------------------------------------------------------------------
TickStep == \/ LoopEnds \/ Finish
            \/ \E n \in Names : Adopt(n) \/ Repair(n) \/ Resume(n)

Next == TickStart \/ TickStep \/ Killed \/ \E n \in Names : Breaks(n)

Spec == Init /\ [][Next]_vars

\* The timer fires, and a tick ends: one of the two can always be taken.
FairSpec == Spec /\ WF_vars(TickStart \/ TickStep)

-----------------------------------------------------------------------------
(* Properties.                                                              *)

\* Types.
TypeOK ==
  /\ kind \in [Names -> Kinds]
  /\ \A n \in Names : nature[n] \in NatureOf[kind[n]]
  /\ ToSet(queue) = {n \in Names : kind[n] = "enrolling"}
  /\ streak \in [Names -> 0 .. StuckStreak] /\ paged \subseteq Names
  /\ marker \in [Names -> [runs : 0 .. 2, age : 0 .. 2]]
  /\ ledger \in [Names -> [failures : 0 .. MaxFailures, age : 0 .. PruneTicks + 1]]
  /\ odd \in BOOLEAN /\ faults \in 0 .. MaxFaults

\* Members that are in row e for good: discovery has no cure for them.
StayDown == {n \in Members : nature[n] \in {"fails", "slow", "coherent"}}

\* A candidate that can be enrolled is enrolled in the end, whatever
\* candidates and enrolling rows before it are slow, silent or fail: the yield
\* to an enrolling row ends with its backoff (pendingEnrolRow).  The yield to a
\* repair has no such end, hence the second disjunct.
CandidateJoins ==
  \A n \in Names : (kind[n] = "candidate" /\ nature[n] = "good")
       ~> (kind[n] = "member" \/ StayDown # {} \/ \E m \in Candidates : nature[m] = "mismatch")

\* A member that can be repaired is repaired: neither candidates, with probes as
\* long as they like, nor enrolling rows starve it.  Another member whose
\* inspection takes its time and finds nothing, tick after tick, does.
MemberRepaired ==
  \A n \in Names : (kind[n] = "member" /\ nature[n] = "good")
       ~> (nature[n] = "ok" \/ \E m \in StayDown : nature[m] = "coherent")

\* No row is half enrolled for ever and in silence: one that can be finished is
\* finished, beside rows that fail and beside repairs that fail or find nothing
\* (the parity of repairPass); one whose stage fails every time is paged about.
RowsSettle ==
  \A n \in Names : kind[n] = "enrolling"
       ~> (kind[n] = "member" \/ (nature[n] = "fails" /\ n \in paged))
=============================================================================
