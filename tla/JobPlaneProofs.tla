---------------------------- MODULE JobPlaneProofs ----------------------------
(***************************************************************************)
(* For any jobs, handlers, faults, crashes, swaps and lapses: what is on   *)
(* the box has a row, an ending in a row is the box's, and a caller's      *)
(* lease outlives the jobs started under it.                               *)
(***************************************************************************)
EXTENDS JobPlane, TLAPS

\* The endings a row can only have from the box: `stopped' and `lost' the brain
\* writes on its own word.
BoxEndings == {"done", "failed", "timeout", "crashloop"}

About(a, j) == call[a].op # "idle" /\ call[a].job = j
Creating(a, j) == call[a].op = "create" /\ call[a].job = j
Leased(a, j) == Creating(a, j) /\ call[a].at = "leased"
Starting(a, j) == Creating(a, j) /\ call[a].at \in {"leased", "sent"}
Answered(a, j, s) == call[a].op = "answer" /\ call[a].job = j /\ call[a].said = s

\* What the tick or a call works on has a row, except before CreateRow.
HasRow ==
  /\ \A d \in due : rows[d.job] # Null
  /\ \A a \in Actors, j \in Jobs : About(a, j) /\ ~Leased(a, j) => rows[j] # Null

\* Nobody else knows of a job that has no row yet, and one call creates a job.
LeasedNew ==
  \A a \in Actors, j \in Jobs : Leased(a, j) => rows[j] = Null
OneCreator ==
  \A a, b \in Actors, j \in Jobs : Creating(a, j) /\ Creating(b, j) => a = b

\* An answer in flight that claims an ending repeats the box's record, or the
\* record has been pruned since.
AnswersRepeat ==
  \A a \in Actors, j \in Jobs, s \in BoxEndings : Answered(a, j, s) => box[j] \in {s, "none"}

\* Until its start is served a job has no record, and no row and no answer says
\* that it ended.
StartClean ==
  \A a \in Actors, j \in Jobs : Starting(a, j) =>
    /\ box[j] = "none"
    /\ rows[j] # Null => rows[j].state \notin BoxEndings
    /\ \A b \in Actors, s \in BoxEndings : ~Answered(b, j, s)

IInv == /\ TypeOK /\ RowFirst /\ RowsRepeatTheBox
        /\ HasRow /\ LeasedNew /\ OneCreator /\ AnswersRepeat /\ StartClean
-----------------------------------------------------------------------------
CreateCalls == [op: {"create"}, job: Jobs, own: BOOLEAN, at: {"leased", "sent", "ok", "failed"}]
StopCalls == [op: {"stop"}, job: Jobs, at: {"sent", "ok", "failed"}]
PollCalls == [op: {"poll"}, job: Jobs, seen: OpenStates]
AnswerCalls == [op: {"answer"}, job: Jobs, seen: OpenStates, said: {"running", Null} \cup TerminalStates]
FinishCalls == [op: {"finish"}, job: Jobs, to: TerminalStates, tell: BOOLEAN]
JobRows == [state: OpenStates \cup TerminalStates, own: BOOLEAN]

LEMMA KindsOfCall ==
  /\ Calls = {Idle} \cup CreateCalls \cup StopCalls \cup PollCalls \cup AnswerCalls \cup FinishCalls
  /\ \A c \in Calls : /\ c.op = "create" => c \in CreateCalls
                      /\ c.op = "stop" => c \in StopCalls
                      /\ c.op = "poll" => c \in PollCalls
                      /\ c.op = "answer" => c \in AnswerCalls
                      /\ c.op = "finish" => c \in FinishCalls
                      /\ c.op # "idle" => c.job \in Jobs
BY DEF Calls, Idle, CreateCalls, StopCalls, PollCalls, AnswerCalls, FinishCalls

\* A call that moves on.
LEMMA CallMoves ==
  /\ \A c \in CreateCalls, x \in {"sent", "ok", "failed"} :
       LET d == [c EXCEPT !.at = x]
       IN d \in CreateCalls /\ d.op = "create" /\ d.job = c.job /\ d.at = x
  /\ \A c \in StopCalls, x \in {"ok", "failed"} :
       LET d == [c EXCEPT !.at = x]
       IN d \in StopCalls /\ d.op = "stop" /\ d.job = c.job /\ d.at = x
BY DEF CreateCalls, StopCalls

\* What a move does to the calls.
LEMMA DoesOne ==
  ASSUME TypeOK, NEW a \in Actors, NEW c, Does(a, c)
  PROVE call'[a] = c /\ \A b \in Actors \ {a} : call'[b] = call[b]
BY DEF TypeOK, Does

LEMMA DoesTyped ==
  ASSUME TypeOK, NEW a \in Actors, NEW c \in Calls, Does(a, c)
  PROVE call' \in [Actors -> Calls]
BY DEF TypeOK, Does

LEMMA NoRowIsNull == Null \notin JobRows
BY NullAssumption DEF JobRows

LEMMA NoEndingIsNull == Null \notin BoxEndings
BY NullAssumption DEF BoxStates, TerminalStates, BoxEndings

LEMMA SetStateOne ==
  ASSUME TypeOK, NEW j \in Jobs, rows[j] # Null, NEW s \in OpenStates \cup TerminalStates
  PROVE /\ SetState(j, s) \in [Jobs -> JobRows \cup {Null}]
        /\ SetState(j, s)[j] # Null /\ SetState(j, s)[j].state = s
        /\ \A k \in Jobs \ {j} : SetState(j, s)[k] = rows[k]
<1>1. rows[j] \in JobRows
  BY DEF TypeOK, JobRows
<1>2. [rows[j] EXCEPT !.state = s] \in JobRows /\ [rows[j] EXCEPT !.state = s].state = s
  BY <1>1 DEF JobRows
<1>3. SetState(j, s) = [rows EXCEPT ![j] = [rows[j] EXCEPT !.state = s]]
  BY DEF SetState
<1>4. rows \in [Jobs -> JobRows \cup {Null}]
  BY DEF TypeOK, JobRows
<1>5. SetState(j, s)[j] = [rows[j] EXCEPT !.state = s]
  BY <1>3, <1>4
<1>6. SetState(j, s) \in [Jobs -> JobRows \cup {Null}]
  BY <1>2, <1>3, <1>4
<1>7. \A k \in Jobs \ {j} : SetState(j, s)[k] = rows[k]
  BY <1>3, <1>4
<1> QED BY <1>2, <1>5, <1>6, <1>7, NoRowIsNull

LEMMA ReleaseTyped ==
  ASSUME TypeOK, NEW j \in Jobs, NEW own
  PROVE AfterRelease(j, own) \in {"free", "caller"} \cup Jobs
BY DEF TypeOK, AfterRelease
-----------------------------------------------------------------------------
LEMMA ActorKinds == Tick \in Actors /\ Handlers \subseteq Actors
BY DEF Actors

LEMMA CallsTyped ==
  /\ Idle \in Calls
  /\ CreateCalls \subseteq Calls /\ StopCalls \subseteq Calls /\ PollCalls \subseteq Calls
  /\ AnswerCalls \subseteq Calls /\ FinishCalls \subseteq Calls
BY KindsOfCall

LEMMA SaidTyped == \A b \in BoxStates : Said(b) \in {"running"} \cup TerminalStates
BY DEF BoxStates, Said, TerminalStates

\* Every variable keeps its type.
LEMMA TypePreserved == TypeOK /\ HasRow /\ [Next]_vars => TypeOK'
<1> SUFFICES ASSUME TypeOK, HasRow, [Next]_vars PROVE TypeOK'
  OBVIOUS
<1> USE DEF brainOnly, tickOnly, sshOnly, boxOnly, leaseOnly
<1>r. TypeOK <=> /\ rows \in [Jobs -> JobRows \cup {Null}] /\ holder \in {"free", "caller"} \cup Jobs
                 /\ box \in [Jobs -> BoxStates] /\ call \in [Actors -> Calls]
                 /\ due \in SUBSET [job: Jobs, seen: OpenStates] /\ known \in BOOLEAN
                 /\ sent \in SUBSET Alerting /\ announced \in SUBSET Jobs
                 /\ faults \in 0..MaxFaults /\ crashes \in 0..MaxCrashes
  BY DEF TypeOK, JobRows
<1>c. \A a \in Actors : call[a] \in Calls
  BY <1>r
<1>1. ASSUME NEW h \in Handlers, NEW j \in Jobs, CreateLease(h, j) PROVE TypeOK'
  <2>1. \A own \in BOOLEAN : [op |-> "create", job |-> j, own |-> own, at |-> "leased"] \in Calls
    BY CallsTyped DEF CreateCalls
  <2>2. call' \in [Actors -> Calls]
    BY <1>1, <2>1, DoesTyped, ActorKinds DEF CreateLease
  <2>3. holder' \in {"free", "caller"} \cup Jobs
    BY <1>1, <1>r DEF CreateLease
  <2> QED BY <1>1, <1>r, <2>2, <2>3 DEF CreateLease, TypeOK
<1>2. ASSUME NEW h \in Handlers, NEW j \in Jobs, StopRead(h, j) PROVE TypeOK'
  <2>1. [op |-> "stop", job |-> j, at |-> "sent"] \in Calls
    BY CallsTyped DEF StopCalls
  <2>2. call' \in [Actors -> Calls]
    BY <1>2, <2>1, DoesTyped, ActorKinds DEF StopRead
  <2> QED BY <1>2, <1>r, <2>2 DEF StopRead, TypeOK
<1>3. ASSUME NEW h \in Handlers, NEW j \in Jobs, RefreshRead(h, j) PROVE TypeOK'
  <2>1. [op |-> "poll", job |-> j, seen |-> rows[j].state] \in Calls
    BY <1>3, CallsTyped DEF PollCalls, RefreshRead, Open
  <2>2. call' \in [Actors -> Calls]
    BY <1>3, <2>1, DoesTyped, ActorKinds DEF RefreshRead
  <2> QED BY <1>3, <1>r, <2>2 DEF RefreshRead, TypeOK
<1>4. CASE SelectDue
  <2>1. due' \in SUBSET [job: Jobs, seen: OpenStates]
    BY <1>4 DEF SelectDue, DueJobs, Open
  <2> QED BY <1>4, <1>r, <2>1 DEF SelectDue, TypeOK
<1>5. ASSUME NEW d \in due, PollDue(d) PROVE TypeOK'
  <2>1. [op |-> "poll", job |-> d.job, seen |-> d.seen] \in Calls
    BY <1>r, CallsTyped DEF PollCalls
  <2>2. call' \in [Actors -> Calls]
    BY <1>5, <2>1, DoesTyped, ActorKinds DEF PollDue
  <2> QED BY <1>5, <1>r, <2>2 DEF PollDue, TypeOK
<1>6. ASSUME NEW d \in due, SkipDue(d) PROVE TypeOK'
  BY <1>6, <1>r DEF SkipDue, TypeOK
<1>7. ASSUME NEW d \in due, LoseDue(d) PROVE TypeOK'
  <2>1. d.job \in Jobs /\ rows[d.job] # Null
    BY <1>r DEF HasRow
  <2>2. [op |-> "finish", job |-> d.job, to |-> "lost", tell |-> TRUE] \in Calls
    BY <2>1, CallsTyped DEF FinishCalls, TerminalStates
  <2>3. call' \in [Actors -> Calls]
    BY <1>7, <2>2, DoesTyped, ActorKinds DEF LoseDue
  <2>4. rows' \in [Jobs -> JobRows \cup {Null}]
    BY <1>7, <1>r, <2>1, SetStateOne DEF LoseDue, TerminalStates
  <2> QED BY <1>7, <1>r, <2>3, <2>4 DEF LoseDue, TypeOK, JobRows
<1>8. ASSUME NEW a \in Actors, CreateRow(a) PROVE TypeOK'
  <2>1. call[a] \in CreateCalls
    BY <1>8, <1>c, KindsOfCall DEF CreateRow
  <2>2. call' \in [Actors -> Calls]
    BY <1>8, <2>1, CallMoves, CallsTyped, DoesTyped DEF CreateRow
  <2>3. [state |-> "starting", own |-> call[a].own] \in JobRows /\ call[a].job \in Jobs
    BY <2>1 DEF CreateCalls, JobRows, OpenStates
  <2>4. rows' \in [Jobs -> JobRows \cup {Null}]
    BY <1>8, <1>r, <2>3 DEF CreateRow
  <2>5. holder' \in {"free", "caller"} \cup Jobs
    BY <1>8, <1>r, <2>3, ReleaseTyped DEF CreateRow
  <2> QED BY <1>8, <1>r, <2>2, <2>4, <2>5 DEF CreateRow, TypeOK, JobRows
<1>9. ASSUME NEW a \in Actors, CreateReply(a) PROVE TypeOK'
  <2>1. call[a] \in CreateCalls
    BY <1>9, <1>c, KindsOfCall DEF CreateReply
  <2>2. call[a].job \in Jobs /\ rows[call[a].job] # Null
    BY <1>9, <2>1 DEF HasRow, About, Leased, Creating, CreateReply, CreateCalls
  <2>3. [op |-> "finish", job |-> call[a].job, to |-> "lost", tell |-> FALSE] \in Calls
    BY <2>2, CallsTyped DEF FinishCalls, TerminalStates
  <2>4. call' \in [Actors -> Calls]
    BY <1>9, <2>3, CallsTyped, DoesTyped DEF CreateReply
  <2>5. rows' \in [Jobs -> JobRows \cup {Null}]
    BY <1>9, <2>2, SetStateOne DEF CreateReply, OpenStates, TerminalStates
  <2> QED BY <1>9, <1>r, <2>4, <2>5 DEF CreateReply, TypeOK, JobRows
<1>10. ASSUME NEW a \in Actors, StopReply(a) PROVE TypeOK'
  <2>1. call[a] \in StopCalls
    BY <1>10, <1>c, KindsOfCall DEF StopReply
  <2>2. call[a].job \in Jobs /\ rows[call[a].job] # Null
    BY <1>10, <2>1 DEF HasRow, About, Leased, Creating, StopReply, StopCalls
  <2>3. [op |-> "finish", job |-> call[a].job, to |-> "stopped", tell |-> FALSE] \in Calls
    BY <2>2, CallsTyped DEF FinishCalls, TerminalStates
  <2>4. call' \in [Actors -> Calls]
    BY <1>10, <2>3, CallsTyped, DoesTyped DEF StopReply
  <2>5. rows' \in [Jobs -> JobRows \cup {Null}]
    BY <1>10, <1>r, <2>2, SetStateOne DEF StopReply, TerminalStates
  <2> QED BY <1>10, <1>r, <2>4, <2>5 DEF StopReply, TypeOK, JobRows
<1>11. ASSUME NEW a \in Actors, PollWrite(a) PROVE TypeOK'
  <2>1. call[a] \in AnswerCalls
    BY <1>11, <1>c, KindsOfCall DEF PollWrite
  <2>2. call[a].job \in Jobs /\ rows[call[a].job] # Null
    BY <1>11, <2>1 DEF HasRow, About, Leased, Creating, PollWrite, AnswerCalls
  <2>3. call[a].said \in TerminalStates =>
          [op |-> "finish", job |-> call[a].job, to |-> call[a].said, tell |-> TRUE] \in Calls
    BY <2>2, CallsTyped DEF FinishCalls
  <2>4. call' \in [Actors -> Calls]
    BY <1>11, <2>3, CallsTyped, DoesTyped DEF PollWrite
  <2>5. (IF call[a].said = Null THEN call[a].seen ELSE call[a].said) \in OpenStates \cup TerminalStates
    BY <2>1 DEF AnswerCalls, OpenStates
  <2>6. rows' \in [Jobs -> JobRows \cup {Null}]
    BY <1>11, <2>2, <2>5, SetStateOne DEF PollWrite
  <2> QED BY <1>11, <1>r, <2>4, <2>6 DEF PollWrite, TypeOK, JobRows
<1>12. ASSUME NEW a \in Actors, Finish(a) PROVE TypeOK'
  <2>1. call[a] \in FinishCalls
    BY <1>12, <1>c, KindsOfCall DEF Finish
  <2>2. call' \in [Actors -> Calls]
    BY <1>12, CallsTyped, DoesTyped DEF Finish
  <2>3. holder' \in {"free", "caller"} \cup Jobs
    BY <1>12, <2>1, ReleaseTyped DEF Finish, FinishCalls
  <2>4. sent' \in SUBSET Alerting /\ announced' \in SUBSET Jobs
    BY <1>12, <1>r, <2>1 DEF Finish, FinishCalls
  <2> QED BY <1>12, <1>r, <2>2, <2>3, <2>4 DEF Finish, TypeOK, JobRows
<1>13. ASSUME NEW a \in Actors, BoxStarts(a) PROVE TypeOK'
  <2>1. call[a] \in CreateCalls
    BY <1>13, <1>c, KindsOfCall DEF BoxStarts
  <2>2. call' \in [Actors -> Calls]
    BY <1>13, <2>1, CallMoves, CallsTyped, DoesTyped DEF BoxStarts
  <2>3. box' \in [Jobs -> BoxStates]
    BY <1>13, <1>r, <2>1 DEF BoxStarts, CreateCalls, BoxStates
  <2> QED BY <1>13, <1>r, <2>2, <2>3 DEF BoxStarts, TypeOK
<1>14. ASSUME NEW a \in Actors, BoxStops(a) PROVE TypeOK'
  <2>1. call[a] \in StopCalls
    BY <1>14, <1>c, KindsOfCall DEF BoxStops
  <2>2. call' \in [Actors -> Calls]
    BY <1>14, <2>1, CallMoves, CallsTyped, DoesTyped DEF BoxStops
  <2>3. box' \in [Jobs -> BoxStates]
    BY <1>14, <1>r, <2>1 DEF BoxStops, StopCalls, BoxStates, TerminalStates
  <2> QED BY <1>14, <1>r, <2>2, <2>3 DEF BoxStops, TypeOK
<1>15. ASSUME NEW a \in Actors, BoxAnswers(a) PROVE TypeOK'
  <2>1. call[a] \in PollCalls
    BY <1>15, <1>c, KindsOfCall DEF BoxAnswers
  <2>2. [op |-> "answer", job |-> call[a].job, seen |-> call[a].seen, said |-> Said(box[call[a].job])] \in Calls
    BY <2>1, <1>r, SaidTyped, CallsTyped DEF PollCalls, AnswerCalls
  <2>3. call' \in [Actors -> Calls]
    BY <1>15, <2>2, DoesTyped DEF BoxAnswers
  <2> QED BY <1>15, <1>r, <2>3 DEF BoxAnswers, TypeOK
<1>16. ASSUME NEW a \in Actors, CallFails(a) \/ CallToGoneBox(a) PROVE TypeOK'
  <2>1. CASE call[a].op \in {"create", "stop"}
    <3>1. call[a] \in CreateCalls \cup StopCalls
      BY <2>1, <1>c, KindsOfCall
    <3>2. [call[a] EXCEPT !.at = "failed"] \in Calls
      BY <3>1, CallMoves, CallsTyped
    <3>3. call' \in [Actors -> Calls]
      BY <1>16, <2>1, <3>2, DoesTyped DEF CallFails, CallToGoneBox
    <3> QED BY <1>16, <1>r, <3>3, JobAssumption DEF CallFails, CallToGoneBox, TypeOK
  <2>2. CASE call[a].op = "poll"
    <3>1. call[a] \in PollCalls
      BY <2>2, <1>c, KindsOfCall
    <3>2. [op |-> "answer", job |-> call[a].job, seen |-> call[a].seen, said |-> Null] \in Calls
      BY <3>1, CallsTyped DEF PollCalls, AnswerCalls
    <3>3. call' \in [Actors -> Calls]
      BY <1>16, <2>2, <3>2, DoesTyped DEF CallFails, CallToGoneBox
    <3> QED BY <1>16, <1>r, <3>3, JobAssumption DEF CallFails, CallToGoneBox, TypeOK
  <2> QED BY <1>16, <2>1, <2>2 DEF CallFails, CallToGoneBox
<1>17. ASSUME NEW j \in Jobs, BoxLaunches(j) \/ BoxEnds(j) \/ GuardRestarts(j) \/ BoxForgets(j) PROVE TypeOK'
  <2>1. PICK s : s \in BoxStates /\ box' = [box EXCEPT ![j] = s]
    BY <1>17, JobAssumption DEF BoxLaunches, BoxEnds, GuardRestarts, BoxForgets, BoxStates, TerminalStates
  <2> QED BY <1>17, <1>r, <2>1 DEF BoxLaunches, BoxEnds, GuardRestarts, BoxForgets, TypeOK
<1>18. CASE ImageSwap
  <2>1. box' \in [Jobs -> BoxStates]
    BY <1>18, <1>r DEF ImageSwap, BoxStates, TerminalStates
  <2> QED BY <1>18, <1>r, <2>1 DEF ImageSwap, TypeOK
<1>19. CASE CallerTakes \/ CallerGivesBack \/ Retire \/ \E j \in Jobs : LeaseLapses(j)
  BY <1>19, <1>r DEF CallerTakes, CallerGivesBack, Retire, LeaseLapses, TypeOK
<1>20. CASE ApiCrash \/ TickCrash
  <2>1. call' \in [Actors -> Calls]
    BY <1>20, <1>r, CallsTyped, DoesTyped, ActorKinds DEF ApiCrash, TickCrash
  <2>2. crashes' \in 0..MaxCrashes
    BY <1>20, <1>r, JobAssumption DEF ApiCrash, TickCrash
  <2> QED BY <1>20, <1>r, <2>1, <2>2 DEF ApiCrash, TickCrash, TypeOK
<1>21. CASE UNCHANGED vars
  BY <1>21, <1>r DEF vars, TypeOK
<1> QED
  BY <1>1, <1>2, <1>3, <1>4, <1>5, <1>6, <1>7, <1>8, <1>9, <1>10, <1>11, <1>12, <1>13, <1>14,
     <1>15, <1>16, <1>17, <1>18, <1>19, <1>20, <1>21 DEF Next, Brain, World, Proceeds
-----------------------------------------------------------------------------
(* What any step does, as far as the invariant is concerned.               *)

\* A call takes up a job nobody has heard of.
New(a, j) ==
  /\ rows[j] = Null /\ \A b \in Actors : ~About(b, j)
  /\ \A b \in Actors \ {a} : ~About(b, j)'

\* A row is made by the call that leased for it, and says an ending only on an
\* answer's word.
RowsMove ==
  \A j \in Jobs :
    \/ rows'[j] = rows[j]
    \/ /\ rows'[j] # Null
       /\ rows[j] # Null \/ \E a \in Actors : Leased(a, j) /\ ~Leased(a, j)'
       /\ \/ rows'[j].state \notin BoxEndings
          \/ \E a \in Actors : Answered(a, j, rows'[j].state)

\* A record changes until it says an ending, which is only pruned; it is made by
\* the start of its create.
BoxMoves ==
  \A j \in Jobs :
    \/ box'[j] = box[j]
    \/ box[j] # "none" /\ (box'[j] = "none" \/ box[j] \notin BoxEndings)
    \/ /\ box[j] = "none" /\ box'[j] \notin BoxEndings
       /\ \E a \in Actors : Starting(a, j) /\ ~Leased(a, j) /\ ~Starting(a, j)'

CallsMove ==
  \A a \in Actors, j \in Jobs :
    /\ Creating(a, j)' => Creating(a, j) \/ New(a, j)
    /\ Leased(a, j)' => Leased(a, j) \/ New(a, j)
    /\ Starting(a, j)' => Starting(a, j) \/ New(a, j)
    /\ About(a, j)' /\ ~Leased(a, j)' => (About(a, j) /\ ~Leased(a, j)) \/ rows'[j] # Null
    /\ \A s \in BoxEndings : Answered(a, j, s)' => Answered(a, j, s) \/ box[j] = s

DueMoves == \A d \in due' : d \in due \/ rows[d.job] # Null

Moves == RowsMove /\ BoxMoves /\ CallsMove /\ DueMoves

LEMMA MovesPreserve == IInv /\ TypeOK' /\ Moves => IInv'
<1> SUFFICES ASSUME IInv, TypeOK', Moves PROVE IInv'
  OBVIOUS
<1> USE DEF IInv, Moves
<1>1. \A j \in Jobs : rows[j] # Null => rows'[j] # Null
  BY Zenon DEF RowsMove
<1>2. \A a \in Actors, j \in Jobs : New(a, j) => box[j] = "none" /\ box'[j] = "none" /\ rows'[j] = Null
  <2> SUFFICES ASSUME NEW a \in Actors, NEW j \in Jobs, New(a, j)
               PROVE box[j] = "none" /\ box'[j] = "none" /\ rows'[j] = Null
    OBVIOUS
  <2>1. rows[j] = Null /\ box[j] = "none"
    BY DEF New, RowFirst
  <2>2. \A b \in Actors : ~Starting(b, j) /\ ~Leased(b, j)
    BY DEF New, About, Starting, Leased, Creating
  <2> QED BY <2>1, <2>2 DEF RowsMove, BoxMoves
<1>3. RowFirst'
  <2> SUFFICES ASSUME NEW j \in Jobs, box'[j] # "none" PROVE rows'[j] # Null
    BY DEF RowFirst
  <2>1. CASE box[j] # "none"
    BY <2>1, <1>1 DEF RowFirst
  <2>2. CASE box[j] = "none"
    <3>1. PICK a \in Actors : Starting(a, j) /\ ~Leased(a, j)
      BY <2>2 DEF BoxMoves
    <3>2. rows[j] # Null
      BY <3>1 DEF HasRow, Starting, Creating, About
    <3> QED BY <3>2, <1>1
  <2> QED BY <2>1, <2>2
<1>4. RowsRepeatTheBox'
  <2> SUFFICES ASSUME NEW j \in Jobs, rows'[j] # Null, rows'[j].state \in BoxEndings
               PROVE box'[j] \in {rows'[j].state, "none"}
    BY DEF RowsRepeatTheBox, BoxEndings
  <2>1. box[j] \in {rows'[j].state, "none"}
    BY DEF RowsMove, RowsRepeatTheBox, AnswersRepeat, BoxEndings
  <2>2. ~\E a \in Actors : Starting(a, j)
    <3>1. CASE rows'[j] = rows[j]
      BY <3>1 DEF StartClean
    <3>2. CASE rows'[j] # rows[j]
      BY <3>2 DEF RowsMove, StartClean
    <3> QED BY <3>1, <3>2
  <2> QED BY <2>1, <2>2 DEF BoxMoves, BoxEndings
<1>5. HasRow'
  <2>1. \A d \in due' : rows'[d.job] # Null
    <3> SUFFICES ASSUME NEW d \in due' PROVE rows'[d.job] # Null
      OBVIOUS
    <3>1. d.job \in Jobs
      BY DEF TypeOK
    <3>2. rows[d.job] # Null
      BY DEF DueMoves, HasRow
    <3> QED BY <3>1, <3>2, <1>1
  <2>2. \A a \in Actors, j \in Jobs : About(a, j)' /\ ~Leased(a, j)' => rows'[j] # Null
    BY <1>1, Zenon DEF CallsMove, HasRow
  <2> QED BY <2>1, <2>2, Zenon DEF HasRow
<1>6. LeasedNew'
  <2> SUFFICES ASSUME NEW a \in Actors, NEW j \in Jobs, Leased(a, j)' PROVE rows'[j] = Null
    BY DEF LeasedNew
  <2>1. CASE New(a, j)
    BY <2>1, <1>2
  <2>2. CASE Leased(a, j)
    <3>1. \A b \in Actors : Leased(b, j) => b = a
      BY <2>2 DEF OneCreator, Leased
    <3> QED BY <2>2, <3>1 DEF LeasedNew, RowsMove
  <2> QED BY <2>1, <2>2 DEF CallsMove
<1>7. OneCreator'
  <2> SUFFICES ASSUME NEW a \in Actors, NEW b \in Actors, NEW j \in Jobs,
                      Creating(a, j)', Creating(b, j)', a # b
               PROVE FALSE
    BY DEF OneCreator
  <2>1. ~New(a, j) /\ ~New(b, j)
    BY DEF New, About, Creating
  <2> QED BY <2>1 DEF CallsMove, OneCreator
<1>8. AnswersRepeat'
  <2> SUFFICES ASSUME NEW a \in Actors, NEW j \in Jobs, NEW s \in BoxEndings, Answered(a, j, s)'
               PROVE box'[j] \in {s, "none"}
    BY DEF AnswersRepeat
  <2>1. CASE Answered(a, j, s)
    BY <2>1 DEF AnswersRepeat, BoxMoves, StartClean
  <2>2. CASE box[j] = s
    BY <2>2 DEF BoxMoves, BoxEndings
  <2> QED BY <2>1, <2>2 DEF CallsMove
<1>9. StartClean'
  <2> SUFFICES ASSUME NEW a \in Actors, NEW j \in Jobs, Starting(a, j)'
               PROVE /\ box'[j] = "none"
                     /\ rows'[j] # Null => rows'[j].state \notin BoxEndings
                     /\ \A b \in Actors, s \in BoxEndings : ~Answered(b, j, s)'
    BY DEF StartClean
  <2>1. CASE New(a, j)
    <3>1. \A b \in Actors, s \in BoxEndings : ~Answered(b, j, s)'
      BY <2>1, <1>2 DEF CallsMove, New, About, Answered, BoxEndings
    <3> QED BY <2>1, <1>2, <3>1
  <2>2. CASE Starting(a, j)
    <3>1. /\ box[j] = "none" /\ (rows[j] # Null => rows[j].state \notin BoxEndings)
          /\ \A b \in Actors, s \in BoxEndings : ~Answered(b, j, s)
      BY <2>2 DEF StartClean
    <3>2. \A b \in Actors : Starting(b, j) => b = a
      BY <2>2 DEF OneCreator, Starting
    <3>3. box'[j] = "none"
      BY <3>1, <3>2 DEF BoxMoves
    <3>4. rows'[j] # Null => rows'[j].state \notin BoxEndings
      BY <3>1 DEF RowsMove
    <3>5. \A b \in Actors, s \in BoxEndings : ~Answered(b, j, s)'
      BY <3>1 DEF CallsMove, BoxEndings
    <3> QED BY <3>3, <3>4, <3>5
  <2> QED BY <2>1, <2>2 DEF CallsMove
<1> QED BY <1>3, <1>4, <1>5, <1>6, <1>7, <1>8, <1>9
-----------------------------------------------------------------------------
LEMMA CallsHold == UNCHANGED call => CallsMove
BY DEF CallsMove, Creating, Leased, Starting, About, Answered

\* One call that goes on keeps its job, or takes up an unheard one; what it knows
\* of the job is so.
LEMMA OneCallMoves ==
  ASSUME TypeOK, NEW a \in Actors, NEW c, Does(a, c),
         c.op = "create" =>
           /\ \/ Creating(a, c.job) /\ (c.at = "leased" => Leased(a, c.job))
                                   /\ (c.at = "sent" => Starting(a, c.job))
              \/ rows[c.job] = Null /\ \A b \in Actors : ~About(b, c.job),
         c.op # "idle" /\ ~(c.op = "create" /\ c.at = "leased") => rows'[c.job] # Null,
         c.op = "answer" /\ c.said \in BoxEndings => c.said = box[c.job]
  PROVE CallsMove
<1>1. call'[a] = c /\ \A b \in Actors \ {a} : call'[b] = call[b]
  BY DoesOne
<1>2. \A b \in Actors \ {a}, j \in Jobs :
        /\ Creating(b, j)' <=> Creating(b, j)
        /\ Leased(b, j)' <=> Leased(b, j)
        /\ Starting(b, j)' <=> Starting(b, j)
        /\ About(b, j)' <=> About(b, j)
        /\ \A s \in BoxEndings : Answered(b, j, s)' <=> Answered(b, j, s)
  BY <1>1 DEF Creating, Leased, Starting, About, Answered
<1>3. \A j \in Jobs : rows[j] = Null /\ (\A b \in Actors : ~About(b, j)) => New(a, j)
  BY <1>2 DEF New
<1>4. \A j \in Jobs :
        /\ Creating(a, j)' => Creating(a, j) \/ New(a, j)
        /\ Leased(a, j)' => Leased(a, j) \/ New(a, j)
        /\ Starting(a, j)' => Starting(a, j) \/ New(a, j)
  BY <1>1, <1>3 DEF Creating, Leased, Starting
<1>5. \A j \in Jobs : About(a, j)' /\ ~Leased(a, j)' => rows'[j] # Null
  BY <1>1 DEF About, Leased, Creating
<1>6. \A j \in Jobs, s \in BoxEndings : Answered(a, j, s)' => box[j] = s
  BY <1>1 DEF Answered
<1> QED BY <1>2, <1>4, <1>5, <1>6 DEF CallsMove

\* A call that only advances.
LEMMA CallAdvances ==
  ASSUME NEW a \in Actors, call[a] \in CreateCalls \cup StopCalls, NEW x,
         Does(a, [call[a] EXCEPT !.at = x])
  PROVE \E d : Does(a, d) /\ d.op = call[a].op /\ d.job = call[a].job /\ d.at = x
<1> DEFINE d == [call[a] EXCEPT !.at = x]
<1>1. d.op = call[a].op /\ d.job = call[a].job /\ d.at = x
  BY DEF CreateCalls, StopCalls
<1> HIDE DEF d
<1>2. Does(a, d)
  BY DEF d
<1> QED BY <1>1, <1>2

LEMMA GoesIdle == ASSUME TypeOK, NEW a \in Actors, Does(a, Idle) PROVE CallsMove
BY OneCallMoves DEF Idle

LEMMA RowsHold == UNCHANGED rows => RowsMove
BY DEF RowsMove

LEMMA BoxHolds == UNCHANGED box => BoxMoves
BY DEF BoxMoves

LEMMA DueShrinks == due' \subseteq due => DueMoves
BY DEF DueMoves

\* The row of a job is given a state: no ending, or an answer's.
LEMMA RowSet ==
  ASSUME TypeOK, NEW j \in Jobs, rows[j] # Null, NEW s \in OpenStates \cup TerminalStates,
         s \notin BoxEndings \/ \E a \in Actors : Answered(a, j, s),
         rows' = SetState(j, s)
  PROVE RowsMove /\ rows'[j] # Null
BY SetStateOne DEF RowsMove

\* A record on the box that says no ending yet, or is forgotten.
LEMMA RecordSet ==
  ASSUME TypeOK, NEW j \in Jobs, NEW s, box' = [box EXCEPT ![j] = s],
         box[j] # "none", s = "none" \/ box[j] \notin BoxEndings
  PROVE BoxMoves
BY DEF TypeOK, BoxMoves

LEMMA StepMoves == IInv /\ [Next]_vars => Moves
<1> SUFFICES ASSUME IInv, [Next]_vars PROVE Moves
  OBVIOUS
<1> USE DEF IInv, Moves, brainOnly, tickOnly, sshOnly, boxOnly, leaseOnly
<1>c. \A a \in Actors : call[a] \in Calls /\ (call[a].op # "idle" => call[a].job \in Jobs)
  BY KindsOfCall DEF TypeOK
<1>r. \A a \in Actors : call[a].op # "idle" /\ ~(call[a].op = "create" /\ call[a].at = "leased")
                       => rows[call[a].job] # Null
  BY <1>c DEF HasRow, About, Leased, Creating
<1>d. \A d \in due : d.job \in Jobs /\ rows[d.job] # Null
  BY DEF TypeOK, HasRow
<1>1. ASSUME NEW h \in Handlers, NEW j \in Jobs, CreateLease(h, j) PROVE Moves
  <2>1. PICK c : /\ Does(h, c) /\ c.op = "create" /\ c.job = j /\ c.at = "leased"
                 /\ rows[j] = Null /\ \A b \in Actors : ~About(b, j)
    BY <1>1 DEF CreateLease, Untouched, About
  <2>2. CallsMove
    BY <2>1, OneCallMoves, ActorKinds
  <2> QED BY <1>1, <2>2, RowsHold, BoxHolds, DueShrinks DEF CreateLease
<1>2. ASSUME NEW h \in Handlers, NEW j \in Jobs, StopRead(h, j) PROVE Moves
  <2>1. CallsMove
    BY <1>2, OneCallMoves, ActorKinds DEF StopRead, Open
  <2> QED BY <1>2, <2>1, RowsHold, BoxHolds, DueShrinks DEF StopRead
<1>3. ASSUME NEW h \in Handlers, NEW j \in Jobs, RefreshRead(h, j) PROVE Moves
  <2>1. CallsMove
    BY <1>3, OneCallMoves, ActorKinds DEF RefreshRead, Open
  <2> QED BY <1>3, <2>1, RowsHold, BoxHolds, DueShrinks DEF RefreshRead
<1>4. CASE SelectDue
  <2>1. DueMoves
    BY <1>4 DEF SelectDue, DueMoves, DueJobs, Open
  <2> QED BY <1>4, <2>1, CallsHold, RowsHold, BoxHolds DEF SelectDue
<1>5. ASSUME NEW d \in due, PollDue(d) PROVE Moves
  <2>1. CallsMove
    BY <1>5, <1>d, OneCallMoves, ActorKinds DEF PollDue
  <2> QED BY <1>5, <2>1, RowsHold, BoxHolds, DueShrinks DEF PollDue
<1>6. ASSUME NEW d \in due, SkipDue(d) PROVE Moves
  BY <1>6, CallsHold, RowsHold, BoxHolds, DueShrinks DEF SkipDue
<1>7. ASSUME NEW d \in due, LoseDue(d) PROVE Moves
  <2>1. "lost" \in TerminalStates /\ "lost" \notin BoxEndings
    BY DEF TerminalStates, BoxEndings
  <2>2. RowsMove /\ rows'[d.job] # Null
    BY <1>7, <1>d, <2>1, RowSet, RowsHold DEF LoseDue
  <2>3. CallsMove
    BY <1>7, <2>2, OneCallMoves, ActorKinds DEF LoseDue
  <2> QED BY <1>7, <2>2, <2>3, BoxHolds, DueShrinks DEF LoseDue
<1>8. ASSUME NEW a \in Actors, CreateRow(a) PROVE Moves
  <2>0. PICK j \in Jobs : j = call[a].job
    BY <1>8, <1>c DEF CreateRow
  <2>1. call[a] \in CreateCalls /\ call[a].op = "create" /\ call[a].at = "leased"
    BY <1>8, <1>c, KindsOfCall DEF CreateRow
  <2>2. CASE Does(a, Idle) /\ UNCHANGED rows
    BY <1>8, <2>2, GoesIdle, RowsHold, BoxHolds, DueShrinks DEF CreateRow
  <2>3. CASE /\ rows' = [rows EXCEPT ![j] = [state |-> "starting", own |-> call[a].own]]
             /\ Does(a, [call[a] EXCEPT !.at = "sent"])
    <3>1. PICK d : Does(a, d) /\ d.op = "create" /\ d.job = j /\ d.at = "sent"
      BY <2>0, <2>1, <2>3, CallAdvances
    <3>2. /\ rows'[j] = [state |-> "starting", own |-> call[a].own]
          /\ \A k \in Jobs \ {j} : rows'[k] = rows[k]
      BY <2>1, <2>3 DEF TypeOK
    <3>3. rows'[j] # Null /\ rows'[j].state \notin BoxEndings
      BY <2>1, <3>2, NoRowIsNull DEF JobRows, OpenStates, CreateCalls, BoxEndings
    <3>4. Leased(a, j) /\ ~Leased(a, j)' /\ Creating(a, j) /\ Starting(a, j)
      BY <2>0, <2>1, <3>1, DoesOne DEF Leased, Creating, Starting
    <3>5. RowsMove
      BY <3>2, <3>3, <3>4 DEF RowsMove
    <3>6. CallsMove
      BY <3>1, <3>3, <3>4, OneCallMoves
    <3> QED BY <1>8, <3>5, <3>6, BoxHolds, DueShrinks DEF CreateRow
  <2> QED BY <1>8, <2>0, <2>2, <2>3 DEF CreateRow
<1>9. ASSUME NEW a \in Actors, CreateReply(a) PROVE Moves
  <2> DEFINE j == call[a].job
  <2>1. call[a] \in CreateCalls /\ j \in Jobs /\ rows[j] # Null
    BY <1>9, <1>c, <1>r, KindsOfCall DEF CreateReply
  <2>2. RowsMove /\ rows'[j] # Null
    BY <1>9, <2>1, RowSet DEF CreateReply, OpenStates, TerminalStates, BoxEndings
  <2>3. CallsMove
    BY <1>9, <2>2, OneCallMoves, GoesIdle DEF CreateReply
  <2> QED BY <1>9, <2>2, <2>3, BoxHolds, DueShrinks DEF CreateReply
<1>10. ASSUME NEW a \in Actors, StopReply(a) PROVE Moves
  <2> DEFINE j == call[a].job
  <2>1. j \in Jobs /\ rows[j] # Null
    BY <1>10, <1>c, <1>r DEF StopReply
  <2>2. RowsMove /\ rows'[j] # Null
    BY <1>10, <2>1, RowSet, RowsHold DEF StopReply, TerminalStates, BoxEndings
  <2>3. CallsMove
    BY <1>10, <2>2, OneCallMoves, GoesIdle DEF StopReply
  <2> QED BY <1>10, <2>2, <2>3, BoxHolds, DueShrinks DEF StopReply
<1>11. ASSUME NEW a \in Actors, PollWrite(a) PROVE Moves
  <2> DEFINE j == call[a].job
             s == IF call[a].said = Null THEN call[a].seen ELSE call[a].said
  <2>1. call[a] \in AnswerCalls /\ j \in Jobs /\ rows[j] # Null
    BY <1>11, <1>c, <1>r, KindsOfCall DEF PollWrite
  <2>2. s \in OpenStates \cup TerminalStates
    BY <2>1 DEF AnswerCalls, OpenStates
  <2>3. s \notin BoxEndings \/ Answered(a, j, s)
    BY <1>11, <2>1 DEF AnswerCalls, OpenStates, BoxEndings, Answered, PollWrite
  <2>4. rows' = SetState(j, s)
    BY <1>11 DEF PollWrite
  <2>5. RowsMove /\ rows'[j] # Null
    <3> HIDE DEF s, j
    <3> QED BY <2>1, <2>2, <2>3, <2>4, RowSet
  <2>6. CallsMove
    BY <1>11, <2>5, OneCallMoves, GoesIdle DEF PollWrite
  <2> QED BY <1>11, <2>5, <2>6, BoxHolds, DueShrinks DEF PollWrite
<1>12. ASSUME NEW a \in Actors, Finish(a) PROVE Moves
  BY <1>12, GoesIdle, RowsHold, BoxHolds, DueShrinks DEF Finish
<1>13. ASSUME NEW a \in Actors, BoxStarts(a) PROVE Moves
  <2>0. PICK j \in Jobs : j = call[a].job
    BY <1>13, <1>c DEF BoxStarts
  <2>1. call[a] \in CreateCalls /\ call[a].op = "create" /\ call[a].at = "sent"
    BY <1>13, <1>c, KindsOfCall DEF BoxStarts
  <2>2. Creating(a, j) /\ Starting(a, j) /\ ~Leased(a, j) /\ rows[j] # Null
    BY <2>0, <2>1, <1>r DEF Creating, Starting, Leased
  <2>3. PICK d : Does(a, d) /\ d.op = "create" /\ d.job = j /\ d.at \in {"ok", "failed"}
    BY <1>13, <2>0, <2>1, CallAdvances DEF BoxStarts
  <2>4. ~Starting(a, j)'
    BY <2>3, DoesOne DEF Starting
  <2>5. CallsMove
    BY <1>13, <2>2, <2>3, OneCallMoves DEF BoxStarts
  <2>6. BoxMoves
    <3>1. CASE UNCHANGED box
      BY <3>1, BoxHolds
    <3>2. CASE box' = [box EXCEPT ![j] = "launching"]
      <4>1. box'[j] = "launching" /\ \A k \in Jobs \ {j} : box'[k] = box[k]
        BY <2>1, <3>2 DEF TypeOK
      <4>2. box[j] = "none"
        BY <2>1, <2>2 DEF StartClean
      <4>3. "launching" \notin BoxEndings
        BY DEF BoxEndings
      <4> QED BY <2>2, <2>4, <4>1, <4>2, <4>3 DEF BoxMoves
    <3> QED BY <1>13, <2>0, <3>1, <3>2 DEF BoxStarts
  <2> QED BY <1>13, <2>5, <2>6, RowsHold, DueShrinks DEF BoxStarts
<1>14. ASSUME NEW a \in Actors, BoxStops(a) PROVE Moves
  <2> DEFINE j == call[a].job
  <2>1. call[a] \in StopCalls /\ j \in Jobs /\ rows[j] # Null
    BY <1>14, <1>c, <1>r, KindsOfCall DEF BoxStops
  <2>2. PICK d : Does(a, d) /\ d.op = "stop" /\ d.job = j
    BY <1>14, <2>1, CallAdvances DEF BoxStops, StopCalls
  <2>3. CallsMove
    BY <1>14, <2>1, <2>2, OneCallMoves DEF BoxStops
  <2>4. BoxMoves
    BY <1>14, <2>1, RecordSet, BoxHolds DEF BoxStops, BoxEndings
  <2> QED BY <1>14, <2>3, <2>4, RowsHold, DueShrinks DEF BoxStops
<1>15. ASSUME NEW a \in Actors, BoxAnswers(a) PROVE Moves
  <2>1. rows[call[a].job] # Null
    BY <1>15, <1>r DEF BoxAnswers
  <2>2. Said(box[call[a].job]) \in BoxEndings => Said(box[call[a].job]) = box[call[a].job]
    BY DEF Said, BoxEndings
  <2>3. CallsMove
    BY <1>15, <2>1, <2>2, OneCallMoves DEF BoxAnswers
  <2> QED BY <1>15, <2>3, RowsHold, BoxHolds, DueShrinks DEF BoxAnswers
<1>16. ASSUME NEW a \in Actors, CallFails(a) \/ CallToGoneBox(a) PROVE Moves
  <2>r. UNCHANGED <<rows, box, due>>
    BY <1>16 DEF CallFails, CallToGoneBox
  <2>1. CASE call[a].op \in {"create", "stop"} /\ call[a].at \in {"sent", "ok"}
             /\ Does(a, [call[a] EXCEPT !.at = "failed"])
    <3>1. call[a] \in CreateCalls \cup StopCalls /\ call[a].job \in Jobs
      BY <2>1, <1>c, KindsOfCall
    <3>2. PICK d : Does(a, d) /\ d.op = call[a].op /\ d.job = call[a].job /\ d.at = "failed"
      BY <2>1, <3>1, CallAdvances
    <3>3. d.op = "create" => Creating(a, d.job)
      BY <3>2 DEF Creating
    <3>4. rows'[d.job] # Null
      BY <2>1, <2>r, <3>2, <1>r
    <3>5. CallsMove
      BY <2>1, <3>2, <3>3, <3>4, OneCallMoves
    <3> QED BY <2>r, <3>5, RowsHold, BoxHolds, DueShrinks
  <2>2. CASE call[a].op = "poll" /\ Does(a, [op |-> "answer", job |-> call[a].job,
                                             seen |-> call[a].seen, said |-> Null])
    <3>1. rows'[call[a].job] # Null
      BY <2>2, <2>r, <1>r
    <3>2. CallsMove
      BY <2>2, <3>1, OneCallMoves, NoEndingIsNull
    <3> QED BY <2>r, <3>2, RowsHold, BoxHolds, DueShrinks
  <2> QED BY <1>16, <2>1, <2>2 DEF CallFails, CallToGoneBox
<1>17. ASSUME NEW j \in Jobs, BoxLaunches(j) \/ BoxEnds(j) \/ GuardRestarts(j) \/ BoxForgets(j) PROVE Moves
  <2>1. BoxMoves
    BY <1>17, RecordSet DEF BoxLaunches, BoxEnds, GuardRestarts, BoxForgets, BoxEndings, TerminalStates
  <2> QED BY <1>17, <2>1, CallsHold, RowsHold, DueShrinks DEF BoxLaunches, BoxEnds, GuardRestarts, BoxForgets
<1>18. CASE ImageSwap
  <2>1. BoxMoves
    BY <1>18 DEF ImageSwap, BoxMoves, BoxEndings, TypeOK
  <2> QED BY <1>18, <2>1, CallsHold, RowsHold, DueShrinks DEF ImageSwap
<1>19. CASE CallerTakes \/ CallerGivesBack \/ Retire \/ \E j \in Jobs : LeaseLapses(j)
  BY <1>19, CallsHold, RowsHold, BoxHolds, DueShrinks DEF CallerTakes, CallerGivesBack, Retire, LeaseLapses
<1>20. CASE ApiCrash
  <2>1. \A a \in Actors : call'[a] = call[a] \/ call'[a] = Idle
    BY <1>20 DEF ApiCrash
  <2>2. CallsMove
    BY <2>1 DEF CallsMove, Creating, Leased, Starting, About, Answered, Idle
  <2> QED BY <1>20, <2>2, RowsHold, BoxHolds, DueShrinks DEF ApiCrash
<1>21. CASE TickCrash
  BY <1>21, GoesIdle, ActorKinds, RowsHold, BoxHolds, DueShrinks DEF TickCrash
<1>22. CASE UNCHANGED vars
  BY <1>22, CallsHold, RowsHold, BoxHolds, DueShrinks DEF vars
<1> QED
  BY <1>1, <1>2, <1>3, <1>4, <1>5, <1>6, <1>7, <1>8, <1>9, <1>10, <1>11, <1>12, <1>13, <1>14,
     <1>15, <1>16, <1>17, <1>18, <1>19, <1>20, <1>21, <1>22 DEF Next, Brain, World, Proceeds
-----------------------------------------------------------------------------
LEMMA InitInv == Init => IInv
<1> SUFFICES ASSUME Init PROVE IInv
  OBVIOUS
<1> USE DEF Init
<1>1. \A a \in Actors : call[a].op = "idle"
  BY DEF Idle
<1>2. TypeOK
  BY JobAssumption, CallsTyped DEF TypeOK, BoxStates
<1>3. RowFirst /\ RowsRepeatTheBox
  BY DEF RowFirst, RowsRepeatTheBox
<1>4. HasRow /\ LeasedNew /\ OneCreator /\ AnswersRepeat /\ StartClean
  BY <1>1 DEF HasRow, LeasedNew, OneCreator, AnswersRepeat, StartClean,
              About, Leased, Starting, Creating, Answered
<1> QED BY <1>2, <1>3, <1>4 DEF IInv

LEMMA InvPreserved == IInv /\ [Next]_vars => IInv'
BY TypePreserved, StepMoves, MovesPreserve DEF IInv

LEMMA InvHolds == Spec => []IInv
BY InitInv, InvPreserved, PTL DEF Spec

\* Every variable keeps its type: calls, rows and records of the jobs at hand.
THEOREM JobsTypeCorrect == Spec => []TypeOK
<1>1. IInv => TypeOK
  BY DEF IInv
<1> QED BY <1>1, InvHolds, PTL

\* Whatever crashes, fails, races or goes stale: a record on the box has a row, and
\* a row that says done, failed, timeout or crashloop repeats the box's record.
THEOREM JobRowsAgree == Spec => []RowsAgree
<1>1. IInv => RowsAgree
  BY DEF IInv, RowsAgree
<1> QED BY <1>1, InvHolds, PTL

LEMMA OnlyCallerGivesBack ==
  IInv /\ [Next]_vars =>
    [holder = "caller" /\ holder' # "caller" => UNCHANGED <<rows, call, box, due>>]_vars
<1> SUFFICES ASSUME IInv, [Next]_vars, holder = "caller", holder' # "caller"
             PROVE CallerGivesBack
  BY DEF CallerGivesBack, leaseOnly
<1> USE DEF brainOnly, tickOnly, sshOnly, boxOnly, leaseOnly
<1>1. \A j \in Jobs : \A own : AfterRelease(j, own) = "caller"
  BY NullAssumption DEF AfterRelease
<1>2. \A a \in Actors : call[a].op # "idle" => call[a].job \in Jobs
  BY KindsOfCall DEF IInv, TypeOK
<1>3. ASSUME NEW h \in Handlers, NEW j \in Jobs, CreateLease(h, j) PROVE FALSE
  BY <1>3 DEF CreateLease
<1>4. ASSUME NEW a \in Actors, CreateRow(a) PROVE FALSE
  BY <1>1, <1>2, <1>4 DEF CreateRow
<1>5. ASSUME NEW a \in Actors, Finish(a) PROVE FALSE
  BY <1>1, <1>2, <1>5 DEF Finish
<1>6. ASSUME NEW j \in Jobs, LeaseLapses(j) PROVE FALSE
  BY <1>6, NullAssumption DEF LeaseLapses
<1>7. holder' = holder \/ CallerGivesBack
  BY <1>3, <1>4, <1>5, <1>6
     DEF Next, Brain, World, Proceeds, vars, StopRead, RefreshRead, SelectDue, PollDue, SkipDue,
         LoseDue, CallFails, ApiCrash, TickCrash, CreateReply, StopReply, PollWrite, BoxStarts,
         BoxStops, BoxAnswers, CallToGoneBox, BoxLaunches, BoxEnds, GuardRestarts, BoxForgets,
         ImageSwap, CallerTakes, Retire
<1> QED BY <1>7

\* No create, stop, refresh, poll or lapse of a job ends the lease its caller
\* supplied; only the caller does.
THEOREM CallersLeaseKept == Spec => CallersLeaseOutlivesJob
BY InvHolds, OnlyCallerGivesBack, PTL DEF Spec, CallersLeaseOutlivesJob
=============================================================================
