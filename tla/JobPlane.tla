------------------------------ MODULE JobPlane ------------------------------
(***************************************************************************)
(* The brain's half of a job, on one box: the `jobs' rows, the lease a job *)
(* acquires, the API's create, stop and refresh (serve/job-handlers.ts)    *)
(* and the reconcile tick's poll pass (reconcile/job-tick.ts).  Every ssh  *)
(* is three steps: sent, done on the box, and its answer used; anything    *)
(* else may happen in between.  The box is its job records, in the terms   *)
(* of `boxup job status'.                                                  *)
(***************************************************************************)
EXTENDS Integers, FiniteSets

CONSTANTS
  Jobs,        \* job ids: never drawn twice
  Services,    \* the jobs of kind `service'; the others are `run'
  Handlers,    \* requests the API server can have open at once
  Tick,        \* the poll pass of the reconcile tick
  Ops,         \* what an instance lets happen, see AllOps
  Ends,        \* how a run may end: its rc is 0, another, or its cap's
  MaxFaults,   \* bound: ssh calls that fail or whose answer is lost
  MaxCrashes,  \* bound: deaths of the API server or of a tick
  Null         \* no row, or no reading

AllOps == {"create", "supplied", "stop", "refresh", "tick", "lapse", "swap", "retire"}

ASSUME JobAssumption ==
  /\ Services \subseteq Jobs /\ Ops \subseteq AllOps
  /\ Ends \subseteq {"done", "failed", "timeout"}
  /\ Tick \notin Handlers
  /\ {MaxFaults, MaxCrashes} \subseteq Nat

VARIABLES
  rows,       \* rows[j]: the jobs row, or Null
  holder,     \* whose lease defers the box: "free", "caller", or the job's own
  box,        \* box[j]: the record of job j on the box
  call,       \* call[a]: what actor a is in the middle of
  due,        \* the rows the tick selected and has not reached
  known,      \* the box is still in the fleet
  sent,       \* the job-<state> alerts of this box that count as sent (24 h)
  announced,  \* history: the jobs whose end an operator was told of
  faults, crashes

vars == <<rows, holder, box, call, due, known, sent, announced, faults, crashes>>
-----------------------------------------------------------------------------
Actors == Handlers \cup {Tick}

OpenStates == {"starting", "running"}
TerminalStates == {"done", "failed", "timeout", "stopped", "lost", "crashloop"}
Alerting == {"failed", "timeout", "lost", "crashloop"}

\* A record on the box: `launching' before the wrapper has planted its marker,
\* `down' for a service that died or was swapped away and will be restarted.
BoxStates == {"none", "launching", "running", "down"} \cup TerminalStates

\* What stands for no row, no answer and no holder is none of them.
ASSUME NullAssumption ==
  /\ Null \notin BoxStates \cup [state: OpenStates \cup TerminalStates, own: BOOLEAN]
  /\ {"free", "caller"} \cap Jobs = {}

Open(j) == rows[j] # Null /\ rows[j].state \in OpenStates
Terminal(j) == rows[j] # Null /\ rows[j].state \in TerminalStates

SetState(j, s) == [rows EXCEPT ![j].state = s]

\* What `job status' answers, through stateFromBox: no record, no marker yet and
\* a dead wrapper are all `lost'.
InventedFailure(b) == IF b = "lost" THEN "failed"  \* mutant: an rc is made up
                      ELSE IF b \in {"none", "launching", "down"} THEN "lost" ELSE b
Said(b) == IF b \in {"none", "launching", "down"} THEN "lost" ELSE b

\* releaseLease on the job's own lease, once; a caller's lease is not the job's.
InferredOwner(j, own) == IF holder \in {j, "caller"} THEN "free" ELSE holder  \* mutant
AfterRelease(j, own) == IF own /\ holder = j THEN "free" ELSE holder

SlotTaken == \E j \in Jobs : box[j] \in {"launching", "running", "down"}
-----------------------------------------------------------------------------
Idle == [op |-> "idle"]

Calls ==
  {Idle}
  \cup [op: {"create"}, job: Jobs, own: BOOLEAN, at: {"leased", "sent", "ok", "failed"}]
  \cup [op: {"stop"}, job: Jobs, at: {"sent", "ok", "failed"}]
  \cup [op: {"poll"}, job: Jobs, seen: OpenStates]
  \cup [op: {"answer"}, job: Jobs, seen: OpenStates, said: {"running", Null} \cup TerminalStates]
  \cup [op: {"finish"}, job: Jobs, to: TerminalStates, tell: BOOLEAN]

Init ==
  /\ rows = [j \in Jobs |-> Null] /\ holder = "free"
  /\ box = [j \in Jobs |-> "none"]
  /\ call = [a \in Actors |-> Idle] /\ due = {} /\ known = TRUE
  /\ sent = {} /\ announced = {} /\ faults = 0 /\ crashes = 0

Untouched(j) == ~\E a \in Actors : call[a].op # "idle" /\ call[a].job = j

Does(a, c) == call' = [call EXCEPT ![a] = c]

\* The API server is one thread: a handler runs to its next await.
MidTurn(h) == \/ call[h].op = "finish"
              \/ call[h].op = "create" /\ call[h].at = "leased"
Turn(a) == a # Tick => ~\E h \in Handlers \ {a} : MidTurn(h)

brainOnly == UNCHANGED <<box, due, known, faults, crashes>>
-----------------------------------------------------------------------------
(* POST /v1/jobs.                                                          *)

\* Take the caller's lease as read, or acquire one on a box nobody holds.
CreateLease(h, j) ==
  /\ call[h].op = "idle" /\ Turn(h) /\ known
  /\ rows[j] = Null /\ Untouched(j)
  /\ \/ /\ "create" \in Ops /\ holder = "free"
        /\ holder' = j
        /\ Does(h, [op |-> "create", job |-> j, own |-> TRUE, at |-> "leased"])
     \/ /\ "supplied" \in Ops /\ holder = "caller"
        /\ Does(h, [op |-> "create", job |-> j, own |-> FALSE, at |-> "leased"])
        /\ UNCHANGED holder
  /\ UNCHANGED <<rows, sent, announced>> /\ brainOnly

\* The row FIRST, then the box; a box with an open job is refused.
CreateRow(h) ==
  /\ call[h].op = "create" /\ call[h].at = "leased"
  /\ LET j == call[h].job IN
     \/ /\ \E k \in Jobs : Open(k)
        /\ holder' = AfterRelease(j, call[h].own)
        /\ Does(h, Idle)
        /\ UNCHANGED rows
     \/ /\ ~\E k \in Jobs : Open(k)
        /\ rows' = [rows EXCEPT ![j] = [state |-> "starting", own |-> call[h].own]]
        /\ Does(h, [call[h] EXCEPT !.at = "sent"])
        /\ UNCHANGED holder
  /\ UNCHANGED <<sent, announced>> /\ brainOnly

\* rc 0: the row is running.  Anything else, a timeout included: the row is lost
\* and the lease the job took goes back.
CreateReply(h) ==
  /\ call[h].op = "create" /\ Turn(h)
  /\ LET j == call[h].job IN
     \/ /\ call[h].at = "ok"
        /\ rows' = SetState(j, "running") /\ Does(h, Idle)
     \/ /\ call[h].at = "failed"
        /\ rows' = SetState(j, "lost")
        /\ Does(h, [op |-> "finish", job |-> j, to |-> "lost", tell |-> FALSE])
  /\ UNCHANGED <<holder, sent, announced>> /\ brainOnly
-----------------------------------------------------------------------------
(* POST /v1/jobs/:id/stop and GET /v1/jobs/:id?refresh=1.                  *)

StopRead(h, j) ==
  /\ "stop" \in Ops /\ call[h].op = "idle" /\ Turn(h) /\ Open(j)
  /\ Does(h, [op |-> "stop", job |-> j, at |-> "sent"])
  /\ UNCHANGED <<rows, holder, sent, announced>> /\ brainOnly

StopReply(h) ==
  /\ call[h].op = "stop" /\ Turn(h)
  /\ LET j == call[h].job IN
     \/ /\ call[h].at = "ok"
        /\ rows' = SetState(j, "stopped")
        /\ Does(h, [op |-> "finish", job |-> j, to |-> "stopped", tell |-> FALSE])
     \/ /\ call[h].at = "failed"
        /\ Does(h, Idle) /\ UNCHANGED rows
  /\ UNCHANGED <<holder, sent, announced>> /\ brainOnly

RefreshRead(h, j) ==
  /\ "refresh" \in Ops /\ call[h].op = "idle" /\ Turn(h) /\ Open(j)
  /\ Does(h, [op |-> "poll", job |-> j, seen |-> rows[j].state])
  /\ UNCHANGED <<rows, holder, sent, announced>> /\ brainOnly
-----------------------------------------------------------------------------
(* The tick's poll pass.                                                   *)

tickOnly == UNCHANGED <<rows, holder, box, known, sent, announced, faults, crashes>>

OnlyRunning == {j \in Jobs : rows[j] # Null /\ rows[j].state = "running"}  \* mutant
DueJobs == {j \in Jobs : Open(j)}

SelectDue ==
  /\ "tick" \in Ops /\ call[Tick].op = "idle" /\ due = {}
  /\ DueJobs # {}
  /\ due' = {[job |-> j, seen |-> rows[j].state] : j \in DueJobs}
  /\ UNCHANGED call /\ tickOnly

PollDue(d) ==
  /\ d \in due /\ call[Tick].op = "idle" /\ known
  /\ due' = due \ {d}
  /\ Does(Tick, [op |-> "poll", job |-> d.job, seen |-> d.seen])
  /\ tickOnly

\* The box is not pollable now, or the budget is spent.
SkipDue(d) ==
  /\ d \in due /\ call[Tick].op = "idle" /\ known
  /\ due' = due \ {d}
  /\ UNCHANGED call /\ tickOnly

\* The box left the fleet: loseJob, if the row is still open, and finish.
LoseDue(d) ==
  /\ d \in due /\ call[Tick].op = "idle" /\ ~known
  /\ due' = due \ {d}
  /\ rows' = IF Open(d.job) THEN SetState(d.job, "lost") ELSE rows
  /\ Does(Tick, [op |-> "finish", job |-> d.job, to |-> "lost", tell |-> TRUE])
  /\ UNCHANGED <<holder, box, known, sent, announced, faults, crashes>>

\* pollJob's one UPDATE: an unreadable answer writes back the state the poll
\* started from.
PollWrite(a) ==
  /\ call[a].op = "answer" /\ Turn(a)
  /\ LET c == call[a] IN
     /\ rows' = SetState(c.job, IF c.said = Null THEN c.seen ELSE c.said)
     /\ IF c.said \in TerminalStates
        THEN Does(a, [op |-> "finish", job |-> c.job, to |-> c.said, tell |-> TRUE])
        ELSE Does(a, Idle)
  /\ UNCHANGED <<holder, sent, announced>> /\ brainOnly

\* Release the lease the job took; ask the throttle; tell an operator, which the
\* API's `notify' does not.
KeptLease(a) ==  \* mutant: a finished job keeps its lease
  /\ call[a].op = "finish"
  /\ Does(a, Idle)
  /\ UNCHANGED <<rows, holder, sent, announced>> /\ brainOnly
Finish(a) ==
  /\ call[a].op = "finish"
  /\ LET c == call[a]
         due24 == c.tell /\ c.to \in Alerting /\ c.to \notin sent
     IN /\ holder' = AfterRelease(c.job, rows[c.job].own)
        /\ sent' = IF due24 THEN sent \cup {c.to} ELSE sent
        /\ announced' = IF due24 /\ a = Tick THEN announced \cup {c.job} ELSE announced
  /\ Does(a, Idle)
  /\ UNCHANGED rows /\ brainOnly
-----------------------------------------------------------------------------
(* The ssh calls, as the box serves them or as they fail.                  *)

sshOnly == UNCHANGED <<rows, holder, due, known, sent, announced, crashes>>

\* job start: rc 75 when the slot is held, otherwise a record and a wrapper.
BoxStarts(h) ==
  /\ call[h].op = "create" /\ call[h].at = "sent" /\ known
  /\ \/ /\ SlotTaken
        /\ Does(h, [call[h] EXCEPT !.at = "failed"]) /\ UNCHANGED box
     \/ /\ ~SlotTaken
        /\ Does(h, [call[h] EXCEPT !.at = "ok"])
        /\ box' = [box EXCEPT ![call[h].job] = "launching"]
  /\ UNCHANGED faults /\ sshOnly

\* job stop: a record with an rc answers 0 as it is, one without becomes stopped.
BoxStops(h) ==
  /\ call[h].op = "stop" /\ call[h].at = "sent" /\ known
  /\ LET j == call[h].job IN
     /\ Does(h, [call[h] EXCEPT !.at = IF box[j] = "none" THEN "failed" ELSE "ok"])
     /\ box' = IF box[j] \in {"launching", "running", "down", "lost"}
               THEN [box EXCEPT ![j] = "stopped"] ELSE box
  /\ UNCHANGED faults /\ sshOnly

\* job status.
BoxAnswers(a) ==
  /\ call[a].op = "poll" /\ known
  /\ Does(a, [op |-> "answer", job |-> call[a].job, seen |-> call[a].seen,
              said |-> Said(box[call[a].job])])
  /\ UNCHANGED <<box, faults>> /\ sshOnly

\* The call is not served, or it was and its answer is lost.
CallFails(a) ==
  /\ faults < MaxFaults /\ faults' = faults + 1
  /\ \/ /\ call[a].op \in {"create", "stop"} /\ call[a].at \in {"sent", "ok"}
        /\ Does(a, [call[a] EXCEPT !.at = "failed"])
     \/ /\ call[a].op = "poll"
        /\ Does(a, [op |-> "answer", job |-> call[a].job, seen |-> call[a].seen, said |-> Null])
  /\ UNCHANGED box /\ sshOnly

\* A box that left the fleet answers nothing.
CallToGoneBox(a) ==
  /\ ~known
  /\ \/ /\ call[a].op \in {"create", "stop"} /\ call[a].at = "sent"
        /\ Does(a, [call[a] EXCEPT !.at = "failed"])
     \/ /\ call[a].op = "poll"
        /\ Does(a, [op |-> "answer", job |-> call[a].job, seen |-> call[a].seen, said |-> Null])
  /\ UNCHANGED <<box, faults>> /\ sshOnly
-----------------------------------------------------------------------------
(* What happens by itself.                                                 *)

boxOnly == UNCHANGED <<rows, holder, call, due, known, sent, announced, faults, crashes>>

\* The wrapper plants its marker.
BoxLaunches(j) == box[j] = "launching" /\ box' = [box EXCEPT ![j] = "running"] /\ boxOnly

\* The command ends: a run records its rc, a service leaves none.
BoxEnds(j) ==
  /\ box[j] = "running"
  /\ \E s \in (IF j \in Services THEN {"down"} ELSE Ends) :
       box' = [box EXCEPT ![j] = s]
  /\ boxOnly

\* The guard restarts a service, or gives up on it.
GuardRestarts(j) ==
  /\ box[j] = "down"
  /\ \E s \in {"launching", "crashloop"} : box' = [box EXCEPT ![j] = s]
  /\ boxOnly

\* An image swap, or a reboot: every wrapper and marker is gone.
ImageSwap ==
  /\ "swap" \in Ops
  /\ \E j \in Jobs : box[j] \in {"launching", "running"}
  /\ box' = [j \in Jobs |-> IF box[j] \notin {"launching", "running"} THEN box[j]
                            ELSE IF j \in Services THEN "down" ELSE "lost"]
  /\ boxOnly

\* jobs_prune drops an old terminal record.
BoxForgets(j) ==
  /\ box[j] \in TerminalStates \ {"lost"}
  /\ box' = [box EXCEPT ![j] = "none"] /\ boxOnly

leaseOnly == UNCHANGED <<rows, box, call, due, known, sent, announced, faults, crashes>>

CallerTakes == "supplied" \in Ops /\ holder = "free" /\ holder' = "caller" /\ leaseOnly
CallerGivesBack == holder = "caller" /\ holder' = "free" /\ leaseOnly

\* The tick ended the job's lease: its TTL is not the job's cap, and a box that
\* slept past the lost grace has lost its lease and kept its job.
LeaseLapses(j) == "lapse" \in Ops /\ holder = j /\ holder' = "free" /\ leaseOnly

Retire == /\ "retire" \in Ops /\ known /\ known' = FALSE
          /\ UNCHANGED <<rows, holder, box, call, due, sent, announced, faults, crashes>>

ApiCrash ==
  /\ crashes < MaxCrashes /\ crashes' = crashes + 1
  /\ \E h \in Handlers : call[h].op # "idle"
  /\ call' = [a \in Actors |-> IF a = Tick THEN call[a] ELSE Idle]
  /\ UNCHANGED <<rows, holder, box, due, known, sent, announced, faults>>

TickCrash ==
  /\ crashes < MaxCrashes /\ crashes' = crashes + 1
  /\ call[Tick].op # "idle" \/ due # {}
  /\ Does(Tick, Idle) /\ due' = {}
  /\ UNCHANGED <<rows, holder, box, known, sent, announced, faults>>

Proceeds(a) ==
  \/ CreateRow(a) \/ CreateReply(a) \/ StopReply(a) \/ PollWrite(a) \/ Finish(a)
  \/ BoxStarts(a) \/ BoxStops(a) \/ BoxAnswers(a) \/ CallToGoneBox(a)

Brain ==
  \/ \E h \in Handlers, j \in Jobs : CreateLease(h, j) \/ StopRead(h, j) \/ RefreshRead(h, j)
  \/ SelectDue \/ \E d \in due : PollDue(d) \/ SkipDue(d) \/ LoseDue(d)
  \/ \E a \in Actors : Proceeds(a) \/ CallFails(a)
  \/ ApiCrash \/ TickCrash

World ==
  \/ \E j \in Jobs : BoxLaunches(j) \/ BoxEnds(j) \/ GuardRestarts(j) \/ BoxForgets(j) \/ LeaseLapses(j)
  \/ ImageSwap \/ CallerTakes \/ CallerGivesBack \/ Retire

Next == Brain \/ World

Spec == Init /\ [][Next]_vars

\* A call ends, by its timeout at the latest; ticks recur and do not skip a job
\* for ever; a wrapper starts, and a run ends by its cap.
Fairness ==
  /\ \A a \in Actors : WF_vars(Proceeds(a))
  /\ WF_vars(SelectDue)
  /\ \A j \in Jobs : SF_vars(\E d \in due : d.job = j /\ (PollDue(d) \/ LoseDue(d)))
  /\ WF_vars(\E d \in due : SkipDue(d))
  /\ \A j \in Jobs \ Services : WF_vars(BoxLaunches(j)) /\ WF_vars(BoxEnds(j))

FairSpec == Spec /\ Fairness
-----------------------------------------------------------------------------
(* Properties.                                                             *)

\* Every variable holds a value of its type.
TypeOK ==
  /\ rows \in [Jobs -> [state: OpenStates \cup TerminalStates, own: BOOLEAN] \cup {Null}]
  /\ holder \in {"free", "caller"} \cup Jobs
  /\ box \in [Jobs -> BoxStates]
  /\ call \in [Actors -> Calls]
  /\ due \in SUBSET [job: Jobs, seen: OpenStates]
  /\ known \in BOOLEAN
  /\ sent \in SUBSET Alerting
  /\ announced \in SUBSET Jobs
  /\ faults \in 0..MaxFaults /\ crashes \in 0..MaxCrashes

\* A row says done, failed, timeout or crashloop only of a job whose record says
\* so, however stale the poll that wrote it (stateFromBox: "guessing failed would
\* invent an rc").
RowsRepeatTheBox ==
  \A j \in Jobs :
    rows[j] # Null /\ rows[j].state \in {"done", "failed", "timeout", "crashloop"}
    => box[j] \in {rows[j].state, "none"}

\* No crash and no lost answer leaves a process nothing in the store knows of:
\* a record on the box has a row (handleJobCreate: the row FIRST).
RowFirst == \A j \in Jobs : box[j] # "none" => rows[j] # Null

\* The store and the box agree as far as two machines can: what is on the box has
\* a row, and an ending in a row is the box's.
RowsAgree == RowFirst /\ RowsRepeatTheBox

\* Nothing a job does ends the lease its caller supplied (J3).
CallersLeaseOutlivesJob ==
  [][holder = "caller" /\ holder' # "caller" => UNCHANGED <<rows, call, box, due>>]_vars

\* Every run is closed in the end and stays closed, whatever crashed, raced or
\* went unread: the next poll catches up.  (A client that refreshes for ever can
\* reopen a row for ever, with answers older than the tick's.)
EveryRunCloses ==
  \A j \in Jobs \ Services :
    <>[]~Open(j) \/ []<><<\E h \in Handlers : RefreshRead(h, j)>>_vars

\* If neither program ever dies, the lease a run acquired is given back: "only a
\* lease the JOB acquired is released when the job ends", and it is.
OwnLeaseReturns == [](crashes = 0) => \A j \in Jobs \ Services : holder = j ~> holder # j

\* "A row without a process is recoverable; a process without a row is not": a
\* job that runs on the box is one the tick still polls.
NoOrphan == \A j \in Jobs : box[j] = "running" /\ known /\ Untouched(j) => Open(j)

\* "One alert per job per terminal state": an operator is told of a job that failed.
FailureAnnounced ==
  \A j \in Jobs : rows[j] # Null /\ rows[j].state = "failed" /\ Untouched(j) => j \in announced
-----------------------------------------------------------------------------
(* More statements of the docs and comments that the races of the code     *)
(* refute; the README tells how each fails.                                *)

\* "The row reaches a terminal state exactly once" (job-tick.ts).
TerminalOnce == [][\A j \in Jobs : Terminal(j) => rows'[j].state = rows[j].state]_vars

\* "The box wrote rc 143 and released its slot; record the same here": a row that
\* says stopped is of a job the box stopped.
StoppedIsStopped ==
  \A j \in Jobs : rows[j] # Null /\ rows[j].state = "stopped" => box[j] \in {"stopped", "none"}

\* "This box is in use" is the deferring lease: a job running under a lease of
\* its own holds the box.
InUseWhileRunning ==
  \A j \in Jobs : Open(j) /\ rows[j].own /\ box[j] = "running" /\ Untouched(j) => holder = j
=============================================================================
