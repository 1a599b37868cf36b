------------------------------- MODULE JobLog -------------------------------
(* A job's log on its three sites: the file on the box, which the box's guard  *)
(* empties at its bound (boxup jobs_bound_logs, disk_truncate_one); the mirror *)
(* that polls fetch into the brain's files (fleet/src/reconcile/job-tick.ts);  *)
(* and the terminal of `grokfleet job run', which reads the mirror by offset   *)
(* until the job is over (fleet/src/commands/job.ts).  The tick and any number *)
(* of `?refresh=1' requests poll without a lock.                               *)
(* The bytes of the job's output are 1, 2, ... in the order it wrote them, and *)
(* a marker line of the mirror is 0.                                           *)
EXTENDS Integers, Sequences, FiniteSets

CONSTANTS
  Pollers,     \* polls that may run at a time: the tick's, and of requests
  LogMax,      \* JOBS_LOG_MAX_BYTES, the bound of the file on the box
  Null,
  FetchMax,    \* JOB_LOG_FETCH_MAX, the most one call returns
  MirrorMax,   \* JOB_LOG_MIRROR_MAX, the bound of the mirror
  MaxBytes,    \* bound: bytes the job writes
  MaxJobLosses,   \* bound: calls that fail
  MaxPolls     \* bound: polls begun by the others

ASSUME JobLogAssumption ==
  /\ {LogMax, FetchMax, MirrorMax} \subseteq Nat \ {0}
  /\ {MaxBytes, MaxJobLosses, MaxPolls} \subseteq Nat

StopPolls == 3               \* JOB_STOP_WAIT_MS / JOB_POLL_MS
Marker == 0

VARIABLES
  box,      \* the job and its record: bytes written and emptied, the counters
  guard,    \* the box's guard: where it is in a truncation, the size it saw
  jobRow,      \* the job's row in the store
  mirror,   \* the brain's copy
  poll,     \* each poller: its copy of the row and the status it was given
  client,   \* the wrapper at the terminal
  jobLosses, begun,
  seen      \* history: bytes the markers told of; what may spoil the mirror

jobLogVars == <<box, guard, jobRow, mirror, poll, client, jobLosses, begun, seen>>

JobLogTypeOK ==
  /\ box \in [wrote : 0..MaxBytes, emptied : 0..MaxBytes, over : BOOLEAN,
              truncations : Nat, total : 0..MaxBytes]
  /\ guard \in [pc : {"idle", "measured", "emptied"}, size : 0..MaxBytes]
  /\ jobRow \in [over : BOOLEAN, offset : Nat, mirrored : Nat, lost : Int, truncations : Nat]
  /\ mirror \in Seq(0..MaxBytes)
  /\ client \in [pc : {"asks", "waits", "drains", "sleeps", "gone"}, by : Pollers \cup {Null},
                  offset : Nat, over : BOOLEAN, interrupted : BOOLEAN, polls : -1..StopPolls]
  /\ seen \in [told : Nat, crossed : BOOLEAN, unread : BOOLEAN]

NoStatus == [bytes |-> 0, truncations |-> 0, total |-> 0, over |-> FALSE]
Idle == [pc |-> "idle", job |-> [over |-> FALSE, offset |-> 0, mirrored |-> 0,
                                 lost |-> 0, truncations |-> 0],
         st |-> NoStatus]

JobLogInit ==
  /\ box = [wrote |-> 0, emptied |-> 0, over |-> FALSE, truncations |-> 0, total |-> 0]
  /\ guard = [pc |-> "idle", size |-> 0]
  /\ jobRow = Idle.job
  /\ mirror = <<>>
  /\ poll = [p \in Pollers |-> Idle]
  /\ client = [pc |-> "asks", by |-> Null, offset |-> 0, over |-> FALSE, interrupted |-> FALSE, polls |-> -1]
  /\ jobLosses = 0 /\ begun = 0
  /\ seen = [told |-> 0, crossed |-> FALSE, unread |-> FALSE]

LosePoll == jobLosses < MaxJobLosses /\ jobLosses' = jobLosses + 1

-----------------------------------------------------------------------------
(* The box.                                                                    *)

LogBytes == box.wrote - box.emptied

\* What `boxup job log <offset>' answers.
LogFrom(offset) ==
  LET n == IF LogBytes - offset < FetchMax THEN LogBytes - offset ELSE FetchMax IN
  [i \in 1..(IF n < 0 THEN 0 ELSE n) |-> box.emptied + offset + i]

Polling == {p \in Pollers : poll[p].pc = "status"}

\* A byte written between the guard's `stat' and its `truncate' is counted nowhere.
Write ==
  /\ ~box.over /\ box.wrote < MaxBytes
  /\ box' = [box EXCEPT !.wrote = @ + 1]
  /\ seen' = [seen EXCEPT !.crossed = @ \/ guard.pc = "measured"]
  /\ UNCHANGED <<guard, jobRow, mirror, poll, client, jobLosses, begun>>

JobEnds ==
  /\ ~box.over
  /\ box' = [box EXCEPT !.over = TRUE]
  /\ UNCHANGED <<guard, jobRow, mirror, poll, client, jobLosses, begun, seen>>

Measure ==
  /\ guard.pc = "idle" /\ LogBytes > LogMax
  /\ guard' = [pc |-> "measured", size |-> LogBytes]
  /\ UNCHANGED <<box, jobRow, mirror, poll, client, jobLosses, begun, seen>>

Empty ==
  /\ guard.pc = "measured"
  /\ guard' = [guard EXCEPT !.pc = "emptied"]
  /\ box' = [box EXCEPT !.emptied = box.wrote]
  /\ seen' = [seen EXCEPT !.crossed = @ \/ Polling # {}]
  /\ UNCHANGED <<jobRow, mirror, poll, client, jobLosses, begun>>

\* jobs_record_truncation: the two counters a status line carries.
Count ==
  /\ guard.pc = "emptied"
  /\ guard' = [pc |-> "idle", size |-> 0]
  /\ box' = [box EXCEPT !.truncations = @ + 1, !.total = @ + guard.size]
  /\ UNCHANGED <<jobRow, mirror, poll, client, jobLosses, begun, seen>>

-----------------------------------------------------------------------------
(* One poll (pollJob): read the row, ask for the status, mark a truncation in  *)
(* the mirror, fetch what the log grew by, and write the row: no transaction   *)
(* and no lock across the two calls.                                           *)

PollBegins(p) ==
  /\ poll[p].pc = "idle" /\ ~jobRow.over
  /\ \/ /\ client.pc = "asks"
        /\ client' = [client EXCEPT !.pc = "waits", !.by = p]
        /\ UNCHANGED begun
     \/ /\ begun < MaxPolls
        /\ begun' = begun + 1
        /\ client.by # p
        /\ UNCHANGED client
  /\ poll' = [poll EXCEPT ![p].pc = "row", ![p].job = jobRow]
  /\ seen' = [seen EXCEPT !.crossed = @ \/ \E q \in Pollers : poll[q].pc # "idle"]
  /\ UNCHANGED <<box, guard, jobRow, mirror, jobLosses>>

\* The counter has moved: tell what was destroyed unread, begin again at 0.
Rose(job, st) == st.truncations > job.truncations
LostSoFar(job, st) == st.total - job.mirrored
AfterRise(job, st) ==
  IF Rose(job, st) THEN [job EXCEPT !.lost = LostSoFar(job, st), !.offset = 0] ELSE job

\* For mutation: the marker tells the running total.
ToldTotals(job, st) == IF Rose(job, st) /\ LostSoFar(job, st) > 0 THEN LostSoFar(job, st) ELSE 0

Told(job, st) ==
  LET n == LostSoFar(job, st) - job.lost IN IF Rose(job, st) /\ n > 0 THEN n ELSE 0

Fetches(job, st) == job.mirrored < MirrorMax /\ st.bytes > job.offset

\* The one UPDATE: whatever is in the row now is overwritten.
Written(job, st) == [job EXCEPT !.truncations = st.truncations, !.over = st.over]

StatusNow == [bytes |-> LogBytes, truncations |-> box.truncations,
              total |-> box.total, over |-> box.over]

Status(p) ==
  LET st == StatusNow
      job == AfterRise(poll[p].job, st) IN
  /\ poll[p].pc = "row"
  /\ mirror' = IF Rose(poll[p].job, st) THEN Append(mirror, Marker) ELSE mirror
  /\ seen' = [seen EXCEPT !.told = @ + Told(poll[p].job, st),
                          !.crossed = @ \/ guard.pc = "emptied"]
  /\ IF Fetches(job, st)
       THEN /\ poll' = [poll EXCEPT ![p] = [pc |-> "status", job |-> job, st |-> st]]
            /\ UNCHANGED jobRow
       ELSE /\ poll' = [poll EXCEPT ![p] = Idle]
            /\ jobRow' = Written(job, st)
  /\ UNCHANGED <<box, guard, client, jobLosses, begun>>

\* No status line: the row stays as it is and the poll is over.
StatusLost(p) ==
  /\ poll[p].pc = "row" /\ LosePoll
  /\ poll' = [poll EXCEPT ![p] = Idle]
  /\ UNCHANGED <<box, guard, jobRow, mirror, client, begun, seen>>

Fetch(p) ==
  LET job == poll[p].job
      chunk == LogFrom(job.offset) IN
  /\ poll[p].pc = "status"
  /\ \/ /\ mirror' = mirror \o chunk
        /\ jobRow' = Written([job EXCEPT !.offset = @ + Len(chunk), !.mirrored = @ + Len(chunk)],
                          poll[p].st)
        /\ UNCHANGED jobLosses
     \/ LosePoll /\ jobRow' = Written(job, poll[p].st) /\ UNCHANGED mirror
  /\ poll' = [poll EXCEPT ![p] = Idle]
  /\ UNCHANGED <<box, guard, client, begun, seen>>

-----------------------------------------------------------------------------
(* The wrapper (waitAndStream): ask for the job, print what the mirror has,    *)
(* end on a terminal state; an interrupt sends one stop and three more polls.  *)

\* GET /v1/jobs/:id?refresh=1 answers the row; a terminal job is not polled.
Answered ==
  /\ \/ client.pc = "asks" /\ jobRow.over
     \/ client.pc = "waits" /\ poll[client.by].pc = "idle"
  /\ client' = [client EXCEPT !.over = jobRow.over, !.by = Null,
                              !.pc = IF jobRow.over \/ client.polls < 0 THEN "drains" ELSE "sleeps"]
  /\ UNCHANGED <<box, guard, jobRow, mirror, poll, jobLosses, begun, seen>>

\* Eight seconds without an answer; the server goes on with the poll.
Unanswered ==
  /\ client.pc \in {"asks", "waits"} /\ LosePoll
  /\ client' = [client EXCEPT !.pc = "sleeps", !.by = Null]
  /\ UNCHANGED <<box, guard, jobRow, mirror, poll, begun, seen>>

Slice == SubSeq(mirror, client.offset + 1,
                IF client.offset + FetchMax < Len(mirror) THEN client.offset + FetchMax
                                                         ELSE Len(mirror))

\* After the drain: a terminal state ends it, a first interrupt sends the stop.
Turn(c) ==
  CASE c.over -> [c EXCEPT !.pc = "gone"]
    [] ~c.over /\ c.interrupted -> [c EXCEPT !.interrupted = FALSE, !.polls = 0, !.pc = "sleeps"]
    [] OTHER -> [c EXCEPT !.pc = "sleeps"]

Drain ==
  /\ client.pc = "drains"
  /\ client' = IF Slice = <<>> THEN Turn(client)
               ELSE [client EXCEPT !.offset = @ + Len(Slice)]
  /\ UNCHANGED <<box, guard, jobRow, mirror, poll, jobLosses, begun, seen>>

DrainFails ==
  /\ client.pc = "drains" /\ LosePoll
  /\ client' = Turn(client)
  /\ seen' = [seen EXCEPT !.unread = TRUE]
  /\ UNCHANGED <<box, guard, jobRow, mirror, poll, begun>>

\* A failed poll is no verdict: without a stop under way the wait has no end.
Awakes ==
  /\ client.pc = "sleeps"
  /\ client' = CASE client.polls < 0 -> [client EXCEPT !.pc = "asks"]
                 [] client.polls \in 0..(StopPolls - 1) ->
                      [client EXCEPT !.pc = "asks", !.polls = @ + 1]
                 [] OTHER -> [client EXCEPT !.pc = "gone"]
  /\ UNCHANGED <<box, guard, jobRow, mirror, poll, jobLosses, begun, seen>>

Interrupt ==
  /\ client.pc # "gone" /\ ~client.interrupted /\ client.polls < 0
  /\ client' = [client EXCEPT !.interrupted = TRUE]
  /\ UNCHANGED <<box, guard, jobRow, mirror, poll, jobLosses, begun, seen>>

JobLogDone ==
  /\ client.pc = "gone" /\ box.over /\ guard.pc = "idle"
  /\ \A p \in Pollers : poll[p].pc = "idle"
  /\ UNCHANGED jobLogVars

JobLogNext ==
  \/ Write \/ JobEnds \/ Measure \/ Empty \/ Count
  \/ \E p \in Pollers : PollBegins(p) \/ Status(p) \/ StatusLost(p) \/ Fetch(p)
  \/ Answered \/ Unanswered \/ Drain \/ DrainFails \/ Awakes \/ Interrupt
  \/ JobLogDone

JobLogSpec == JobLogInit /\ [][JobLogNext]_jobLogVars

-----------------------------------------------------------------------------
(* Unless two polls overlapped or a truncation fell within a poll, the mirror  *)
(* holds the job's bytes in order, each at most once, and when the last        *)
(* truncation has been seen its markers have told of exactly the bytes that    *)
(* were emptied unread: also when one poll missed several truncations, and     *)
(* when the mirror had stopped at its own bound.                               *)
InOrder ==
  \A i, j \in DOMAIN mirror :
    i < j /\ mirror[i] # Marker /\ mirror[j] # Marker => mirror[i] < mirror[j]
Mirrored == {mirror[i] : i \in DOMAIN mirror} \ {Marker}
Missing == 1..box.emptied \ Mirrored

MirrorAccounts ==
  ~seen.crossed =>
    /\ InOrder
    /\ jobRow.truncations = box.truncations /\ guard.pc = "idle"
         => seen.told = Cardinality(Missing)

(* When the wrapper has seen the job end and no read of the mirror failed, it  *)
(* has printed everything the brain fetched of the log: its last poll's chunk  *)
(* is there before the last drain.                                             *)
TailPrinted ==
  client.pc = "gone" /\ client.over /\ ~seen.unread /\ ~seen.crossed
    => client.offset = Len(mirror)

(* What was told of a job's log is all there is to tell: every byte is in the  *)
(* mirror or in a marker's count, and every byte of the mirror was printed.    *)
LogTold == MirrorAccounts /\ TailPrinted
=============================================================================
