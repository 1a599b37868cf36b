------------------------------ MODULE BoxJobs -------------------------------
(***************************************************************************)
(* The box's half of a job: the job runner of boxup.  `job start' and      *)
(* `job stop' are shell commands of many steps, the guard is a pass of the *)
(* worker's tick, and a job is a wrapper process of its own; they share    *)
(* nothing but files: the durable record, and the marker and the one slot  *)
(* under /run, which an image swap clears.  Backoff is in JobRestart.      *)
(***************************************************************************)
EXTENDS Integers, FiniteSets

CONSTANTS
  Jobs,      \* job ids: never drawn twice
  Services,  \* the keep-alive jobs; the others run once
  Callers,   \* ssh commands that can be under way at once
  Guard,     \* the guard's pass in the worker's tick
  Pids,      \* process ids, which are reused
  Overlap,   \* "none": a command or a pass begins when no other is under way and
             \* the last wrapper has planted its marker; "stop": and a pass also
             \* beside a stop; "all": all of them do, as nothing forbids
  MaxSwaps,  \* bound: image swaps
  MaxKills,  \* bound: commands, passes and wrappers killed half-way
  Null

Records == [rc : {"none", "0", "1", "143"}, stopped : BOOLEAN, pgid : Pids \cup {Null}]
Wrappers == [job : Jobs, rc : {"none", "0", "1"}, at : {"spawned", "up", "runs", "ended", "recorded"}]

ASSUME BoxAssumption ==
  /\ Services \subseteq Jobs /\ Guard \notin Callers /\ Overlap \in {"none", "stop", "all"}
  /\ Null \notin Jobs \cup Pids \cup Records \cup Wrappers /\ {"free", "blank"} \cap Jobs = {}
  /\ {MaxSwaps, MaxKills} \subseteq Nat

VARIABLES
  rec,     \* rec[j]: the durable record of j, or Null
  marker,  \* marker[j]: the pid in j's marker, or Null
  slot,    \* "free", "blank" (made, no id in it yet) or the job it names
  wrap,    \* wrap[p]: the wrapper that is process p, or Null
  child,   \* child[p]: the job whose command runs in process group p, or Null
  cmd,     \* cmd[c]: what command c is in the middle of
  todo,    \* the records the guard's pass has not reached
  swaps, kills

vars == <<rec, marker, slot, wrap, child, cmd, todo, swaps, kills>>
-----------------------------------------------------------------------------
Commands == Callers \cup {Guard}
Idle == [at |-> "idle", job |-> Null, does |-> "none", pgid |-> Null]
At(c, a) == [cmd EXCEPT ![c].at = a]
End(c) == [cmd EXCEPT ![c] = Idle]
Busy(c) == cmd[c] # Idle

\* `rc' is "none" until a terminal one is recorded; `pgid' is for signals only.
NewRecord == [rc |-> "none", stopped |-> FALSE, pgid |-> Null]
Recorded(j) == rec[j] # Null
Terminal(j) == rec[j].rc # "none"

\* A freshly spawned wrapper has not exec'ed: no scan of /proc knows it yet.
IsWrapperOf(p, j) == wrap[p] # Null /\ wrap[p].job = j /\ wrap[p].at # "spawned"
Live(j) == marker[j] # Null /\ IsWrapperOf(marker[j], j)
Scan(j) == {p \in Pids : IsWrapperOf(p, j)}

SlotHeld(j) ==
  \/ Live(j) \/ Scan(j) # {}
  \/ Recorded(j) /\ ~Terminal(j) /\ j \in Services

\* The command of j runs: what the runner promises is about these.
Running(j) == \E p \in Pids : child[p] = j

\* The last wrapper has planted its marker.
Settled == {p \in Pids : wrap[p] # Null /\ wrap[p].at \in {"spawned", "up"}} = {}

MayBegin(c) ==
  /\ ~Busy(c)
  /\ CASE Overlap = "none" -> Settled /\ \A d \in Commands : ~Busy(d)
       [] Overlap = "stop" -> Settled /\ \A d \in Commands : Busy(d) => c = Guard /\ cmd[d].does = "stop"
       [] OTHER -> TRUE

Init ==
  /\ rec = [j \in Jobs |-> Null] /\ marker = [j \in Jobs |-> Null] /\ slot = "free"
  /\ wrap = [p \in Pids |-> Null] /\ child = [p \in Pids |-> Null]
  /\ cmd = [c \in Commands |-> Idle] /\ todo = {}
  /\ swaps = 0 /\ kills = 0

files == <<rec, marker, slot>>
processes == <<wrap, child>>
bounds == <<swaps, kills>>
-----------------------------------------------------------------------------
(* The slot: an atomic mkdir, broken when the job it names cannot be there. *)

\* After the slot: the guard's pass goes on to the records, a start to its
\* second mkdir, a claim to its own.
NotHeld(c) == IF cmd[c].does = "supervise" THEN At(c, "look") ELSE At(c, "take")
\* A held slot refuses a start (rc 75), skips a restart, and is fine for the rest.
Refused(c) == IF cmd[c].does = "start" THEN End(c) ELSE At(c, "look")

SlotCheck(c) ==
  /\ cmd[c].at = "held"
  /\ cmd' = IF slot = "free" THEN NotHeld(c)
            ELSE IF slot = "blank" \/ SlotHeld(slot) THEN Refused(c)
            ELSE At(c, "break")
  /\ UNCHANGED <<files, processes, todo, bounds>>

\* rm -rf of whatever slot is there by now.
SlotBreak(c) ==
  /\ cmd[c].at = "break"
  /\ slot' = "free"
  /\ cmd' = NotHeld(c)
  /\ UNCHANGED <<rec, marker, processes, todo, bounds>>

SlotTake(c) ==
  /\ cmd[c].at = "take"
  /\ IF slot = "free"
       THEN slot' = "blank" /\ cmd' = At(c, "name")
       ELSE slot' = slot /\ cmd' = Refused(c)
  /\ UNCHANGED <<rec, marker, processes, todo, bounds>>

SlotName(c) ==
  /\ cmd[c].at = "name"
  /\ slot' = IF slot = "free" THEN "free" ELSE cmd[c].job
  /\ cmd' = CASE cmd[c].does = "start" -> At(c, "record")
              [] cmd[c].does = "restart" -> At(c, "launch")
              [] OTHER -> At(c, "look")
  /\ UNCHANGED <<rec, marker, processes, todo, bounds>>

\* An id that a file or a stop still names, or any other: the lowest of those.
FreePids == {q \in Pids : wrap[q] = Null /\ child[q] = Null}
Named(p) == \/ \E j \in Jobs : marker[j] = p \/ (Recorded(j) /\ rec[j].pgid = p)
            \/ \E c \in Commands : cmd[c].pgid = p
NextPids == {p \in FreePids : Named(p) \/ \A q \in FreePids : Named(q) \/ p <= q}

\* spawn_detached: the process is there before it is `boxup job-wrapper <id>'.
Launch(c) ==
  /\ cmd[c].at = "launch"
  /\ \E p \in NextPids :
       wrap' = [wrap EXCEPT ![p] = [job |-> cmd[c].job, at |-> "spawned", rc |-> "none"]]
  /\ cmd' = IF c = Guard THEN At(c, "look") ELSE End(c)
  /\ UNCHANGED <<files, child, todo, bounds>>
-----------------------------------------------------------------------------
(* `boxup job start' and `boxup job stop' *)

\* Ids not drawn yet are all alike, but that a service stays one.
Fresh == {j \in Jobs : ~Recorded(j) /\ \A d \in Callers : cmd[d].job # j}
NextIds == {j \in Fresh : j \in Services \/ j = CHOOSE i \in Fresh \ Services : TRUE}

\* A start of a fresh id: its first mkdir takes the slot or finds one.
Start(c, j) ==
  /\ MayBegin(c) /\ j \in NextIds
  /\ slot' = IF slot = "free" THEN "blank" ELSE slot
  /\ cmd' = [cmd EXCEPT ![c] = [Idle EXCEPT !.job = j, !.does = "start",
                                !.at = IF slot = "free" THEN "name" ELSE "held"]]
  /\ UNCHANGED <<rec, marker, processes, todo, bounds>>

StartRecord(c) ==
  /\ cmd[c].at = "record"
  /\ rec' = [rec EXCEPT ![cmd[c].job] = NewRecord]
  /\ cmd' = At(c, "launch")
  /\ UNCHANGED <<marker, slot, processes, todo, bounds>>

\* A stop of a terminal record only answers; it has no step.
Stop(c, j) ==
  /\ MayBegin(c) /\ Recorded(j) /\ ~Terminal(j)
  /\ cmd' = [cmd EXCEPT ![c] = [at |-> "term", job |-> j, does |-> "stop", pgid |-> rec[j].pgid]]
  /\ UNCHANGED <<files, processes, todo, bounds>>

\* A signal to a process group ends its wrapper and its command.
Signal(g) ==
  /\ wrap' = IF g = Null THEN wrap ELSE [wrap EXCEPT ![g] = Null]
  /\ child' = IF g = Null THEN child ELSE [child EXCEPT ![g] = Null]

StopTerm(c) ==
  /\ cmd[c].at = "term"
  /\ Signal(cmd[c].pgid)
  /\ cmd' = At(c, "wait")
  /\ UNCHANGED <<files, todo, bounds>>

\* Ten seconds of looking; KILL when the job is live at the end of them.
StopWait(c) ==
  /\ cmd[c].at = "wait"
  /\ IF Live(cmd[c].job) THEN Signal(cmd[c].pgid) ELSE UNCHANGED processes
  /\ cmd' = At(c, "rc")
  /\ UNCHANGED <<files, todo, bounds>>

StopRecord(c) ==
  /\ cmd[c].at = "rc"
  /\ rec' = [rec EXCEPT ![cmd[c].job].stopped = TRUE, ![cmd[c].job].rc = "143"]
  /\ cmd' = At(c, "release")
  /\ UNCHANGED <<marker, slot, processes, todo, bounds>>

StopRelease(c) ==
  /\ cmd[c].at = "release"
  /\ marker' = [marker EXCEPT ![cmd[c].job] = Null]
  /\ slot' = IF slot = cmd[c].job THEN "free" ELSE slot
  /\ cmd' = End(c)
  /\ UNCHANGED <<rec, processes, todo, bounds>>
-----------------------------------------------------------------------------
(* The guard: break a stale slot, then look at every record *)

GuardPass ==
  /\ MayBegin(Guard)
  /\ cmd' = [cmd EXCEPT ![Guard] = [Idle EXCEPT !.at = "held", !.does = "supervise"]]
  /\ todo' = {j \in Jobs : Recorded(j)}
  /\ UNCHANGED <<files, processes, bounds>>

\* Mutant: A guard that restarts what died and not what a swap took away.
GuardLookAtMarkers(j) ==
  /\ cmd[Guard].at = "look" /\ j \in todo
  /\ todo' = todo \ {j}
  /\ cmd' = IF Terminal(j) \/ Live(j) \/ j \notin Services \/ marker[j] = Null THEN cmd
            ELSE [cmd EXCEPT ![Guard] = [Idle EXCEPT !.at = "scan", !.job = j, !.does = "restart"]]
  /\ UNCHANGED <<files, processes, bounds>>

GuardLook(j) ==
  /\ cmd[Guard].at = "look" /\ j \in todo
  /\ todo' = todo \ {j}
  /\ cmd' = IF Terminal(j) \/ Live(j) \/ j \notin Services THEN cmd
            ELSE [cmd EXCEPT ![Guard] = [Idle EXCEPT !.at = "scan", !.job = j, !.does = "restart"]]
  /\ UNCHANGED <<files, processes, bounds>>

\* The marker of a live wrapper is put back; either way the slot is claimed.
GuardScan ==
  LET j == cmd[Guard].job  found == Scan(j)
      does == IF found = {} THEN "restart" ELSE "remark"
  IN
  /\ cmd[Guard].at = "scan"
  /\ IF found = {} THEN marker' = marker
     ELSE \E p \in found : marker' = [marker EXCEPT ![j] = p]
  /\ cmd' = [cmd EXCEPT ![Guard].does = does, ![Guard].at = "claim"]
  /\ UNCHANGED <<rec, slot, processes, todo, bounds>>

\* Mutant: A restart that does not take the slot a swap cleared.
GuardUnclaimed ==
  /\ cmd[Guard].at = "claim"
  /\ cmd' = At(Guard, IF cmd[Guard].does = "restart" THEN "launch" ELSE "look")
  /\ UNCHANGED <<files, processes, todo, bounds>>

GuardClaim ==
  /\ cmd[Guard].at = "claim"
  /\ cmd' = At(Guard, IF slot = cmd[Guard].job
                        THEN IF cmd[Guard].does = "restart" THEN "launch" ELSE "look"
                      ELSE IF slot = "free" THEN "take" ELSE "held")
  /\ UNCHANGED <<files, processes, todo, bounds>>

GuardDone ==
  /\ cmd[Guard].at = "look" /\ todo = {}
  /\ cmd' = End(Guard)
  /\ UNCHANGED <<files, processes, todo, bounds>>
-----------------------------------------------------------------------------
(* The wrapper and its command *)

\* exec, then pgid and marker are recorded and the command starts.
WrapperUp(p) ==
  /\ wrap[p] # Null /\ wrap[p].at = "spawned"
  /\ wrap' = [wrap EXCEPT ![p].at = "up"]
  /\ UNCHANGED <<files, child, cmd, todo, bounds>>

\* Mutant: the group is never recorded.
WrapperRunsUnrecorded(p) ==
  /\ wrap[p] # Null /\ wrap[p].at = "up"
  /\ marker' = [marker EXCEPT ![wrap[p].job] = p]
  /\ child' = [child EXCEPT ![p] = wrap[p].job]
  /\ wrap' = [wrap EXCEPT ![p].at = "runs"]
  /\ UNCHANGED <<rec, slot, cmd, todo, bounds>>

WrapperRuns(p) ==
  /\ wrap[p] # Null /\ wrap[p].at = "up"
  /\ rec' = [rec EXCEPT ![wrap[p].job].pgid = p]
  /\ marker' = [marker EXCEPT ![wrap[p].job] = p]
  /\ child' = [child EXCEPT ![p] = wrap[p].job]
  /\ wrap' = [wrap EXCEPT ![p].at = "runs"]
  /\ UNCHANGED <<slot, cmd, todo, bounds>>

\* The command ends.  A keep-alive wrapper leaves rc and marker as they are.
CommandEnds(p) ==
  /\ wrap[p] # Null /\ wrap[p].at = "runs"
  /\ child' = [child EXCEPT ![p] = Null]
  /\ IF wrap[p].job \in Services THEN wrap' = [wrap EXCEPT ![p] = Null]
     ELSE \E r \in {"0", "1"} : wrap' = [wrap EXCEPT ![p].at = "ended", ![p].rc = r]
  /\ UNCHANGED <<files, cmd, todo, bounds>>

WrapperRecords(p) ==
  /\ wrap[p] # Null /\ wrap[p].at = "ended"
  /\ rec' = [rec EXCEPT ![wrap[p].job].rc = wrap[p].rc]
  /\ wrap' = [wrap EXCEPT ![p].at = "recorded"]
  /\ UNCHANGED <<marker, slot, child, cmd, todo, bounds>>

WrapperReleases(p) ==
  /\ wrap[p] # Null /\ wrap[p].at = "recorded"
  /\ marker' = [marker EXCEPT ![wrap[p].job] = Null]
  /\ slot' = IF slot = wrap[p].job THEN "free" ELSE slot
  /\ wrap' = [wrap EXCEPT ![p] = Null]
  /\ UNCHANGED <<rec, child, cmd, todo, bounds>>

\* The kernel ends a whole group.
Dies(p) ==
  /\ wrap[p] # Null /\ wrap[p].at # "spawned" /\ kills < MaxKills
  /\ kills' = kills + 1
  /\ Signal(p)
  /\ UNCHANGED <<files, cmd, todo, swaps>>
-----------------------------------------------------------------------------
\* /workspace survives, /run and every process do not.
ImageSwap ==
  /\ swaps < MaxSwaps
  /\ swaps' = swaps + 1
  /\ marker' = [j \in Jobs |-> Null] /\ slot' = "free"
  /\ wrap' = [p \in Pids |-> Null] /\ child' = [p \in Pids |-> Null]
  /\ cmd' = [c \in Commands |-> Idle] /\ todo' = {}
  /\ UNCHANGED <<rec, kills>>

\* A wedged tick is killed by the worker loop, a command with its session.
Killed(c) ==
  /\ Busy(c) /\ kills < MaxKills
  /\ kills' = kills + 1
  /\ cmd' = End(c)
  /\ todo' = IF c = Guard THEN {} ELSE todo
  /\ UNCHANGED <<files, processes, swaps>>

SlotStep(c) == SlotCheck(c) \/ SlotBreak(c) \/ SlotTake(c) \/ SlotName(c) \/ Launch(c)
CallerStep(c) ==
  SlotStep(c) \/ StartRecord(c) \/ StopTerm(c) \/ StopWait(c) \/ StopRecord(c) \/ StopRelease(c)
GuardStep ==
  GuardPass \/ GuardScan \/ GuardClaim \/ GuardDone \/ SlotStep(Guard) \/ \E j \in Jobs : GuardLook(j)
WrapperStep(p) == WrapperUp(p) \/ WrapperRuns(p) \/ WrapperRecords(p) \/ WrapperReleases(p)

Next ==
  \/ \E c \in Callers : CallerStep(c) \/ \E j \in Jobs : Start(c, j) \/ Stop(c, j)
  \/ GuardStep
  \/ \E p \in Pids : WrapperStep(p) \/ CommandEnds(p) \/ Dies(p)
  \/ ImageSwap
  \/ \E c \in Commands : Killed(c)

Spec == Init /\ [][Next]_vars

\* A command and a wrapper run on, the worker's loop ticks for ever (it waits for
\* no command; SF because MayBegin would let refused starts keep it out when
\* Overlap is "none"), and the cap ends the command of a run.
Fairness ==
  /\ WF_vars(GuardStep) /\ SF_vars(GuardPass)
  /\ \A c \in Callers : WF_vars(CallerStep(c))
  /\ \A p \in Pids : WF_vars(WrapperStep(p) \/ (CommandEnds(p) /\ child[p] \notin Services))

FairSpec == Spec /\ Fairness
-----------------------------------------------------------------------------
Places == {"idle", "held", "break", "take", "name", "record", "launch", "term", "wait",
           "rc", "release", "look", "scan", "claim"}
Progress == [at : Places, job : Jobs \cup {Null}, pgid : Pids \cup {Null},
             does : {"none", "start", "stop", "supervise", "restart", "remark"}]

\* Every variable keeps its type; a wrapper and a step of a command belong to a
\* job with a record, and a command runs only under its own wrapper.
TypeOK ==
  /\ rec \in [Jobs -> {Null} \cup Records]
  /\ marker \in [Jobs -> Pids \cup {Null}]
  /\ slot \in {"free", "blank"} \cup Jobs
  /\ wrap \in [Pids -> {Null} \cup Wrappers]
  /\ child \in [Pids -> Jobs \cup {Null}]
  /\ cmd \in [Commands -> Progress]
  /\ todo \subseteq Jobs /\ swaps \in 0..MaxSwaps /\ kills \in 0..MaxKills
  /\ \A p \in Pids : wrap[p] # Null => Recorded(wrap[p].job)
  /\ \A p \in Pids : child[p] # Null =>
       wrap[p] # Null /\ wrap[p].job = child[p] /\ wrap[p].at = "runs"

\* `A box runs one job at a time': one command at most, whatever swaps, deaths,
\* half-done starts and reused pids leave in the files.
OneCommandPerBox == Cardinality({p \in Pids : child[p] # Null}) <= 1

\* When a stop has answered, the job's command does not run and never will.
StoppedStaysDown ==
  \A j \in Jobs :
    /\ Recorded(j) /\ rec[j].stopped
    /\ \A c \in Callers : ~(cmd[c].does = "stop" /\ cmd[c].job = j)
    => ~Running(j)

\* A service that is down comes back: after a swap, a death, a guard killed in
\* the middle of its restart.  Excepted is a slot made and never named, which
\* only the next swap clears.
ServiceReturns ==
  \A j \in Services :
    Recorded(j) /\ ~Terminal(j) ~> (Running(j) \/ (Recorded(j) /\ Terminal(j)) \/ slot = "blank")

=============================================================================
