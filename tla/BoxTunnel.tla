------------------------------ MODULE BoxTunnel ------------------------------
(* The reverse tunnel of one box (boxup, supervise_tunnel): an `ssh -N' that    *)
(* holds the box's port on the VPS, and the pass that adopts, thins out or      *)
(* respawns it.  Passes exclude each other (the converge lock), but one may be  *)
(* killed between two commands: by the tick's deadline, by a stop.  Beside the  *)
(* pass stand the processes themselves, an operator's own ssh, a link that      *)
(* dies without a word, and the VPS, which keeps the port of a dead session     *)
(* until its ClientAlive count is up.  The unit of time is one tick, 15 s.      *)
EXTENDS Integers, Sequences, FiniteSets, SequencesExt

CONSTANTS
  Pid,        \* bound: process ids, reused once free; 0 and -1 are none
  MaxFaults   \* bound: cuts, closings, killed passes, started strays, renumberings

ASSUME BoxTunnelAssumption ==
  /\ IsFiniteSet(Pid) /\ Pid \subseteq Nat \ {0}
  /\ MaxFaults \in Nat /\ Cardinality(Pid) > MaxFaults

VARIABLES
  kind,     \* what each process is: "tunnel" has our argv, port and key
  link,     \* how far a tunnel's connection is
  born,     \* the tunnels by start time, the newest last
  holder,   \* who holds the port on the VPS: a process, a dead session, nobody
  open,     \* the VPS is there and takes the key
  pidfile, fails, since,   \* tunnel.pid, fail.tunnel, the age of last-tunnel
  at, keep, todo,          \* the pass: its next command, the survivor, the extras
  tries, gap,   \* history: spawns since a pass saw one alive, the age of the last
  faults

process == <<kind, link, born, holder>>
files == <<pidfile, fails, since>>
pass == <<at, keep, todo>>
vars == <<kind, link, born, holder, open, pidfile, fails, since, at, keep, todo, tries, gap, faults>>

Nobody == 0
Ghost == -1
Cap == 20
Never == Cap + 1

\* tunnel_backoff_window, in ticks.
Window(f) == <<0, 0, 1, 2, 4, 8, 20>>[(IF f < 6 THEN f ELSE 6) + 1]

Tunnels == {p \in Pid : kind[p] = "tunnel"}
Free == {p \in Pid : kind[p] = "none"} \ ({keep} \cup todo)
\* The next process's id: the one the pidfile still names, or any other, and of
\* those nothing refers to the lowest stands for all.
NextPid == {p \in Free : p = pidfile \/ \A q \in Free \ {pidfile} : p <= q}
Newest(P) == Last(SelectSeq(born, LAMBDA p : p \in P))

BoxTunnelTypeOK ==
  /\ kind \in [Pid -> {"none", "tunnel", "old", "foreign", "other"}]
  /\ link \in [Pid -> {"none", "dialing", "up", "deaf"}]
  /\ ToSet(born) = Tunnels /\ Len(born) = Cardinality(Tunnels)
  /\ holder \in Pid \cup {Nobody, Ghost} /\ open \in BOOLEAN
  /\ pidfile \in Pid \cup {Nobody} /\ fails \in 0..6 /\ since \in 0..Never
  /\ at \in {"idle", "term", "sweep", "adopt", "look", "stamp", "count", "spawn", "record"}
  /\ keep \in Pid \cup {Nobody} /\ todo \subseteq Pid
  /\ tries \in 0..6 /\ gap \in 0..Never /\ faults \in 0..MaxFaults

Init ==
  /\ kind = [p \in Pid |-> "none"] /\ link = [p \in Pid |-> "none"] /\ born = <<>>
  /\ holder = Nobody /\ open = TRUE
  /\ pidfile = Nobody /\ fails = 0 /\ since = Never
  /\ at = "idle" /\ keep = Nobody /\ todo = {}
  /\ tries = 0 /\ gap = Never /\ faults = 0

-----------------------------------------------------------------------------
(* The processes.                                                              *)

Start(p, k) ==
  /\ kind' = [kind EXCEPT ![p] = k]
  /\ link' = [link EXCEPT ![p] = IF k = "tunnel" THEN "dialing" ELSE "none"]
  /\ born' = IF k = "tunnel" THEN Append(born, p) ELSE born

\* The processes of P are gone; the VPS is told when it can be.
End(P) ==
  /\ kind' = [p \in Pid |-> IF p \in P THEN "none" ELSE kind[p]]
  /\ link' = [p \in Pid |-> IF p \in P THEN "none" ELSE link[p]]
  /\ born' = SelectSeq(born, LAMBDA p : p \notin P)
  /\ holder' = IF holder \notin P THEN holder ELSE IF open THEN Nobody ELSE Ghost

\* The forward is asked for: the port is free, or ExitOnForwardFailure.
Dial(p) ==
  /\ open /\ kind[p] = "tunnel" /\ link[p] = "dialing"
  /\ IF holder = Nobody
     THEN /\ holder' = p /\ link' = [link EXCEPT ![p] = "up"]
          /\ UNCHANGED <<kind, born>>
     ELSE End({p})
  /\ UNCHANGED <<open, files, pass, tries, gap, faults>>

\* No connection, or no trust; or nobody answers the keepalives.
GiveUp(p) ==
  /\ kind[p] = "tunnel" /\ ((link[p] = "dialing" /\ ~open) \/ link[p] = "deaf")
  /\ End({p})
  /\ UNCHANGED <<open, files, pass, tries, gap, faults>>

\* The session of a client that is gone is reaped by the VPS.
Reap ==
  /\ holder = Ghost /\ holder' = Nobody
  /\ UNCHANGED <<kind, link, born, open, files, pass, tries, gap, faults>>

OtherEnds(p) ==
  /\ kind[p] \in {"old", "foreign", "other"} /\ End({p})
  /\ UNCHANGED <<open, files, pass, tries, gap, faults>>

\* Not between the stamps and the spawn, which no command that waits separates.
Later(t, cap) == IF t < cap THEN t + 1 ELSE t
TimePasses ==
  /\ (since < Cap \/ gap < Cap) /\ at \notin {"stamp", "count", "spawn"}
  /\ since' = Later(since, Cap) /\ gap' = Later(gap, Cap)
  /\ UNCHANGED <<process, open, pidfile, fails, pass, tries, faults>>

-----------------------------------------------------------------------------
(* One pass of supervise_tunnel.                                               *)

\* tunnel_pid: alive, and any `-R 127.0.0.1:' in its argv.
PidfileAlive == pidfile # Nobody /\ kind[pidfile] \in {"tunnel", "old", "foreign"}

BackingOff == since < Never /\ since < Window(fails)

Goto(next) == at' = next /\ UNCHANGED <<keep, todo>>
Done == at' = "idle" /\ keep' = Nobody /\ todo' = {}
Seen == fails' = 0 /\ tries' = 0

\* Mutant: only the pidfile is asked, as it was before strays were adopted.
CandidatesOfPidfile == Tunnels \cap {pidfile}

\* tunnel_candidates: every process with our argv, whatever the pidfile says.
Candidates == Tunnels

\* The newest survives.
Scan ==
  /\ at = "idle"
  /\ IF Candidates = {} THEN Goto("look")
     ELSE LET k == Newest(Candidates) IN
          /\ keep' = k /\ todo' = Candidates \ {k}
          /\ at' = IF Candidates = {k} THEN "adopt" ELSE "term"
  /\ UNCHANGED <<process, open, files, tries, gap, faults>>

\* TERM to every extra; one that has not gone a second later gets KILL.
Term ==
  /\ at = "term"
  /\ \E P \in SUBSET (todo \cap Tunnels) : End(P)
  /\ Goto("sweep")
  /\ UNCHANGED <<open, files, tries, gap, faults>>

Sweep ==
  /\ at = "sweep" /\ End(todo \cap Tunnels) /\ Goto("adopt")
  /\ UNCHANGED <<open, files, tries, gap, faults>>

Adopt ==
  /\ at = "adopt" /\ pidfile' = keep /\ Seen /\ Done
  /\ UNCHANGED <<process, open, since, gap, faults>>

\* No candidate: the pidfile's process, or the window, or a spawn.
Look ==
  /\ at = "look"
  /\ \/ /\ PidfileAlive /\ Seen /\ Done
     \/ /\ ~PidfileAlive /\ BackingOff
        /\ Done /\ UNCHANGED <<fails, tries>>
     \/ /\ ~PidfileAlive /\ ~BackingOff
        /\ Goto("stamp") /\ UNCHANGED <<fails, tries>>
  /\ UNCHANGED <<process, open, pidfile, since, gap, faults>>

\* Mutant: last-tunnel stamped only once the new pid is known: never by a killed pass.
StampForgotten ==
  /\ at = "stamp" /\ Goto("count")
  /\ UNCHANGED <<process, files, open, tries, gap, faults>>

\* Both stamps stand before the spawn.
Stamp ==
  /\ at = "stamp" /\ since' = 0 /\ Goto("count")
  /\ UNCHANGED <<process, open, pidfile, fails, tries, gap, faults>>

Count ==
  /\ at = "count" /\ fails' = Later(fails, 6) /\ Goto("spawn")
  /\ UNCHANGED <<process, open, pidfile, since, tries, gap, faults>>

Spawn ==
  /\ at = "spawn"
  /\ \E p \in NextPid : Start(p, "tunnel")
  /\ tries' = Later(tries, 6) /\ gap' = 0 /\ Goto("record")
  /\ UNCHANGED <<holder, open, files, faults>>

\* The newest candidate of 0.3 s later, when there is one.
Record ==
  /\ at = "record"
  /\ pidfile' = IF Tunnels = {} THEN pidfile ELSE Newest(Tunnels)
  /\ Done
  /\ UNCHANGED <<process, open, fails, since, tries, gap, faults>>

Pass == Scan \/ Term \/ Sweep \/ Adopt \/ Look \/ Stamp \/ Count \/ Spawn \/ Record

-----------------------------------------------------------------------------
(* What goes wrong.                                                            *)

Fault == faults < MaxFaults /\ faults' = faults + 1

\* The deadline, a stop_workers, an interrupt: spawned processes live on.
Killed ==
  /\ Fault /\ at # "idle" /\ Done
  /\ UNCHANGED <<process, open, files, tries, gap>>

\* A link dies unsaid (the box slept, the network): the VPS keeps the port.
Cut(p) ==
  /\ Fault /\ link[p] = "up"
  /\ link' = [link EXCEPT ![p] = "deaf"] /\ holder' = Ghost
  /\ UNCHANGED <<kind, born, open, files, pass, tries, gap>>

Close ==
  /\ Fault /\ open /\ open' = FALSE
  /\ UNCHANGED <<process, files, pass, tries, gap>>

Reopen ==
  /\ ~open /\ open' = TRUE
  /\ UNCHANGED <<process, files, pass, tries, gap, faults>>

\* An operator starts our very tunnel, a `-R' of his own, or anything at all.
Stray(p, k) ==
  /\ Fault /\ p \in NextPid /\ Start(p, k)
  /\ UNCHANGED <<holder, open, files, pass, tries, gap>>

\* [fleet] box_index changes: the running tunnels are no candidates any more,
\* and the port that counts is another.
Renumber ==
  /\ Fault /\ Tunnels # {} /\ at = "idle"
  /\ kind' = [p \in Pid |-> IF p \in Tunnels THEN "old" ELSE kind[p]]
  /\ link' = [p \in Pid |-> "none"] /\ born' = <<>> /\ holder' = Nobody
  /\ UNCHANGED <<open, files, pass, tries, gap>>

Next ==
  \/ Pass \/ Reap \/ TimePasses \/ Killed \/ Close \/ Reopen \/ Renumber
  \/ \E p \in Pid : Dial(p) \/ GiveUp(p) \/ OtherEnds(p) \/ Cut(p)
                    \/ \E k \in {"tunnel", "foreign", "other"} : Stray(p, k)

\* The worker ticks for ever, a process ends its attempt, the VPS reaps, time
\* passes and an outage ends; nobody ends a process that is not ours.
Fairness ==
  /\ WF_vars(Pass) /\ WF_vars(Reap) /\ WF_vars(TimePasses) /\ WF_vars(Reopen)
  /\ \A p \in Pid : WF_vars(Dial(p)) /\ WF_vars(GiveUp(p))

Spec == Init /\ [][Next]_vars /\ Fairness

-----------------------------------------------------------------------------

\* One tunnel, it holds the port, the files name it and say so.
Settled ==
  \E p \in Tunnels :
    /\ Tunnels = {p} /\ link[p] = "up" /\ holder = p
    /\ pidfile = p /\ fails = 0

\* tunnel.pid names a process that only looks like our tunnel: a live `-R' of
\* somebody else, or of the box's former index.
Misled == pidfile # Nobody /\ kind[pidfile] \in {"old", "foreign"}

\* The respawn storm brake: two spawns with no living tunnel seen in between are
\* as far apart as the ladder says for that many tries, also when passes are
\* killed between their commands.
SpawnsBraked == [][at = "spawn" /\ at' = "record" => gap >= Window(tries)]_vars

-----------------------------------------------------------------------------
(* Said in the source, and not so (README section 6).                          *)

\* "the newest process is the one whose forward actually holds the VPS port".
HolderKept == [][\A p \in Tunnels : at = "term" /\ holder = p => p \in Tunnels']_vars

\* "the tunnel IS up, so the backoff ladder must not run".
ClearedWhenUp == [][fails' < fails => \E p \in Tunnels : link[p] = "up"]_vars

===============================================================================
