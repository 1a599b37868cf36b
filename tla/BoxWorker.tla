------------------------------ MODULE BoxWorker ------------------------------
(* boxup's convergence: the worker's tick and the operator's or the hourly      *)
(* `boxup once' over the converge lock, the recycling of a dead tailscaled, the *)
(* login, the repair and the deadline of a tick.  A body is a list of stations, *)
(* its next one first; time passes between them, a body may be killed or stuck  *)
(* at any of them, the box may sleep, lose its RUN_DIR, its node or its login.  *)
(* The unit of time is the worker's INTERVAL.                                   *)
EXTENDS Naturals, Sequences

CONSTANTS
  Freeze,     \* FREEZE_SECS
  Cooldown,   \* RECYCLE_COOLDOWN
  Reauth,     \* REAUTH_MIN_INTERVAL
  Offline,    \* the 30 s after last-online
  Longest,    \* the upper rungs of refresh_backoff_window
  MaxMishaps   \* bound: sleeps, deaths, stuck commands, lost nodes, extra commands

ASSUME BoxWorkerAssumption ==
  /\ Freeze \in Nat \ {0, 1} /\ Cooldown \in Nat \ {0} /\ Reauth \in Nat \ {0}
  /\ Offline \in Nat \ {0} /\ Longest \in Nat \ {0} /\ MaxMishaps \in Nat
  /\ {Freeze, Cooldown, Offline, Longest} \subseteq 1..Reauth /\ Freeze <= Longest

VARIABLES
  d,        \* tailscaled, and what it would say
  known,    \* the control plane knows the node
  door,     \* the control plane takes a login: it is there, the key is good
  sick,     \* a predicate of check_reason that is not the daemon's fails
  age,      \* the files of RUN_DIR: how old their stamps are
  ticks, repairs,  \* offline-ticks, fail.repair
  lock,     \* who holds the converge lock
  on, due,  \* the worker lives; its sleep is over
  prog, stuck,     \* each body: its stations, wedged
  excuse,   \* history: since the last heartbeat the box slept, or time passed without
            \* a worker that ticks, or a tick was killed
  mishaps

workerVars ==
  <<d, known, door, sick, age, ticks, repairs, lock, on, due, prog, stuck, excuse, mishaps>>

Actors == {"worker", "cli"}
Unset == Reauth + 1
\* hb, last-recycle, last-reauth, last-repair, last-online; and, as history, the
\* last daemon a recycle killed and the last `tailscale up'.
Stamps == {"hb", "recycle", "reauth", "repair", "online", "killed", "tried"}

Running == d \in {"live", "stale", "offline"}
LooksLive == d \in {"live", "stale"}
\* check_reason.
Healthy == LooksLive /\ ~sick /\ on /\ age.hb < Freeze

Recent(s, window) == age[s] # Unset /\ age[s] < window

Stations == {"wait", "guards", "checks", "offline", "kill", "forget", "start", "login", "up",
             "beat", "check", "recheck", "end", "release", "restart"}
Tick == <<"checks", "offline", "beat", "check", "end">>
Recycle == <<"kill", "forget", "start", "login">>
Repair == <<"start", "login", "recheck">>
Ensure == <<"wait", "start", "login", "release">>
Once == <<"wait", "start", "login", "release", "restart", "guards">>

BoxWorkerTypeOK ==
  /\ d \in {"none", "starting", "mute", "live", "stale", "offline", "login"}
  /\ {known, door, sick, on, due, excuse} \subseteq BOOLEAN
  /\ age \in [Stamps -> 0..Unset] /\ ticks \in 0..3 /\ repairs \in 0..2
  /\ lock \in Actors \cup {"free"}
  /\ \A a \in Actors : Len(prog[a]) <= 9 /\ \A i \in DOMAIN prog[a] : prog[a][i] \in Stations
  /\ stuck \in [Actors -> BOOLEAN] /\ mishaps \in 0..MaxMishaps

\* A box before its first converge.
WorkerInit ==
  /\ d = "none" /\ known = FALSE /\ door = TRUE /\ sick = FALSE
  /\ age = [s \in Stamps |-> Unset] /\ ticks = 0 /\ repairs = 0
  /\ lock = "free" /\ on = FALSE /\ due = FALSE
  /\ prog = [a \in Actors |-> <<>>] /\ stuck = [a \in Actors |-> FALSE]
  /\ excuse = FALSE /\ mishaps = 0

-----------------------------------------------------------------------------
(* Stations.  None of them is reached while the body is stuck.                 *)

daemon == <<d, known>>
weather == <<door, sick>>
worker == <<on, due>>

At(a, station) == prog[a] # <<>> /\ Head(prog[a]) = station /\ ~stuck[a]
\* What is left is done, after `first'.
Then(a, first) == prog' = [prog EXCEPT ![a] = first \o Tail(@)]
Proceed(a) == Then(a, <<>>)
StampNow(S) == age' = [s \in Stamps |-> IF s \in S THEN 0 ELSE age[s]]
Beats(S) == StampNow(S \cup {"hb"}) /\ excuse' = FALSE

\* run_tick: disk, keep-awake and job guards, then the lock or a heartbeat.
Guards(a) ==
  /\ At(a, "guards")
  /\ IF lock = "free" THEN lock' = a /\ Then(a, Tick) /\ UNCHANGED <<age, excuse>>
     ELSE Beats({}) /\ Proceed(a) /\ UNCHANGED lock
  /\ UNCHANGED <<daemon, weather, ticks, repairs, worker, stuck, mishaps>>

\* maybe_wake_recycle, by the OLD heartbeat.  A process younger than FREEZE_SECS
\* spares a node that shows no freeze (free here: how old the process is, and
\* whether tailscaled.log tells of a time jump).
Woken == age.hb # Unset /\ age.hb >= Freeze /\ ~Recent("recycle", Cooldown)

\* Mutant: the stamp comes when the recycle is over, never from a killed tick.
ChecksUnstamped(a) ==
  /\ At(a, "checks")
  /\ IF d # "none" /\ Woken THEN Then(a, Recycle) ELSE Proceed(a)
  /\ UNCHANGED <<daemon, weather, age, ticks, repairs, lock, worker, stuck, excuse, mishaps>>

\* The stamp comes before the kill.
Checks(a) ==
  /\ At(a, "checks")
  /\ \/ /\ d = "none"
        /\ prog' = [prog EXCEPT ![a] = <<"start">> \o Tail(Tail(@))] /\ UNCHANGED age
     \/ d # "none" /\ Woken /\ StampNow({"recycle"}) /\ Then(a, Recycle)
     \/ d # "none" /\ (Woken => LooksLive) /\ Proceed(a) /\ UNCHANGED age
  /\ UNCHANGED <<daemon, weather, ticks, repairs, lock, worker, stuck, excuse, mishaps>>

\* recycle_offline_tailscaled: down long enough, or in three ticks.
DownFor(n) == (age.online # Unset /\ age.online >= Offline) \/ n >= 3

OfflineCheck(a) ==
  /\ At(a, "offline")
  /\ \/ /\ Recent("recycle", Cooldown)
        /\ Proceed(a) /\ UNCHANGED <<age, ticks>>
     \/ /\ ~Recent("recycle", Cooldown) /\ ~Running
        /\ ticks' = 0 /\ Proceed(a) /\ UNCHANGED age
     \/ /\ ~Recent("recycle", Cooldown) /\ LooksLive
        /\ StampNow({"online"}) /\ ticks' = 0 /\ Proceed(a)
     \/ /\ ~Recent("recycle", Cooldown) /\ d = "offline"
        /\ ticks' = IF ticks < 3 THEN ticks + 1 ELSE 3
        /\ IF DownFor(ticks') THEN StampNow({"recycle"}) /\ Then(a, Recycle)
           ELSE Proceed(a) /\ UNCHANGED age
  /\ UNCHANGED <<daemon, weather, repairs, lock, worker, stuck, excuse, mishaps>>

Kill(a) ==
  /\ At(a, "kill")
  /\ d' = "none" /\ StampNow({"killed"}) /\ Proceed(a)
  /\ UNCHANGED <<known, weather, ticks, repairs, lock, worker, stuck, excuse, mishaps>>

Forget(a) ==
  /\ At(a, "forget")
  /\ age' = [age EXCEPT !.online = Unset] /\ ticks' = 0 /\ Proceed(a)
  /\ UNCHANGED <<daemon, weather, repairs, lock, worker, stuck, excuse, mishaps>>

StartDaemon(a) ==
  /\ At(a, "start")
  /\ d' = IF d = "none" THEN "starting" ELSE d
  /\ Proceed(a)
  /\ UNCHANGED <<known, weather, age, ticks, repairs, lock, worker, stuck, excuse, mishaps>>

\* ensure_login: one limiter for every `up', stamped before the attempt.
MayLogin == d = "login" /\ ~Recent("reauth", Reauth)

Login(a) ==
  /\ At(a, "login")
  /\ IF MayLogin THEN StampNow({"reauth"}) /\ Then(a, <<"up">>) ELSE Proceed(a) /\ UNCHANGED age
  /\ UNCHANGED <<daemon, weather, ticks, repairs, lock, worker, stuck, excuse, mishaps>>

Up(a) ==
  /\ At(a, "up")
  /\ IF door THEN d' = "starting" /\ known' = TRUE ELSE UNCHANGED daemon
  /\ StampNow({"tried"}) /\ Proceed(a)
  /\ UNCHANGED <<weather, ticks, repairs, lock, worker, stuck, excuse, mishaps>>

Beat(a) ==
  /\ At(a, "beat") /\ Beats({}) /\ Proceed(a)
  /\ UNCHANGED <<daemon, weather, ticks, repairs, lock, worker, stuck, mishaps>>

\* tick_handle_reason: the quiet window after a recycle, then the backoff
\* (bound: the rungs 180 s and 600 s are one).
Quiet == d \in {"starting", "mute"} /\ Recent("recycle", Cooldown)
RepairWindow == <<1, Freeze, Longest>>[repairs + 1]

Check(a) ==
  /\ At(a, "check")
  /\ \/ Healthy /\ repairs' = 0 /\ Proceed(a) /\ UNCHANGED age
     \/ /\ ~Healthy /\ (Quiet \/ Recent("repair", RepairWindow))
        /\ Proceed(a) /\ UNCHANGED <<age, repairs>>
     \/ /\ ~Healthy /\ ~Quiet /\ ~Recent("repair", RepairWindow)
        /\ StampNow({"repair"}) /\ Then(a, Repair) /\ UNCHANGED repairs
  /\ UNCHANGED <<daemon, weather, ticks, lock, worker, stuck, excuse, mishaps>>

Recheck(a) ==
  /\ At(a, "recheck")
  /\ repairs' = IF Healthy THEN 0 ELSE IF repairs < 2 THEN repairs + 1 ELSE 2
  /\ Proceed(a)
  /\ UNCHANGED <<daemon, weather, age, ticks, lock, worker, stuck, excuse, mishaps>>

\* The second heartbeat, and the lock goes with the body.
TickEnds(a) ==
  /\ At(a, "end") /\ Beats({}) /\ lock' = "free" /\ Proceed(a)
  /\ UNCHANGED <<daemon, weather, ticks, repairs, worker, stuck, mishaps>>

-----------------------------------------------------------------------------
(* The worker's loop and its deadline; the commands.                           *)

Wake ==
  /\ on /\ prog["worker"] = <<>> /\ due
  /\ prog' = [prog EXCEPT !["worker"] = <<"guards">>] /\ due' = FALSE
  /\ UNCHANGED <<daemon, weather, age, ticks, repairs, lock, on, stuck, excuse, mishaps>>

Dead(P) ==
  /\ prog' = [a \in Actors |-> IF a \in P THEN <<>> ELSE prog[a]]
  /\ stuck' = [a \in Actors |-> stuck[a] /\ a \notin P]
Unlocked(P) == IF lock \in P THEN "free" ELSE lock

\* run_tick_bounded: a tick that does not end is killed with all it started.
Deadline ==
  /\ stuck["worker"] /\ Dead({"worker"}) /\ lock' = Unlocked({"worker"})
  /\ due' = FALSE /\ excuse' = TRUE
  /\ UNCHANGED <<daemon, weather, age, ticks, repairs, on, mishaps>>

Call(program) ==
  /\ prog["cli"] = <<>> /\ prog' = [prog EXCEPT !["cli"] = program]
  /\ UNCHANGED <<daemon, weather, age, ticks, repairs, lock, worker, stuck, excuse>>

\* The hourly `boxup once'.
Hourly == ~on /\ Call(Once) /\ UNCHANGED mishaps

\* do_ensure waits for the lock, 60 s at most; it never runs without it.
Wait ==
  /\ At("cli", "wait")
  /\ \/ lock = "free" /\ lock' = "cli" /\ Proceed("cli")
     \/ /\ lock # "free" /\ UNCHANGED lock
        /\ prog' = [prog EXCEPT !["cli"] = SubSeq(@, 5, Len(@))]
  /\ UNCHANGED <<daemon, weather, age, ticks, repairs, worker, stuck, excuse, mishaps>>

Release ==
  /\ At("cli", "release") /\ lock' = "free" /\ Proceed("cli")
  /\ UNCHANGED <<daemon, weather, age, ticks, repairs, worker, stuck, excuse, mishaps>>

\* start_daemon: every worker goes, with the tick it is in; a new one comes.
\* `up' ends here, `once' goes on with a tick of its own.
Restart ==
  /\ At("cli", "restart")
  /\ on' = TRUE /\ due' = FALSE /\ lock' = Unlocked({"worker"})
  /\ \E rest \in {<<>>, Tail(prog["cli"])} :
       prog' = [prog EXCEPT !["worker"] = <<"guards">>, !["cli"] = rest]
  /\ stuck' = [stuck EXCEPT !["worker"] = FALSE]
  /\ excuse' = (excuse \/ prog["worker"] # <<>>)
  /\ UNCHANGED <<daemon, weather, age, ticks, repairs, mishaps>>

-----------------------------------------------------------------------------
(* Time, the daemon, the control plane.                                        *)

\* What a stamp is compared with; beyond it all ages are alike.
Counts == [hb |-> Freeze, recycle |-> Cooldown, killed |-> Cooldown, online |-> Offline,
           reauth |-> Reauth, tried |-> Reauth, repair |-> Longest]

Aged(n) ==
  /\ age' = [s \in Stamps |-> IF age[s] = Unset THEN Unset
                              ELSE IF age[s] + n > Counts[s] THEN Counts[s] ELSE age[s] + n]
  /\ due' = (on /\ prog["worker"] = <<>>)

\* Packages, sockets, logins, the wait for the lock and the rest of a converge are
\* slow; the checks, the stamps and the worker's timer are not.
Slow == {"wait", "start", "login", "recheck", "release"}
IntervalPasses ==
  /\ ~(on /\ prog["worker"] = <<>> /\ due)
  /\ \A a \in Actors : prog[a] # <<>> /\ ~stuck[a] => Head(prog[a]) \in Slow
  /\ Aged(1)
  /\ excuse' = (excuse \/ ~on \/ stuck["worker"])
  /\ UNCHANGED <<daemon, door, sick, ticks, repairs, lock, on, prog, stuck, mishaps>>

\* A start reads the state: a node nobody knows has to log in.
Settles ==
  /\ d = "starting" /\ d' = IF known THEN "live" ELSE "login"
  /\ UNCHANGED <<known, weather, age, ticks, repairs, lock, worker, prog, stuck, excuse,
                 mishaps>>

\* The map poll that died with the sleep shows two minutes later.
Shows ==
  /\ d = "stale" /\ d' = "offline"
  /\ UNCHANGED <<known, weather, age, ticks, repairs, lock, worker, prog, stuck, excuse,
                 mishaps>>

DoorOpens ==
  /\ ~door /\ door' = TRUE
  /\ UNCHANGED <<daemon, sick, age, ticks, repairs, lock, worker, prog, stuck, excuse,
                 mishaps>>

Mishap == mishaps < MaxMishaps /\ mishaps' = mishaps + 1
bodies == <<lock, prog, stuck>>
runDir == <<age, ticks, repairs>>

\* Bound: not between a stamp and the act that it announces.
Sleep ==
  /\ \A a \in Actors : ~At(a, "kill") /\ ~At(a, "up")
  /\ Mishap /\ \E n \in {Freeze, Reauth} : Aged(n)
  /\ d' = IF d = "live" THEN "stale" ELSE d
  /\ excuse' = TRUE
  /\ UNCHANGED <<known, door, sick, ticks, repairs, bodies, on>>

\* The poll dies, the node is deleted or expires, the daemon dies, or hangs.
DaemonFails ==
  /\ Mishap
  /\ \/ d = "live" /\ d' = "offline" /\ UNCHANGED known
     \/ Running /\ d' = "offline" /\ known' = FALSE
     \/ d # "none" /\ d' = "none" /\ UNCHANGED known
     \/ d = "starting" /\ d' = "mute" /\ UNCHANGED known
  /\ UNCHANGED <<weather, runDir, bodies, worker, excuse>>

Weather ==
  /\ Mishap
  /\ \/ door' = FALSE /\ UNCHANGED sick
     \/ sick' = ~sick /\ UNCHANGED door
  /\ UNCHANGED <<daemon, runDir, bodies, worker, excuse>>

\* A command of the body never returns.
Wedge(a) ==
  /\ Mishap /\ prog[a] # <<>> /\ stuck' = [stuck EXCEPT ![a] = TRUE]
  /\ UNCHANGED <<daemon, weather, runDir, lock, prog, worker, excuse>>

\* A tick too long is killed as well; an operator interrupts his command.
BodyKilled(a) ==
  /\ Mishap /\ prog[a] # <<>> /\ Dead({a}) /\ lock' = Unlocked({a})
  /\ due' = (due /\ a # "worker") /\ excuse' = (excuse \/ a = "worker")
  /\ UNCHANGED <<daemon, weather, runDir, on>>

\* `boxup stop' leaves tailscaled and the stamps.
Stop ==
  /\ Mishap /\ on /\ on' = FALSE /\ Dead({"worker"}) /\ lock' = Unlocked({"worker"})
  /\ excuse' = TRUE /\ due' = FALSE
  /\ UNCHANGED <<daemon, weather, runDir>>

\* An image swap takes processes and RUN_DIR, and with it every limiter.
Swap ==
  /\ Mishap /\ d' = "none"
  /\ age' = [s \in Stamps |-> Unset] /\ ticks' = 0 /\ repairs' = 0
  /\ on' = FALSE /\ due' = FALSE /\ Dead(Actors) /\ lock' = "free" /\ excuse' = FALSE
  /\ UNCHANGED <<known, door, sick>>

Extra == Mishap /\ \E p \in {Once, Ensure, <<"guards">>} : Call(p)

-----------------------------------------------------------------------------

Body(a) ==
  \/ Guards(a) \/ Checks(a) \/ OfflineCheck(a) \/ Kill(a) \/ Forget(a) \/ StartDaemon(a)
  \/ Login(a) \/ Up(a) \/ Beat(a) \/ Check(a) \/ Recheck(a) \/ TickEnds(a)
Command == Wait \/ Release \/ Restart

WorkerNext ==
  \/ \E a \in Actors : Body(a) \/ Wedge(a) \/ BodyKilled(a)
  \/ Command \/ Wake \/ Deadline \/ Hourly \/ IntervalPasses \/ Settles \/ Shows \/ DoorOpens
  \/ Sleep \/ DaemonFails \/ Weather \/ Stop \/ Swap \/ Extra

WorkerSpec == WorkerInit /\ [][WorkerNext]_workerVars

-----------------------------------------------------------------------------

\* A daemon is recycled at most once in RECYCLE_COOLDOWN, whichever body does it
\* and whichever is killed on the way: maybe_wake_recycle and
\* recycle_offline_tailscaled share the stamp, and it comes before the kill.
RecyclesSpaced == [][(\E a \in Actors : Kill(a)) => ~Recent("killed", Cooldown)]_workerVars

\* `tailscale up' rewrites the registration: at most once in
\* REAUTH_MIN_INTERVAL, in ticks, commands and recycles taken together.
LoginsSpaced == [][(\E a \in Actors : Up(a)) => ~Recent("tried", Reauth)]_workerVars

\* The heartbeat is old only when the box slept, had no worker that ticks or lost
\* a tick: a converge that takes long, in a tick or beside it, is never taken for
\* a freeze, and tailscaled not recycled for it (the heartbeats of run_tick and
\* do_tick).
JumpMeansAsleep ==
  [][\A a \in Actors : Checks(a) /\ d # "none" /\ Woken => excuse]_workerVars

\* The floors hold together, and nothing but a sleep is taken for one.
Restrained == RecyclesSpaced /\ LoginsSpaced /\ JumpMeansAsleep

\* On the tailnet again.  The exceptions: a daemon that hangs before Running,
\* which no check recycles, and a command that hangs and keeps the converge
\* lock: only the worker's ticks have a deadline.
Back == d \in {"live", "mute"} \/ stuck["cli"]
===============================================================================
