----------------------------- MODULE BoxupProofs -----------------------------
(* For any number of processes and faults: the respawn brake of the tunnel      *)
(* holds.  For any floors and any number of mishaps: recycles and logins are as *)
(* far apart as the floors say, and only a sleep is taken for one.              *)
EXTENDS BoxTunnel, BoxWorker, SequenceTheorems, TLAPS

TunnelStations == {"idle", "term", "sweep", "adopt", "look", "stamp", "count", "spawn", "record"}
Counters ==
  /\ since \in 0..Never /\ gap \in 0..Never /\ fails \in 0..6 /\ tries \in 0..6
  /\ at \in TunnelStations

\* The file counts every spawn and maybe a killed pass more, and its stamp is
\* no older than the last spawn.
FilesCover ==
  /\ tries <= fails /\ since <= gap
  /\ at \in {"count", "spawn"} => since = 0
  /\ at = "spawn" => Later(tries, 6) <= fails

\* Past the look at the window, the ladder has been waited out.
WaitedOut == at \in {"stamp", "count", "spawn"} => gap >= Window(tries)

BrakeInv == Counters /\ FilesCover /\ WaitedOut

\* The ladder never falls, and its last rung is within the clock's bound.
LEMMA LadderRises ==
  ASSUME NEW f \in 0..6, NEW g \in f..6
  PROVE  Window(f) \in 0..Cap /\ Window(f) <= Window(g)
<1>1. /\ Window(0) = 0 /\ Window(1) = 0 /\ Window(2) = 1 /\ Window(3) = 2
      /\ Window(4) = 4 /\ Window(5) = 8 /\ Window(6) = 20
  BY DEF Window
<1>2. f \in {0, 1, 2, 3, 4, 5, 6} /\ g \in {0, 1, 2, 3, 4, 5, 6} /\ f <= g
  OBVIOUS
<1> QED BY <1>1, <1>2 DEF Cap

LEMMA BrakeStarts == Init => BrakeInv
<1>1. Window(0) = 0
  BY DEF Window
<1> QED BY <1>1 DEF Init, BrakeInv, Counters, FilesCover, WaitedOut, TunnelStations, Never, Cap

\* The steps that leave the brake's counters and the pass where they are.
LEMMA BrakeUntouched ==
  ASSUME BrakeInv, UNCHANGED <<fails, since, tries, gap>>,
         at' = at \/ at' \in {"idle", "term", "sweep", "adopt", "look"}
  PROVE  BrakeInv'
<1>1. at' \in TunnelStations
  BY DEF BrakeInv, Counters, TunnelStations
<1> QED BY <1>1 DEF BrakeInv, Counters, FilesCover, WaitedOut, Window, Later

LEMMA BrakeKept ==
  ASSUME BrakeInv, [Next]_vars
  PROVE  BrakeInv'
<1> USE DEF BrakeInv
<1>1. CASE Scan \/ Term \/ Sweep
  BY <1>1, BrakeUntouched DEF Scan, Term, Sweep, Goto, files
<1>2. CASE Adopt
  <2>1. Window(0) = 0
    BY DEF Window
  <2> QED BY <1>2, <2>1 DEF Adopt, Seen, Done, Counters, FilesCover, WaitedOut, TunnelStations
<1>3. CASE Look
  <2>1. CASE PidfileAlive /\ Seen /\ Done /\ UNCHANGED <<since, gap>>
    BY <2>1 DEF Seen, Done, Counters, FilesCover, WaitedOut, TunnelStations
  <2>2. CASE Done /\ UNCHANGED <<fails, tries, since, gap>>
    BY <2>2, BrakeUntouched DEF Done
  <2>3. CASE ~BackingOff /\ Goto("stamp") /\ UNCHANGED <<fails, tries, since, gap>>
    <3>1. fails \in 0..6 /\ tries \in 0..6 /\ fails \in tries..6
      BY DEF Counters, FilesCover
    <3>2. Window(fails) \in 0..Cap /\ Window(tries) \in 0..Cap /\ Window(tries) <= Window(fails)
      BY <3>1, LadderRises
    <3>3. since >= Window(fails)
      BY <2>3, <3>2 DEF BackingOff, Counters, Never, Cap
    <3>4. gap >= Window(tries)
      BY <3>2, <3>3 DEF Counters, FilesCover, Never, Cap
    <3>5. Window(tries') = Window(tries) /\ at' = "stamp"
      BY <2>3 DEF Goto
    <3> QED BY <2>3, <3>4, <3>5 DEF Counters, FilesCover, WaitedOut, TunnelStations
  <2> QED BY <1>3, <2>1, <2>2, <2>3 DEF Look
<1>4. CASE Stamp
  <2>1. gap >= Window(tries) /\ Window(tries') = Window(tries)
    BY <1>4 DEF Stamp, WaitedOut
  <2> QED BY <1>4, <2>1 DEF Stamp, Goto, Counters, FilesCover, WaitedOut, TunnelStations, Never, Cap
<1>5. CASE Count
  <2>1. gap >= Window(tries) /\ Window(tries') = Window(tries)
    BY <1>5 DEF Count, WaitedOut
  <2> QED BY <1>5, <2>1 DEF Count, Goto, Counters, FilesCover, WaitedOut, TunnelStations, Later
<1>6. CASE Spawn
  <2>1. /\ at' = "record" /\ gap' = 0 /\ since' = 0
        /\ tries' = Later(tries, 6) /\ tries' <= fails /\ fails' = fails
    BY <1>6 DEF Spawn, Goto, files, FilesCover
  <2> QED BY <2>1 DEF Counters, FilesCover, WaitedOut, TunnelStations, Never, Cap, Later
<1>7. CASE Record \/ Killed
  BY <1>7, BrakeUntouched DEF Record, Killed, Done, files
<1>8. CASE TimePasses
  BY <1>8 DEF TimePasses, pass, Counters, FilesCover, WaitedOut, Later, Never, Cap
<1>9. CASE Reap \/ Close \/ Reopen \/ Renumber
  BY <1>9, BrakeUntouched DEF Reap, Close, Reopen, Renumber, files, pass
<1>10. ASSUME NEW p \in Pid,
              \/ Dial(p) \/ GiveUp(p) \/ OtherEnds(p) \/ Cut(p)
              \/ \E k \in {"tunnel", "foreign", "other"} : Stray(p, k)
       PROVE  BrakeInv'
  BY <1>10, BrakeUntouched DEF Dial, GiveUp, OtherEnds, Cut, Stray, files, pass
<1>11. CASE UNCHANGED vars
  BY <1>11, BrakeUntouched DEF vars
<1> QED BY <1>1, <1>2, <1>3, <1>4, <1>5, <1>6, <1>7, <1>8, <1>9, <1>10, <1>11 DEF Next, Pass

\* Two spawns with no living tunnel seen in between are as far apart as the
\* ladder says, for any number of processes, killed passes and other faults.
THEOREM TunnelBraked == Spec => SpawnsBraked
<1>1. BrakeInv => (at = "spawn" /\ at' = "record" => gap >= Window(tries))
  BY DEF BrakeInv, WaitedOut
<1> QED BY <1>1, BrakeStarts, BrakeKept, PTL DEF Spec, SpawnsBraked

-----------------------------------------------------------------------------
(* The worker.  A program is what is left of one: a station that opens a part   *)
(* of the work is only ever next, and behind the lock there is no more work.    *)

Working == {"checks", "offline", "kill", "forget", "start", "login", "up", "beat", "check",
            "recheck"}
Locking == Working \cup {"end", "release"}
Openings == {"wait", "checks", "kill", "up"}

Has(p, S) == \E i \in 1..Len(p) : p[i] \in S
EndsTick(p) == p # <<>> /\ p[Len(p)] = "end"

Well(p) ==
  /\ p \in Seq(Stations)
  /\ \A j \in 2..Len(p) : p[j] \notin Openings
  /\ \A i, j \in 1..Len(p) :
       i < j /\ p[i] \notin Working \cup {"wait"} => p[j] \in {"restart", "guards"}
  /\ \A i \in 1..Len(p) : p[i] = "guards" => i = Len(p)

Parts == {<<>>, Tick, Recycle, Repair, <<"up">>}

LEMMA PartsWell ==
  ASSUME NEW f \in Parts
  PROVE /\ f \in Seq(Stations) /\ Len(f) \in 0..5
        /\ f = <<>> \/ f[1] = Head(f)
        /\ f # Tick => \A i \in 1..Len(f) : f[i] \in Working
        /\ \A i \in 1..Len(f) : f[i] # "guards" /\ f[i] \in Locking
        /\ \A i \in 2..Len(f) : f[i] \notin Openings
        /\ \A i \in 1..Len(f) : f[i] \in Openings =>
             \/ f = Tick /\ f[i] = "checks"
             \/ f = Recycle /\ f[i] = "kill"
             \/ f = <<"up">> /\ f[i] = "up"
<1>1. CASE f = <<>>
  BY <1>1
<1>2. CASE f = Tick
  BY <1>2 DEF Tick, Recycle, Repair, Stations, Working, Locking, Openings
<1>3. CASE f = Recycle
  BY <1>3 DEF Tick, Recycle, Repair, Stations, Working, Locking, Openings
<1>4. CASE f = Repair
  BY <1>4 DEF Tick, Recycle, Repair, Stations, Working, Locking, Openings
<1>5. CASE f = <<"up">>
  BY <1>5 DEF Tick, Recycle, Repair, Stations, Working, Locking, Openings
<1> QED BY <1>1, <1>2, <1>3, <1>4, <1>5 DEF Parts

\* What stands where when the first station of p has been replaced by f.
LEMMA Replaced ==
  ASSUME NEW p \in Seq(Stations), p # <<>>, NEW f \in Seq(Stations)
  PROVE /\ f \o Tail(p) \in Seq(Stations)
        /\ Len(f \o Tail(p)) = Len(f) + Len(p) - 1
        /\ \A i \in 1..Len(f \o Tail(p)) :
             (f \o Tail(p))[i] = IF i <= Len(f) THEN f[i] ELSE p[i - Len(f) + 1]
        /\ Head(p) = p[1] /\ Len(p) \in Nat \ {0} /\ Len(f) \in Nat
OBVIOUS

Opens(p, station) == p # <<>> /\ Head(p) = station

\* One step of a body: its next station is gone and a part of the work has come.
LEMMA NextProgram ==
  ASSUME NEW p, Well(p), p # <<>>, NEW f \in Parts,
         Head(p) # "wait",
         f \in {<<>>, Tick} \/ Head(p) \in Working,
         f = Tick => Head(p) = "guards"
  PROVE  /\ Well(f \o Tail(p))
         /\ ~Opens(f \o Tail(p), "wait")
         /\ Opens(f \o Tail(p), "checks") => f = Tick
         /\ Opens(f \o Tail(p), "kill") => f = Recycle
         /\ Opens(f \o Tail(p), "up") => f = <<"up">>
         /\ f = Tick => f \o Tail(p) = Tick
         /\ Has(f \o Tail(p), Locking) => Head(p) \in Working \/ f = Tick
<1> DEFINE q == f \o Tail(p)
<1>1. /\ q \in Seq(Stations) /\ Len(q) = Len(f) + Len(p) - 1
      /\ \A i \in 1..Len(q) : q[i] = IF i <= Len(f) THEN f[i] ELSE p[i - Len(f) + 1]
      /\ Head(p) = p[1] /\ Len(p) \in Nat \ {0} /\ Len(f) \in Nat
  BY PartsWell, Replaced DEF Well
<1> HIDE DEF q
<1>2. \A i \in 1..Len(q) : i > Len(f) =>
        /\ i - Len(f) + 1 \in 2..Len(p) /\ q[i] = p[i - Len(f) + 1] /\ q[i] \notin Openings
  BY <1>1 DEF Well
<1>3. \A i \in 1..Len(q) : i <= Len(f) => i \in 1..Len(f) /\ q[i] = f[i]
  BY <1>1
<1>4. \A j \in 2..Len(q) : q[j] \notin Openings
  <2> SUFFICES ASSUME NEW j \in 2..Len(q) PROVE q[j] \notin Openings
    OBVIOUS
  <2>1. CASE j > Len(f)
    BY <2>1, <1>1, <1>2
  <2>2. CASE j <= Len(f)
    BY <2>2, <1>1, <1>3, PartsWell
  <2> QED BY <2>1, <2>2, <1>1
<1>5. ASSUME NEW i \in 1..Len(q), NEW j \in 1..Len(q), i < j, q[i] \notin Working \cup {"wait"}
      PROVE q[j] \in {"restart", "guards"}
  <2>1. CASE i > Len(f)
    <3>1. i - Len(f) + 1 \in 1..Len(p) /\ j - Len(f) + 1 \in 1..Len(p)
            /\ i - Len(f) + 1 < j - Len(f) + 1 /\ q[i] = p[i - Len(f) + 1]
            /\ q[j] = p[j - Len(f) + 1]
      BY <2>1, <1>1, <1>2, <1>5
    <3>2. \A k, l \in 1..Len(p) :
            k < l /\ p[k] \notin Working \cup {"wait"} => p[l] \in {"restart", "guards"}
      BY DEF Well
    <3> QED BY <3>1, <3>2, <1>5
  <2>2. CASE i <= Len(f)
    <3>1. q[i] = f[i] /\ f = Tick
      BY <2>2, <1>3, <1>5, PartsWell
    <3>2. i = 5 /\ Len(f) = 5
      BY <3>1, <2>2, <1>1, <1>5 DEF Tick, Working
    <3>3. p[1] = "guards" /\ j > Len(f)
      BY <3>1, <3>2, <1>1, <1>5 DEF Tick, Working
    <3>4. j - Len(f) + 1 \in 2..Len(p) /\ q[j] = p[j - Len(f) + 1]
      BY <3>3, <1>2
    <3> QED BY <3>3, <3>4, <1>1 DEF Well, Working
  <2> QED BY <2>1, <2>2, <1>1
<1>6. ASSUME NEW i \in 1..Len(q), q[i] = "guards" PROVE i = Len(q)
  <2>1. CASE i > Len(f)
    <3>1. i - Len(f) + 1 \in 1..Len(p) /\ p[i - Len(f) + 1] = "guards"
      BY <2>1, <1>1, <1>2, <1>6
    <3>2. i - Len(f) + 1 = Len(p)
      BY <3>1 DEF Well
    <3> QED BY <3>2, <1>1
  <2>2. CASE i <= Len(f)
    BY <2>2, <1>3, <1>6, PartsWell
  <2> QED BY <2>1, <2>2, <1>1
<1>7. Well(q)
  BY <1>1, <1>4, <1>5, <1>6 DEF Well
<1>8. ASSUME NEW s \in Openings, Opens(q, s) PROVE f # <<>> /\ s = f[1] /\ 1 \in 1..Len(f)
  <2>1. q # <<>> /\ q[1] = s /\ 1 \in 1..Len(q)
    BY <1>1, <1>8 DEF Opens
  <2>2. CASE 1 > Len(f)
    BY <2>1, <2>2, <1>2, <1>8
  <2>3. CASE 1 <= Len(f)
    BY <2>1, <2>3, <1>3
  <2> QED BY <2>2, <2>3, <1>1
<1>9. /\ ~Opens(q, "wait")
      /\ Opens(q, "checks") => f = Tick
      /\ Opens(q, "kill") => f = Recycle
      /\ Opens(q, "up") => f = <<"up">>
  BY <1>8, PartsWell DEF Openings
<1>10. f = Tick => q = Tick
  <2> SUFFICES ASSUME f = Tick PROVE q = Tick
    OBVIOUS
  <2>1. Head(p) = "guards" \/ Head(p) \in Working
    BY DEF Tick
  <2>2. CASE Head(p) = "guards"
    <3>1. Len(p) = 1
      <4>1. 1 \in 1..Len(p) /\ p[1] = "guards"
        BY <2>2, <1>1
      <4>2. \A i \in 1..Len(p) : p[i] = "guards" => i = Len(p)
        BY DEF Well
      <4> QED BY <4>1, <4>2
    <3>2. Len(q) = 5 /\ Len(Tick) = 5
      BY <3>1, <1>1 DEF Tick
    <3>3. \A i \in 1..5 : q[i] = Tick[i]
      BY <3>2, <1>1
    <3> QED BY <3>2, <3>3, <1>1 DEF Tick
  <2> QED BY <2>2
<1>11. Has(q, Locking) => Head(p) \in Working \/ f = Tick
  <2> SUFFICES ASSUME NEW i \in 1..Len(q), q[i] \in Locking, Head(p) \notin Working, f # Tick
               PROVE FALSE
    BY DEF Has
  <2>1. f = <<>>
    OBVIOUS
  <2>2. i - Len(f) + 1 \in 2..Len(p) /\ q[i] = p[i - Len(f) + 1]
    BY <2>1, <1>1, <1>2
  <2>3. p[1] \notin Working \cup {"wait"}
    BY <1>1
  <2>4. \A k, l \in 1..Len(p) :
          k < l /\ p[k] \notin Working \cup {"wait"} => p[l] \in {"restart", "guards"}
    BY DEF Well
  <2>5. p[i - Len(f) + 1] \in {"restart", "guards"}
    BY <2>2, <2>3, <2>4, <1>1
  <2> QED BY <2>2, <2>5 DEF Locking, Working
<1> QED BY <1>7, <1>9, <1>10, <1>11 DEF q

LEMMA LongerThanOne ==
  ASSUME NEW n \in Nat \ {0}, n # 1, NEW m \in Nat, NEW k, k = m + n - 1
  PROVE /\ 1 \in 1..n /\ 1 < n
        /\ k \in 1..k /\ ~(k <= m) /\ k - m + 1 = n
OBVIOUS

\* The worker runs ticks only: its program is a tick that begins or ends as one.
LEMMA TickProgram ==
  ASSUME NEW p, Well(p), p # <<>>, NEW f \in Parts,
         f \in {<<>>, Tick} \/ Head(p) \in Working,
         f = Tick => Head(p) = "guards",
         p = <<"guards">> \/ EndsTick(p)
  PROVE  /\ Head(p) \in Working \cup {"guards", "end", "wait"}
         /\ Head(p) \in Working => EndsTick(f \o Tail(p))
         /\ f = Tick => EndsTick(f \o Tail(p))
         /\ Head(p) \in {"guards", "end"} /\ f = <<>> => f \o Tail(p) = <<>>
<1> DEFINE q == f \o Tail(p)
<1>1. /\ q \in Seq(Stations) /\ Len(q) = Len(f) + Len(p) - 1
      /\ \A i \in 1..Len(q) : q[i] = IF i <= Len(f) THEN f[i] ELSE p[i - Len(f) + 1]
      /\ Head(p) = p[1] /\ Len(p) \in Nat \ {0} /\ Len(f) \in Nat
  BY PartsWell, Replaced DEF Well
<1>2. p = <<"guards">> => Head(p) = "guards" /\ Len(p) = 1
  OBVIOUS
<1> HIDE DEF q
<1>n. Len(p) \in Nat \ {0} /\ Len(f) \in Nat /\ Len(q) = Len(f) + Len(p) - 1
  BY <1>1
<1>3. EndsTick(p) => p[Len(p)] = "end" /\ Len(p) \in 1..Len(p)
  BY <1>1 DEF EndsTick
<1>4. EndsTick(p) /\ Head(p) \notin Working \cup {"wait"} => Len(p) = 1
  <2> SUFFICES ASSUME EndsTick(p), p[1] \notin Working \cup {"wait"}, Len(p) # 1 PROVE FALSE
    BY <1>1
  <2>1. 1 \in 1..Len(p) /\ 1 < Len(p)
    BY <1>n, LongerThanOne, Zenon
  <2>2. p[Len(p)] \in {"restart", "guards"}
    BY <2>1, <1>3 DEF Well
  <2> QED BY <2>2, <1>3
<1>5. Head(p) \in Working \cup {"guards", "end", "wait"}
  BY <1>1, <1>2, <1>3, <1>4
<1>6. Head(p) \in Working => EndsTick(q)
  <2> SUFFICES ASSUME Head(p) \in Working PROVE EndsTick(q)
    OBVIOUS
  <2>1. EndsTick(p)
    BY <1>2 DEF Working
  <2>2. Len(p) # 1
    BY <2>1, <1>1, <1>3 DEF Working
  <2>3. Len(q) \in 1..Len(q) /\ ~(Len(q) <= Len(f)) /\ Len(q) - Len(f) + 1 = Len(p)
    BY <2>2, <1>n, LongerThanOne, Zenon
  <2>4. q[Len(q)] = "end"
    BY <2>1, <2>3, <1>1, <1>3
  <2> QED BY <2>3, <2>4 DEF EndsTick
<1>7. f = Tick => EndsTick(q)
  BY NextProgram DEF q, EndsTick, Tick
<1>8. Head(p) \in {"guards", "end"} /\ f = <<>> => q = <<>>
  <2> SUFFICES ASSUME Head(p) \in {"guards", "end"}, f = <<>> PROVE q = <<>>
    OBVIOUS
  <2>1. Len(p) = 1
    BY <1>2, <1>4 DEF Working
  <2>2. Len(q) = 0
    BY <2>1, <1>1
  <2> QED BY <2>2, <1>1
<1> QED BY <1>5, <1>6, <1>7, <1>8 DEF q

-----------------------------------------------------------------------------
\* What the proof of the floors rests on.
Types ==
  /\ prog \in [Actors -> Seq(Stations)] /\ stuck \in [Actors -> BOOLEAN]
  /\ lock \in Actors \cup {"free"} /\ age \in [Stamps -> 0..Unset]

\* Only a command waits, a look at the heartbeat is followed by a whole tick, and
\* the worker does nothing but ticks.
ProgramsWell ==
  /\ \A a \in Actors : Well(prog[a])
  /\ \A a \in Actors : Opens(prog[a], "wait") => a = "cli" /\ prog[a] \in {Once, Ensure}
  /\ \A a \in Actors : Opens(prog[a], "checks") => prog[a] = Tick
  /\ prog["worker"] \in {<<>>, <<"guards">>} \/ EndsTick(prog["worker"])

\* Who has work to do, and does not wait for the lock, has it.
WorkIsLocked ==
  \A a \in Actors : Has(prog[a], Locking) /\ ~Opens(prog[a], "wait") => lock = a

\* A limiter's stamp is never older than the act that it limits.
StampsFirst == age["recycle"] <= age["killed"] /\ age["reauth"] <= age["tried"]

\* Who is about to act has found the last act old enough and has just stamped.
KillsAllowed ==
  \A a \in Actors : Opens(prog[a], "kill") =>
    ~Recent("killed", Cooldown) /\ (~stuck[a] => age["recycle"] = 0)
LoginsAllowed ==
  \A a \in Actors : Opens(prog[a], "up") =>
    ~Recent("tried", Reauth) /\ (~stuck[a] => age["reauth"] = 0)

\* With no excuse the heartbeat is young, or the worker is past the look at it.
BeatYoung ==
  ~excuse /\ age["hb"] # Unset =>
    \/ age["hb"] = 0
    \/ on /\ age["hb"] = 1 /\ (prog["worker"] # <<>> \/ due)
    \/ EndsTick(prog["worker"]) /\ ~Opens(prog["worker"], "checks")

WorkerInv ==
  /\ Types /\ ProgramsWell /\ WorkIsLocked /\ StampsFirst
  /\ KillsAllowed /\ LoginsAllowed /\ BeatYoung

\* All a step of body a may do, whichever station it is at.
BodyMoves(a) ==
  /\ prog[a] # <<>> /\ ~stuck[a] /\ stuck' = stuck /\ on' = on /\ due' = due
  /\ Types' /\ \A b \in Actors \ {a} : prog'[b] = prog[b]
  /\ Well(prog'[a]) /\ ~Opens(prog'[a], "wait")
  /\ Opens(prog'[a], "checks") => prog'[a] = Tick
  /\ a = "worker" => (prog'[a] = <<>> /\ age'["hb"] = 0) \/ EndsTick(prog'[a])
  /\ Opens(prog'[a], "checks") => Opens(prog[a], "guards")
  /\ lock' = lock \/ lock = "free" \/ lock = a
  /\ Has(prog'[a], Locking) => lock' = a
  /\ age'["recycle"] \in {0, age["recycle"]} /\ age'["reauth"] \in {0, age["reauth"]}
  /\ age'["killed"] = age["killed"] \/ Opens(prog[a], "kill")
  /\ age'["tried"] = age["tried"] \/ Opens(prog[a], "up")
  /\ Opens(prog'[a], "kill") =>
       /\ ~Recent("recycle", Cooldown) /\ age'["recycle"] = 0 /\ age'["killed"] = age["killed"]
  /\ Opens(prog'[a], "up") =>
       /\ ~Recent("reauth", Reauth) /\ age'["reauth"] = 0 /\ age'["tried"] = age["tried"]
  /\ age'["hb"] = 0 \/ (age'["hb"] = age["hb"] /\ excuse' = excuse)

LEMMA OpensHas ==
  ASSUME NEW p \in Seq(Stations), NEW s \in Locking, Opens(p, s)
  PROVE Has(p, Locking)
<1>1. p[1] = s /\ 1 \in 1..Len(p)
  BY DEF Opens
<1> QED BY <1>1 DEF Has

LEMMA Ages ==
  ASSUME Types
  PROVE /\ \A s \in Stamps : age[s] \in 0..Unset
        /\ Unset \in Nat /\ Unset = Reauth + 1 /\ Reauth \in Nat /\ Cooldown \in 1..Reauth
        /\ \A s \in Stamps : age[s] \in Nat
BY BoxWorkerAssumption DEF Types, Unset

\* Who acts holds the lock: two bodies are never about to act.
LEMMA ActorsApart ==
  ASSUME WorkerInv, NEW a \in Actors, NEW b \in Actors, NEW s \in Locking, NEW t \in Locking,
         Opens(prog[a], s), Opens(prog[b], t), s # "wait", t # "wait"
  PROVE a = b /\ lock = a
<1>1. Has(prog[a], Locking) /\ Has(prog[b], Locking)
  BY OpensHas DEF WorkerInv, Types
<1>2. ~Opens(prog[a], "wait") /\ ~Opens(prog[b], "wait")
  BY DEF Opens
<1> QED BY <1>1, <1>2 DEF WorkerInv, WorkIsLocked

\* An act that the stamp allows is as far from the last one.
LEMMA FloorsKept ==
  ASSUME NEW stamped \in 0..Unset, NEW acted \in 0..Unset, stamped <= acted,
         NEW window \in 1..Reauth, ~(stamped # Unset /\ stamped < window)
  PROVE ~(acted # Unset /\ acted < window)
BY BoxWorkerAssumption DEF Unset

LEMMA BodyKeeps ==
  ASSUME WorkerInv, NEW a \in Actors, BodyMoves(a)
  PROVE WorkerInv'
<1>t. Types'
  BY DEF BodyMoves
<1>s. {"hb", "recycle", "killed", "reauth", "tried"} \subseteq Stamps
  BY DEF Stamps
<1>n. \A s \in Stamps : age[s] \in Nat /\ age[s] \in 0..Unset
  BY Ages DEF WorkerInv
<1>l. {"kill", "up"} \subseteq Locking
  BY DEF Locking, Working
<1>c. Cooldown \in 1..Reauth /\ Reauth \in 1..Reauth
  BY BoxWorkerAssumption
<1>1. ProgramsWell'
  <2>1. \A b \in Actors : Well(prog'[b])
    BY DEF BodyMoves, WorkerInv, ProgramsWell
  <2>2. \A b \in Actors : Opens(prog'[b], "wait") => b = "cli" /\ prog'[b] \in {Once, Ensure}
    BY DEF BodyMoves, WorkerInv, ProgramsWell
  <2>3. \A b \in Actors : Opens(prog'[b], "checks") => prog'[b] = Tick
    BY DEF BodyMoves, WorkerInv, ProgramsWell
  <2>4. prog'["worker"] \in {<<>>, <<"guards">>} \/ EndsTick(prog'["worker"])
    BY DEF BodyMoves, WorkerInv, ProgramsWell, Actors
  <2> QED BY <2>1, <2>2, <2>3, <2>4 DEF ProgramsWell
<1>2. WorkIsLocked'
  <2> SUFFICES ASSUME NEW b \in Actors, Has(prog'[b], Locking), ~Opens(prog'[b], "wait")
               PROVE lock' = b
    BY DEF WorkIsLocked
  <2>1. CASE b = a
    BY <2>1 DEF BodyMoves
  <2>2. CASE b # a
    <3>1. lock = b /\ b # "free"
      BY <2>2 DEF BodyMoves, WorkerInv, WorkIsLocked, Actors
    <3> QED BY <2>2, <3>1 DEF BodyMoves
  <2> QED BY <2>1, <2>2
<1>3. StampsFirst'
  <2>1. age'["recycle"] <= age'["killed"]
    <3>1. CASE age'["killed"] = age["killed"]
      BY <3>1, <1>n, <1>s DEF BodyMoves, WorkerInv, StampsFirst
    <3>2. CASE Opens(prog[a], "kill")
      <4>1. age'["recycle"] = 0
        BY <3>2 DEF BodyMoves, WorkerInv, KillsAllowed
      <4>2. age'["killed"] \in 0..Unset
        BY <1>t, <1>s DEF Types
      <4> QED BY <4>1, <4>2, BoxWorkerAssumption DEF Unset
    <3> QED BY <3>1, <3>2 DEF BodyMoves
  <2>2. age'["reauth"] <= age'["tried"]
    <3>1. CASE age'["tried"] = age["tried"]
      BY <3>1, <1>n, <1>s DEF BodyMoves, WorkerInv, StampsFirst
    <3>2. CASE Opens(prog[a], "up")
      <4>1. age'["reauth"] = 0
        BY <3>2 DEF BodyMoves, WorkerInv, LoginsAllowed
      <4>2. age'["tried"] \in 0..Unset
        BY <1>t, <1>s DEF Types
      <4> QED BY <4>1, <4>2, BoxWorkerAssumption DEF Unset
    <3> QED BY <3>1, <3>2 DEF BodyMoves
  <2> QED BY <2>1, <2>2 DEF StampsFirst
<1>4. KillsAllowed'
  <2> SUFFICES ASSUME NEW b \in Actors, Opens(prog'[b], "kill")
               PROVE /\ ~(age'["killed"] # Unset /\ age'["killed"] < Cooldown)
                     /\ ~stuck'[b] => age'["recycle"] = 0
    BY DEF KillsAllowed, Recent, Unset
  <2>1. CASE b = a
    <3>1. /\ ~Recent("recycle", Cooldown) /\ age'["recycle"] = 0
          /\ age'["killed"] = age["killed"]
      BY <2>1 DEF BodyMoves
    <3>2. ~(age["killed"] # Unset /\ age["killed"] < Cooldown)
      BY <3>1, <1>c, <1>n, <1>s, FloorsKept DEF Recent, WorkerInv, StampsFirst
    <3> QED BY <3>1, <3>2
  <2>2. CASE b # a
    <3>1. prog'[b] = prog[b] /\ stuck'[b] = stuck[b]
      BY <2>2 DEF BodyMoves
    <3>2. ~Opens(prog[a], "kill")
      BY <2>2, <3>1, <1>l, ActorsApart
    <3>3. age'["killed"] = age["killed"] /\ age'["recycle"] \in {0, age["recycle"]}
      BY <3>2 DEF BodyMoves
    <3>4. ~Recent("killed", Cooldown) /\ (~stuck[b] => age["recycle"] = 0)
      BY <3>1 DEF WorkerInv, KillsAllowed
    <3> QED BY <3>1, <3>3, <3>4 DEF Recent
  <2> QED BY <2>1, <2>2
<1>5. LoginsAllowed'
  <2> SUFFICES ASSUME NEW b \in Actors, Opens(prog'[b], "up")
               PROVE /\ ~(age'["tried"] # Unset /\ age'["tried"] < Reauth)
                     /\ ~stuck'[b] => age'["reauth"] = 0
    BY DEF LoginsAllowed, Recent, Unset
  <2>1. CASE b = a
    <3>1. /\ ~Recent("reauth", Reauth) /\ age'["reauth"] = 0
          /\ age'["tried"] = age["tried"]
      BY <2>1 DEF BodyMoves
    <3>2. ~(age["tried"] # Unset /\ age["tried"] < Reauth)
      BY <3>1, <1>c, <1>n, <1>s, FloorsKept DEF Recent, WorkerInv, StampsFirst
    <3> QED BY <3>1, <3>2
  <2>2. CASE b # a
    <3>1. prog'[b] = prog[b] /\ stuck'[b] = stuck[b]
      BY <2>2 DEF BodyMoves
    <3>2. ~Opens(prog[a], "up")
      BY <2>2, <3>1, <1>l, ActorsApart
    <3>3. age'["tried"] = age["tried"] /\ age'["reauth"] \in {0, age["reauth"]}
      BY <3>2 DEF BodyMoves
    <3>4. ~Recent("tried", Reauth) /\ (~stuck[b] => age["reauth"] = 0)
      BY <3>1 DEF WorkerInv, LoginsAllowed
    <3> QED BY <3>1, <3>3, <3>4 DEF Recent
  <2> QED BY <2>1, <2>2
<1>6. BeatYoung'
  <2>1. CASE age'["hb"] = 0
    BY <2>1 DEF BeatYoung
  <2>2. CASE age'["hb"] = age["hb"] /\ excuse' = excuse /\ age'["hb"] # 0
    <3>1. a = "worker" => EndsTick(prog'["worker"])
      BY <2>2 DEF BodyMoves
    <3>2. CASE a # "worker"
      BY <2>2, <3>2 DEF BeatYoung, BodyMoves, WorkerInv, Actors, Unset
    <3>3. CASE a = "worker"
      <4>1. prog'["worker"] # <<>> /\ on' = on /\ due' = due
        BY <3>1, <3>3 DEF EndsTick, BodyMoves
      <4>2. EndsTick(prog["worker"]) => ~Opens(prog["worker"], "guards")
        <5> SUFFICES ASSUME EndsTick(prog["worker"]), Opens(prog["worker"], "guards") PROVE FALSE
          OBVIOUS
        <5>1. Well(prog["worker"]) /\ "worker" \in Actors
          BY DEF WorkerInv, ProgramsWell, Actors
        <5>2. prog["worker"][1] = "guards" /\ 1 \in 1..Len(prog["worker"])
          BY <5>1 DEF Opens, Well
        <5>3. Len(prog["worker"]) = 1
          BY <5>1, <5>2 DEF Well
        <5> QED BY <5>2, <5>3 DEF EndsTick
      <4>3. EndsTick(prog["worker"]) => ~Opens(prog'["worker"], "checks")
        BY <4>2, <3>3 DEF BodyMoves
      <4> QED BY <2>2, <3>1, <3>3, <4>1, <4>3 DEF BeatYoung, WorkerInv, Unset
    <3> QED BY <3>2, <3>3
  <2> QED BY <2>1, <2>2 DEF BodyMoves
<1> QED BY <1>t, <1>1, <1>2, <1>3, <1>4, <1>5, <1>6 DEF WorkerInv

\* The part of BodyMoves that the program tells.
LEMMA ThenMoves ==
  ASSUME WorkerInv, NEW a \in Actors, NEW f \in Parts, prog[a] # <<>>, Then(a, f),
         Head(prog[a]) # "wait",
         f \in {<<>>, Tick} \/ Head(prog[a]) \in Working,
         f = Tick => Head(prog[a]) = "guards"
  PROVE  /\ prog' \in [Actors -> Seq(Stations)] /\ \A b \in Actors \ {a} : prog'[b] = prog[b]
         /\ Well(prog'[a]) /\ ~Opens(prog'[a], "wait")
         /\ Opens(prog'[a], "checks") => prog'[a] = Tick /\ Opens(prog[a], "guards")
         /\ a = "worker" =>
              \/ EndsTick(prog'[a])
              \/ Head(prog[a]) \in {"guards", "end"} /\ f = <<>> /\ prog'[a] = <<>>
         /\ Has(prog'[a], Locking) => Head(prog[a]) \in Working \/ f = Tick
         /\ Opens(prog'[a], "kill") => f = Recycle
         /\ Opens(prog'[a], "up") => f = <<"up">>
<1>1. prog \in [Actors -> Seq(Stations)] /\ Well(prog[a])
  BY DEF WorkerInv, Types, ProgramsWell
<1>2. prog' = [prog EXCEPT ![a] = f \o Tail(prog[a])]
  BY DEF Then
<1>3. prog'[a] = f \o Tail(prog[a]) /\ \A b \in Actors \ {a} : prog'[b] = prog[b]
  BY <1>1, <1>2, Zenon
<1>4. /\ Well(prog'[a]) /\ ~Opens(prog'[a], "wait")
      /\ Opens(prog'[a], "checks") => f = Tick
      /\ Opens(prog'[a], "kill") => f = Recycle
      /\ Opens(prog'[a], "up") => f = <<"up">>
      /\ f = Tick => prog'[a] = Tick
      /\ Has(prog'[a], Locking) => Head(prog[a]) \in Working \/ f = Tick
  BY <1>1, <1>3, NextProgram
<1>5. prog' \in [Actors -> Seq(Stations)]
  BY <1>1, <1>2, <1>3, <1>4, Zenon DEF Well
<1>6. ASSUME a = "worker"
      PROVE \/ EndsTick(prog'[a])
            \/ Head(prog[a]) \in {"guards", "end"} /\ f = <<>> /\ prog'[a] = <<>>
  <2>1. prog[a] = <<"guards">> \/ EndsTick(prog[a])
    BY <1>6 DEF WorkerInv, ProgramsWell
  <2>2. /\ Head(prog[a]) \in Working \cup {"guards", "end", "wait"}
        /\ Head(prog[a]) \in Working => EndsTick(prog'[a])
        /\ f = Tick => EndsTick(prog'[a])
        /\ Head(prog[a]) \in {"guards", "end"} /\ f = <<>> => prog'[a] = <<>>
    BY <2>1, <1>1, <1>3, TickProgram
  <2> QED BY <2>2 DEF Working
<1> QED BY <1>3, <1>4, <1>5, <1>6 DEF Opens

\* A station inside the work: the lock stays, and so does what the stamps say.
LEMMA WorkMoves ==
  ASSUME WorkerInv, NEW a \in Actors, NEW f \in Parts \ {Tick}, prog[a] # <<>>, ~stuck[a],
         Then(a, f), Head(prog[a]) \in Working, UNCHANGED <<lock, on, due, stuck>>,
         age' \in [Stamps -> 0..Unset],
         age'["recycle"] \in {0, age["recycle"]}, age'["reauth"] \in {0, age["reauth"]},
         age'["killed"] = age["killed"] \/ Opens(prog[a], "kill"),
         age'["tried"] = age["tried"] \/ Opens(prog[a], "up"),
         f = Recycle =>
           /\ ~Recent("recycle", Cooldown) /\ age'["recycle"] = 0 /\ age'["killed"] = age["killed"],
         f = <<"up">> =>
           /\ ~Recent("reauth", Reauth) /\ age'["reauth"] = 0 /\ age'["tried"] = age["tried"],
         age'["hb"] = 0 \/ (age'["hb"] = age["hb"] /\ excuse' = excuse)
  PROVE  BodyMoves(a)
<1>1. Head(prog[a]) # "wait" /\ Head(prog[a]) \notin {"guards", "end"}
  BY DEF Working
<1>2. /\ prog' \in [Actors -> Seq(Stations)] /\ \A b \in Actors \ {a} : prog'[b] = prog[b]
      /\ Well(prog'[a]) /\ ~Opens(prog'[a], "wait")
      /\ Opens(prog'[a], "checks") => prog'[a] = Tick /\ Opens(prog[a], "guards")
      /\ a = "worker" => EndsTick(prog'[a])
      /\ Opens(prog'[a], "kill") => f = Recycle
      /\ Opens(prog'[a], "up") => f = <<"up">>
  BY <1>1, ThenMoves
<1>3. lock = a
  BY <1>1, OpensHas DEF Opens, WorkerInv, WorkIsLocked, Types, Locking
<1>4. Types'
  BY <1>2 DEF Types, WorkerInv
<1> QED BY <1>2, <1>3, <1>4 DEF BodyMoves

LEMMA Stamped ==
  ASSUME Types, NEW S, StampNow(S)
  PROVE  /\ age' \in [Stamps -> 0..Unset]
         /\ \A s \in Stamps : age'[s] = IF s \in S THEN 0 ELSE age[s]
<1>1. 0 \in 0..Unset
  BY BoxWorkerAssumption DEF Unset
<1> QED BY <1>1, Zenon DEF StampNow, Types

LEMMA WorkStations ==
  ASSUME WorkerInv, NEW a \in Actors,
         \/ OfflineCheck(a) \/ Kill(a) \/ Forget(a) \/ StartDaemon(a)
         \/ Login(a) \/ Up(a) \/ Beat(a) \/ Check(a) \/ Recheck(a)
  PROVE  BodyMoves(a)
<1>t. Types
  BY DEF WorkerInv
<1>n. {"hb", "recycle", "killed", "reauth", "tried", "online", "repair"} \subseteq Stamps
  BY DEF Stamps
<1>p. <<>> \in Parts \ {Tick} /\ Recycle \in Parts \ {Tick} /\ Repair \in Parts \ {Tick}
        /\ <<"up">> \in Parts \ {Tick}
  BY DEF Parts, Tick, Recycle, Repair
<1>d. Recycle # <<>> /\ Recycle # Repair /\ Recycle # <<"up">> /\ Repair # <<>>
        /\ Repair # <<"up">> /\ <<"up">> # <<>>
  BY DEF Recycle, Repair
<1>a. age \in [Stamps -> 0..Unset]
  BY <1>t DEF Types
<1>w. {"offline", "kill", "forget", "start", "login", "up", "beat", "check", "recheck"}
        \subseteq Working
  BY DEF Working
<1>1. CASE OfflineCheck(a)
  <2>1. /\ prog[a] # <<>> /\ ~stuck[a] /\ Head(prog[a]) \in Working
        /\ UNCHANGED <<lock, on, due, stuck>> /\ excuse' = excuse
    BY <1>1, <1>w DEF OfflineCheck, At, worker
  <2>2. CASE Then(a, <<>>) /\ age' = age
    BY <2>1, <2>2, <1>a, <1>d, <1>p, WorkMoves
  <2>3. CASE Then(a, <<>>) /\ StampNow({"online"})
    <3>1. age' \in [Stamps -> 0..Unset] /\ \A s \in Stamps \ {"online"} : age'[s] = age[s]
      BY <2>3, <1>t, Stamped
    <3>2. /\ age'["recycle"] = age["recycle"] /\ age'["reauth"] = age["reauth"]
          /\ age'["killed"] = age["killed"] /\ age'["tried"] = age["tried"]
          /\ age'["hb"] = age["hb"]
      BY <3>1, <1>n
    <3> QED BY <2>1, <2>3, <3>1, <3>2, <1>d, <1>p, WorkMoves
  <2>4. CASE ~Recent("recycle", Cooldown) /\ Then(a, Recycle) /\ StampNow({"recycle"})
    <3>1. /\ age' \in [Stamps -> 0..Unset] /\ age'["recycle"] = 0
          /\ \A s \in Stamps \ {"recycle"} : age'[s] = age[s]
      BY <2>4, <1>n, <1>t, Stamped
    <3> QED BY <2>1, <2>4, <3>1, <1>d, <1>n, <1>p, WorkMoves
  <2> QED BY <1>1, <2>2, <2>3, <2>4 DEF OfflineCheck, Proceed
<1>2. CASE Kill(a) \/ Up(a)
  <2>1. /\ prog[a] # <<>> /\ ~stuck[a] /\ Head(prog[a]) \in Working
        /\ UNCHANGED <<lock, on, due, stuck>> /\ excuse' = excuse /\ Then(a, <<>>)
    BY <1>2, <1>w DEF Kill, Up, At, worker, Proceed
  <2>2. CASE Kill(a)
    <3>1. Opens(prog[a], "kill") /\ StampNow({"killed"})
      BY <2>2 DEF Kill, At, Opens
    <3>2. age' \in [Stamps -> 0..Unset] /\ \A s \in Stamps \ {"killed"} : age'[s] = age[s]
      BY <3>1, <1>t, Stamped
    <3>3. /\ age'["recycle"] = age["recycle"] /\ age'["reauth"] = age["reauth"]
          /\ age'["tried"] = age["tried"] /\ age'["hb"] = age["hb"]
      BY <3>2, <1>n
    <3> QED BY <2>1, <3>1, <3>2, <3>3, <1>d, <1>p, WorkMoves
  <2>3. CASE Up(a)
    <3>1. Opens(prog[a], "up") /\ StampNow({"tried"})
      BY <2>3 DEF Up, At, Opens
    <3>2. age' \in [Stamps -> 0..Unset] /\ \A s \in Stamps \ {"tried"} : age'[s] = age[s]
      BY <3>1, <1>t, Stamped
    <3>3. /\ age'["recycle"] = age["recycle"] /\ age'["reauth"] = age["reauth"]
          /\ age'["killed"] = age["killed"] /\ age'["hb"] = age["hb"]
      BY <3>2, <1>n
    <3> QED BY <2>1, <3>1, <3>2, <3>3, <1>d, <1>p, WorkMoves
  <2> QED BY <1>2, <2>2, <2>3
<1>3. CASE Forget(a)
  <2>1. /\ prog[a] # <<>> /\ ~stuck[a] /\ Head(prog[a]) \in Working
        /\ UNCHANGED <<lock, on, due, stuck>> /\ excuse' = excuse /\ Then(a, <<>>)
    BY <1>3, <1>w DEF Forget, At, worker, Proceed
  <2>2. age' = [age EXCEPT !["online"] = Unset]
    BY <1>3 DEF Forget
  <2>3. age' \in [Stamps -> 0..Unset] /\ \A s \in Stamps \ {"online"} : age'[s] = age[s]
    <3>1. Unset \in 0..Unset
      BY BoxWorkerAssumption DEF Unset
    <3> QED BY <2>2, <3>1, <1>a, <1>n, Zenon
  <2> QED BY <2>1, <2>3, <1>d, <1>n, <1>p, WorkMoves
<1>4. CASE StartDaemon(a) \/ Recheck(a)
  <2>1. /\ prog[a] # <<>> /\ ~stuck[a] /\ Head(prog[a]) \in Working
        /\ UNCHANGED <<lock, on, due, stuck>> /\ excuse' = excuse /\ Then(a, <<>>)
        /\ age' = age
    BY <1>4, <1>w DEF StartDaemon, Recheck, At, worker, Proceed
  <2> QED BY <2>1, <1>a, <1>d, <1>p, WorkMoves
<1>5. CASE Login(a)
  <2>1. /\ prog[a] # <<>> /\ ~stuck[a] /\ Head(prog[a]) \in Working
        /\ UNCHANGED <<lock, on, due, stuck>> /\ excuse' = excuse
    BY <1>5, <1>w DEF Login, At, worker
  <2>2. CASE Then(a, <<>>) /\ age' = age
    BY <2>1, <2>2, <1>a, <1>d, <1>p, WorkMoves
  <2>3. CASE ~Recent("reauth", Reauth) /\ StampNow({"reauth"}) /\ Then(a, <<"up">>)
    <3>1. /\ age' \in [Stamps -> 0..Unset] /\ age'["reauth"] = 0
          /\ \A s \in Stamps \ {"reauth"} : age'[s] = age[s]
      BY <2>3, <1>n, <1>t, Stamped
    <3> QED BY <2>1, <2>3, <3>1, <1>d, <1>n, <1>p, WorkMoves
  <2> QED BY <1>5, <2>2, <2>3 DEF Login, MayLogin, Proceed
<1>6. CASE Beat(a)
  <2>1. /\ prog[a] # <<>> /\ ~stuck[a] /\ Head(prog[a]) \in Working
        /\ UNCHANGED <<lock, on, due, stuck>> /\ Then(a, <<>>) /\ StampNow({"hb"})
    BY <1>6, <1>w DEF Beat, Beats, At, worker, Proceed
  <2>2. /\ age' \in [Stamps -> 0..Unset] /\ age'["hb"] = 0
        /\ \A s \in Stamps \ {"hb"} : age'[s] = age[s]
    BY <2>1, <1>n, <1>t, Stamped
  <2>3. /\ age'["recycle"] = age["recycle"] /\ age'["reauth"] = age["reauth"]
        /\ age'["killed"] = age["killed"] /\ age'["tried"] = age["tried"]
    BY <2>2, <1>n
  <2> QED BY <2>1, <2>2, <2>3, <1>d, <1>p, WorkMoves
<1>7. CASE Check(a)
  <2>1. /\ prog[a] # <<>> /\ ~stuck[a] /\ Head(prog[a]) \in Working
        /\ UNCHANGED <<lock, on, due, stuck>> /\ excuse' = excuse
    BY <1>7, <1>w DEF Check, At, worker
  <2>2. CASE Then(a, <<>>) /\ age' = age
    BY <2>1, <2>2, <1>a, <1>d, <1>p, WorkMoves
  <2>3. CASE StampNow({"repair"}) /\ Then(a, Repair)
    <3>1. age' \in [Stamps -> 0..Unset] /\ \A s \in Stamps \ {"repair"} : age'[s] = age[s]
      BY <2>3, <1>t, Stamped
    <3> QED BY <2>1, <2>3, <3>1, <1>d, <1>n, <1>p, WorkMoves
  <2> QED BY <1>7, <2>2, <2>3 DEF Check, Proceed
<1> QED BY <1>1, <1>2, <1>3, <1>4, <1>5, <1>6, <1>7

LEMMA StartAndBeat ==
  LET q == <<"start">> \o <<"beat", "check", "end">>
  IN  /\ Len(q) = 4 /\ q[1] = "start" /\ q[2] = "beat" /\ q[3] = "check" /\ q[4] = "end"
      /\ q \in Seq({"start", "beat", "check", "end"})
OBVIOUS

\* A tick that finds no daemon starts one and leaves out the look at the offline
\* daemon.
LEMMA ShortTick ==
  LET q == <<"start">> \o Tail(Tail(Tick))
  IN  Well(q) /\ EndsTick(q) /\ \A s \in Openings : ~Opens(q, s)
<1> DEFINE q == <<"start">> \o Tail(Tail(Tick))
<1>1. Tail(Tail(Tick)) = <<"beat", "check", "end">>
  BY DEF Tick
<1>2. /\ Len(q) = 4 /\ q[1] = "start" /\ q[2] = "beat" /\ q[3] = "check" /\ q[4] = "end"
      /\ q \in Seq({"start", "beat", "check", "end"})
  BY <1>1, StartAndBeat, Zenon
<1> HIDE DEF q
<1>3. q \in Seq(Stations)
  BY <1>2 DEF Stations
<1>4. \A i \in 1..Len(q) : i \in {1, 2, 3, 4}
  BY <1>2
<1>5. Well(q)
  BY <1>2, <1>3, <1>4 DEF Well, Openings, Working
<1>6. EndsTick(q) /\ \A s \in Openings : ~Opens(q, s)
  BY <1>2 DEF EndsTick, Opens, Openings
<1> QED BY <1>5, <1>6 DEF q

LEMMA TickStations ==
  ASSUME WorkerInv, NEW a \in Actors, Guards(a) \/ Checks(a) \/ TickEnds(a)
  PROVE  BodyMoves(a)
<1>t. Types
  BY DEF WorkerInv
<1>n. {"hb", "recycle", "killed", "reauth", "tried", "online", "repair"} \subseteq Stamps
  BY DEF Stamps
<1>p. <<>> \in Parts \ {Tick} /\ Recycle \in Parts \ {Tick} /\ Tick \in Parts
  BY DEF Parts, Tick, Recycle
<1>d. Recycle # <<>> /\ Recycle # <<"up">> /\ Tick # <<>> /\ Tick # Recycle /\ Tick # <<"up">>
  BY DEF Recycle, Tick
<1>a. age \in [Stamps -> 0..Unset]
  BY <1>t DEF Types
<1>1. CASE Guards(a)
  <2>1. /\ prog[a] # <<>> /\ ~stuck[a] /\ Head(prog[a]) = "guards"
        /\ UNCHANGED <<on, due, stuck>>
    BY <1>1 DEF Guards, At, worker
  <2>2. CASE lock = "free" /\ lock' = a /\ Then(a, Tick) /\ UNCHANGED <<age, excuse>>
    <3>1. /\ prog' \in [Actors -> Seq(Stations)] /\ \A b \in Actors \ {a} : prog'[b] = prog[b]
          /\ Well(prog'[a]) /\ ~Opens(prog'[a], "wait")
          /\ Opens(prog'[a], "checks") => prog'[a] = Tick /\ Opens(prog[a], "guards")
          /\ a = "worker" => EndsTick(prog'[a])
          /\ ~Opens(prog'[a], "kill") /\ ~Opens(prog'[a], "up")
      BY <2>1, <2>2, <1>p, <1>d, ThenMoves
    <3>2. Types'
      BY <2>1, <2>2, <3>1, <1>t DEF Types
    <3> QED BY <2>1, <2>2, <3>1, <3>2 DEF BodyMoves
  <2>3. CASE Beats({}) /\ Then(a, <<>>) /\ UNCHANGED lock
    <3>1. /\ prog' \in [Actors -> Seq(Stations)] /\ \A b \in Actors \ {a} : prog'[b] = prog[b]
          /\ Well(prog'[a]) /\ ~Opens(prog'[a], "wait")
          /\ ~Opens(prog'[a], "checks")
          /\ a = "worker" => EndsTick(prog'[a]) \/ prog'[a] = <<>>
          /\ ~Opens(prog'[a], "kill") /\ ~Opens(prog'[a], "up") /\ ~Has(prog'[a], Locking)
      <4>1. "guards" \notin Working /\ "guards" # "wait" /\ <<>> \in Parts /\ <<>> # Tick
              /\ <<>> # Recycle /\ <<>> # <<"up">>
        BY <1>p, <1>d DEF Working
      <4>2. /\ prog' \in [Actors -> Seq(Stations)] /\ \A b \in Actors \ {a} : prog'[b] = prog[b]
            /\ Well(prog'[a]) /\ ~Opens(prog'[a], "wait")
            /\ Opens(prog'[a], "checks") => prog'[a] = Tick
            /\ a = "worker" => EndsTick(prog'[a]) \/ prog'[a] = <<>>
            /\ ~Opens(prog'[a], "kill") /\ ~Opens(prog'[a], "up") /\ ~Has(prog'[a], Locking)
        BY <2>1, <2>3, <4>1, ThenMoves
      <4>3. ~Opens(prog'[a], "checks")
        BY <2>1, <2>3, <4>1, <1>t, WorkerInv, NextProgram DEF Types, Then, ProgramsWell, WorkerInv
      <4> QED BY <4>2, <4>3
    <3>2. /\ age' \in [Stamps -> 0..Unset] /\ age'["hb"] = 0
          /\ \A s \in Stamps \ {"hb"} : age'[s] = age[s]
      BY <2>3, <1>n, <1>t, Stamped DEF Beats
    <3>3. /\ age'["recycle"] = age["recycle"] /\ age'["reauth"] = age["reauth"]
          /\ age'["killed"] = age["killed"] /\ age'["tried"] = age["tried"]
      BY <3>2, <1>n
    <3>4. Types'
      BY <2>1, <2>3, <3>1, <3>2, <1>t DEF Types
    <3> QED BY <2>1, <2>3, <3>1, <3>2, <3>3, <3>4 DEF BodyMoves
  <2> QED BY <1>1, <2>2, <2>3 DEF Guards, Proceed
<1>2. CASE Checks(a)
  <2>1. /\ prog[a] # <<>> /\ ~stuck[a] /\ Head(prog[a]) = "checks" /\ "checks" \in Working
        /\ UNCHANGED <<lock, on, due, stuck>> /\ excuse' = excuse
    BY <1>2 DEF Checks, At, worker, Working
  <2>2. CASE prog' = [prog EXCEPT ![a] = <<"start">> \o Tail(Tail(prog[a]))] /\ UNCHANGED age
    <3>1. prog[a] = Tick /\ Opens(prog[a], "checks")
      BY <2>1 DEF WorkerInv, ProgramsWell, Opens
    <3>2. /\ prog'[a] = <<"start">> \o Tail(Tail(Tick))
          /\ \A b \in Actors \ {a} : prog'[b] = prog[b]
      BY <2>2, <3>1, <1>t, Zenon DEF Types
    <3>3. Well(prog'[a]) /\ EndsTick(prog'[a]) /\ \A s \in Openings : ~Opens(prog'[a], s)
      BY <3>2, ShortTick
    <3>4. prog' \in [Actors -> Seq(Stations)]
      BY <2>2, <3>2, <3>3, <1>t, Zenon DEF Types, Well
    <3>5. lock = a
      <4>1. "checks" \in Locking /\ ~Opens(prog[a], "wait")
        BY <3>1 DEF Locking, Working, Opens
      <4> QED BY <3>1, <4>1, <1>t, OpensHas DEF Types, WorkerInv, WorkIsLocked
    <3>6. Types'
      BY <2>1, <2>2, <3>4, <1>t DEF Types
    <3>7. \A s \in {"wait", "checks", "kill", "up"} : ~Opens(prog'[a], s)
      BY <3>3 DEF Openings
    <3> QED BY <2>1, <2>2, <3>2, <3>3, <3>5, <3>6, <3>7 DEF BodyMoves
  <2>3. CASE Woken /\ StampNow({"recycle"}) /\ Then(a, Recycle)
    <3>1. /\ age' \in [Stamps -> 0..Unset] /\ age'["recycle"] = 0
          /\ \A s \in Stamps \ {"recycle"} : age'[s] = age[s]
      BY <2>3, <1>n, <1>t, Stamped
    <3>2. ~Recent("recycle", Cooldown)
      BY <2>3 DEF Woken
    <3>3. /\ age'["reauth"] = age["reauth"] /\ age'["hb"] = age["hb"]
          /\ age'["killed"] = age["killed"] /\ age'["tried"] = age["tried"]
      BY <3>1, <1>n
    <3> QED BY <2>1, <2>3, <3>1, <3>2, <3>3, <1>d, <1>p, WorkMoves
  <2>4. CASE Then(a, <<>>) /\ UNCHANGED age
    BY <2>1, <2>4, <1>a, <1>d, <1>p, WorkMoves
  <2> QED BY <1>2, <2>2, <2>3, <2>4 DEF Checks, Proceed
<1>3. CASE TickEnds(a)
  <2>1. /\ prog[a] # <<>> /\ ~stuck[a] /\ Head(prog[a]) = "end" /\ "end" \in Locking
        /\ UNCHANGED <<on, due, stuck>> /\ Beats({}) /\ lock' = "free" /\ Then(a, <<>>)
    BY <1>3 DEF TickEnds, At, worker, Locking, Proceed
  <2>2. lock = a
    BY <2>1, <1>t, OpensHas DEF Types, WorkerInv, WorkIsLocked, Opens
  <2>3. /\ prog' \in [Actors -> Seq(Stations)] /\ \A b \in Actors \ {a} : prog'[b] = prog[b]
        /\ Well(prog'[a]) /\ ~Opens(prog'[a], "wait")
        /\ ~Opens(prog'[a], "checks")
        /\ a = "worker" => EndsTick(prog'[a]) \/ prog'[a] = <<>>
        /\ ~Opens(prog'[a], "kill") /\ ~Opens(prog'[a], "up") /\ ~Has(prog'[a], Locking)
    <3>1. "end" \notin Working /\ "end" # "guards"
      BY DEF Working
    <3> QED BY <2>1, <3>1, <1>p, <1>d, ThenMoves DEF Opens
  <2>4. /\ age' \in [Stamps -> 0..Unset] /\ age'["hb"] = 0
        /\ \A s \in Stamps \ {"hb"} : age'[s] = age[s]
    BY <2>1, <1>n, <1>t, Stamped DEF Beats
  <2>5. /\ age'["recycle"] = age["recycle"] /\ age'["reauth"] = age["reauth"]
        /\ age'["killed"] = age["killed"] /\ age'["tried"] = age["tried"]
    BY <2>4, <1>n
  <2>6. Types'
    BY <2>1, <2>3, <2>4, <1>t DEF Types
  <2> QED BY <2>1, <2>2, <2>3, <2>4, <2>5, <2>6 DEF BodyMoves
<1> QED BY <1>1, <1>2, <1>3

-----------------------------------------------------------------------------
(* The steps that are no station's: a body is left as it is, or what it goes on *)
(* with is no work, or is behind the wait for the lock, or has just got it.     *)

Kept(b) ==
  /\ prog'[b] = prog[b] /\ (stuck[b] => stuck'[b]) /\ (lock = b => lock' = b)
Fresh(b) ==
  /\ Well(prog'[b]) /\ \A s \in {"checks", "kill", "up"} : ~Opens(prog'[b], s)
  /\ Opens(prog'[b], "wait") => b = "cli" /\ prog'[b] \in {Once, Ensure}
  /\ Has(prog'[b], Locking) => Opens(prog'[b], "wait") \/ lock' = b
  /\ b = "worker" => prog'[b] \in {<<>>, <<"guards">>}

LEMMA BodiesKept ==
  ASSUME WorkerInv, Types', age' = age, BeatYoung', \A b \in Actors : Kept(b) \/ Fresh(b)
  PROVE  WorkerInv'
<1>1. ProgramsWell'
  <2>1. \A b \in Actors : Well(prog'[b])
    BY DEF Kept, Fresh, WorkerInv, ProgramsWell
  <2>2. \A b \in Actors : Opens(prog'[b], "wait") => b = "cli" /\ prog'[b] \in {Once, Ensure}
    BY DEF Kept, Fresh, WorkerInv, ProgramsWell
  <2>3. \A b \in Actors : Opens(prog'[b], "checks") => prog'[b] = Tick
    BY DEF Kept, Fresh, WorkerInv, ProgramsWell
  <2>4. prog'["worker"] \in {<<>>, <<"guards">>} \/ EndsTick(prog'["worker"])
    BY DEF Kept, Fresh, WorkerInv, ProgramsWell, Actors
  <2> QED BY <2>1, <2>2, <2>3, <2>4 DEF ProgramsWell
<1>2. WorkIsLocked'
  <2> SUFFICES ASSUME NEW b \in Actors, Has(prog'[b], Locking), ~Opens(prog'[b], "wait")
               PROVE lock' = b
    BY DEF WorkIsLocked
  <2>1. CASE Kept(b)
    BY <2>1 DEF Kept, WorkerInv, WorkIsLocked
  <2>2. CASE Fresh(b)
    BY <2>2 DEF Fresh
  <2> QED BY <2>1, <2>2
<1>3. KillsAllowed' /\ LoginsAllowed'
  BY DEF Kept, Fresh, WorkerInv, KillsAllowed, LoginsAllowed, Recent, Unset
<1>4. StampsFirst'
  BY DEF WorkerInv, StampsFirst
<1> QED BY <1>1, <1>2, <1>3, <1>4 DEF WorkerInv

\* An excuse only comes, and the worker is as it was.
LEMMA BeatKept ==
  ASSUME WorkerInv, age' = age, prog'["worker"] = prog["worker"], on' = on, due => due',
         excuse => excuse'
  PROVE  BeatYoung'
BY DEF WorkerInv, BeatYoung, Unset

LEMMA Excused ==
  ASSUME excuse'
  PROVE  BeatYoung'
BY DEF BeatYoung

LEMMA NoProgram ==
  /\ Well(<<>>) /\ ~Has(<<>>, Locking) /\ \A s \in Openings : ~Opens(<<>>, s)
  /\ Well(<<"guards">>) /\ ~Has(<<"guards">>, Locking)
  /\ \A s \in Openings : ~Opens(<<"guards">>, s)
BY DEF Well, Has, Opens, Openings, Locking, Working, Stations

\* The commands: a wait, the work, and for `once' the restart and a tick.
LEMMA CommandsWell ==
  ASSUME NEW p \in {Once, Ensure}
  PROVE  /\ Well(p) /\ Opens(p, "wait") /\ \A s \in {"checks", "kill", "up"} : ~Opens(p, s)
         /\ Well(Tail(p)) /\ \A s \in Openings : ~Opens(Tail(p), s)
<1>1. CASE p = Once
  BY <1>1 DEF Once, Well, Opens, Openings, Working, Stations
<1>2. CASE p = Ensure
  BY <1>2 DEF Ensure, Well, Opens, Openings, Working, Stations
<1> QED BY <1>1, <1>2

\* The command that waited in vain has only its restart and its tick left.
LEMMA CommandsSkip ==
  ASSUME NEW p \in {Once, Ensure}
  PROVE  /\ Well(SubSeq(p, 5, Len(p))) /\ ~Has(SubSeq(p, 5, Len(p)), Locking)
         /\ \A s \in Openings : ~Opens(SubSeq(p, 5, Len(p)), s)
<1> DEFINE q == SubSeq(p, 5, Len(p))
<1>1. CASE p = Once
  <2>1. Len(p) = 6 /\ p[5] = "restart" /\ p[6] = "guards" /\ p \in Seq(Stations)
    BY <1>1 DEF Once, Stations
  <2>2. \A i \in 5..6 : p[i] \in Stations
    BY <2>1 DEF Stations
  <2>3. /\ q \in Seq(Stations) /\ Len(q) = IF 5 <= 6 THEN 6 - 5 + 1 ELSE 0
        /\ \A i \in 1 .. 6 - 5 + 1 : q[i] = p[5 + i - 1]
    BY <2>1, <2>2, SubSeqProperties
  <2> HIDE DEF q
  <2>4. Len(q) = 2 /\ q[1] = "restart" /\ q[2] = "guards"
    BY <2>1, <2>3
  <2>5. \A i \in 1..Len(q) : i \in {1, 2}
    BY <2>4
  <2>6. Well(q)
    BY <2>3, <2>4, <2>5 DEF Well, Openings, Working
  <2>7. ~Has(q, Locking) /\ \A s \in Openings : ~Opens(q, s)
    BY <2>4, <2>5 DEF Has, Locking, Working, Opens, Openings
  <2> QED BY <2>6, <2>7 DEF q
<1>2. CASE p = Ensure
  <2>1. Len(p) = 4 /\ p \in Seq(Stations)
    BY <1>2 DEF Ensure, Stations
  <2>2. q = <<>>
    BY <2>1
  <2> QED BY <2>2, NoProgram
<1> QED BY <1>1, <1>2

\* Bodies die, with the lock they hold.
LEMMA DeathsKeep ==
  ASSUME WorkerInv, NEW P, Dead(P), lock' = Unlocked(P), age' = age, BeatYoung'
  PROVE  WorkerInv'
<1>1. \A b \in Actors : IF b \in P THEN prog'[b] = <<>> ELSE prog'[b] = prog[b] /\ stuck'[b] = stuck[b]
  BY DEF Dead, WorkerInv, Types
<1>2. \A b \in Actors : Kept(b) \/ Fresh(b)
  BY <1>1, NoProgram DEF Kept, Fresh, Unlocked, Openings
<1>3. prog' \in [Actors -> Seq(Stations)]
  <2>1. <<>> \in Seq(Stations) /\ \A b \in Actors : prog[b] \in Seq(Stations)
    BY DEF WorkerInv, Types
  <2> QED BY <2>1, Zenon DEF Dead
<1>4. stuck' \in [Actors -> BOOLEAN]
  BY Zenon DEF Dead, WorkerInv, Types
<1>5. lock' \in Actors \cup {"free"} /\ age' \in [Stamps -> 0..Unset]
  BY DEF Unlocked, WorkerInv, Types
<1>6. Types'
  BY <1>3, <1>4, <1>5 DEF Types, Unset
<1> QED BY <1>2, <1>6, BodiesKept

\* Only the programs change, and that of `b' alone.
LEMMA ProgramGiven ==
  ASSUME WorkerInv, NEW b \in Actors, NEW p, prog' = [prog EXCEPT ![b] = p],
         lock' \in Actors \cup {"free"}, stuck' = stuck, age' = age,
         Fresh(b), \A c \in Actors \ {b} : lock = c => lock' = c, BeatYoung'
  PROVE  WorkerInv'
<1>1. prog'[b] = p /\ \A c \in Actors \ {b} : prog'[c] = prog[c]
  BY Zenon DEF WorkerInv, Types
<1>2. p \in Seq(Stations)
  BY <1>1 DEF Fresh, Well
<1>3. prog' \in [Actors -> Seq(Stations)]
  BY <1>2, Zenon DEF WorkerInv, Types
<1>4. Types'
  BY <1>3 DEF Types, Unset, WorkerInv
<1>5. \A c \in Actors : Kept(c) \/ Fresh(c)
  BY <1>1 DEF Kept
<1> QED BY <1>4, <1>5, BodiesKept

LEMMA CommandSteps ==
  ASSUME WorkerInv, Hourly \/ Extra \/ Wake \/ Wait \/ Release
  PROVE  WorkerInv'
<1>a. "cli" \in Actors /\ "worker" \in Actors /\ "cli" # "worker"
  BY DEF Actors
<1>p. prog["cli"] \in Seq(Stations) /\ prog["worker"] \in Seq(Stations)
  BY <1>a DEF WorkerInv, Types
<1>l. lock \in Actors \cup {"free"}
  BY DEF WorkerInv, Types
<1>1. ASSUME NEW p \in {Once, Ensure, <<"guards">>}, Call(p) PROVE WorkerInv'
  <2>1. /\ prog' = [prog EXCEPT !["cli"] = p] /\ prog'["cli"] = p
        /\ prog'["worker"] = prog["worker"]
        /\ lock' = lock /\ stuck' = stuck /\ age' = age /\ on' = on /\ due' = due
        /\ excuse' = excuse
    BY <1>1, <1>a, Zenon DEF Call, worker, WorkerInv, Types
  <2>2. BeatYoung'
    BY <2>1, BeatKept
  <2>3. Fresh("cli")
    BY <2>1, <1>a, NoProgram, CommandsWell DEF Fresh, Openings
  <2> QED BY <2>1, <2>2, <2>3, <1>a, <1>l, ProgramGiven
<1>2. CASE Hourly \/ Extra
  BY <1>1, <1>2 DEF Hourly, Extra
<1>3. CASE Wake
  <2>1. /\ prog' = [prog EXCEPT !["worker"] = <<"guards">>] /\ prog'["worker"] = <<"guards">>
        /\ lock' = lock /\ stuck' = stuck /\ age' = age /\ on' = on /\ excuse' = excuse
        /\ prog["worker"] = <<>>
    BY <1>3, <1>a, Zenon DEF Wake, WorkerInv, Types
  <2>2. ~EndsTick(<<>>) /\ <<"guards">> # <<>>
    BY DEF EndsTick
  <2>3. BeatYoung'
    BY <2>1, <2>2 DEF WorkerInv, BeatYoung, Unset
  <2>4. Fresh("worker")
    BY <2>1, <1>a, NoProgram DEF Fresh, Openings
  <2> QED BY <2>1, <2>3, <2>4, <1>a, <1>l, ProgramGiven
<1>4. CASE Wait
  <2>1. /\ Opens(prog["cli"], "wait") /\ stuck' = stuck /\ age' = age /\ on' = on /\ due' = due
        /\ excuse' = excuse
    BY <1>4 DEF Wait, At, Opens, worker
  <2>2. prog["cli"] \in {Once, Ensure}
    BY <2>1, <1>a DEF WorkerInv, ProgramsWell
  <2>3. CASE lock = "free" /\ lock' = "cli" /\ Proceed("cli")
    <3>1. <<>> \o Tail(prog["cli"]) = Tail(prog["cli"])
      BY <2>2 DEF Once, Ensure
    <3>2. /\ prog' = [prog EXCEPT !["cli"] = Tail(prog["cli"])]
          /\ prog'["cli"] = Tail(prog["cli"]) /\ prog'["worker"] = prog["worker"]
      BY <2>3, <3>1, <1>a, Zenon DEF Proceed, Then, WorkerInv, Types
    <3>3. BeatYoung'
      BY <2>1, <3>2, BeatKept
    <3>4. Fresh("cli")
      BY <2>2, <2>3, <3>2, <1>a, CommandsWell DEF Fresh, Openings
    <3>5. "free" \notin Actors
      BY DEF Actors
    <3> QED BY <2>1, <2>3, <3>2, <3>3, <3>4, <3>5, <1>a, ProgramGiven
  <2>4. CASE lock' = lock /\ prog' = [prog EXCEPT !["cli"] = SubSeq(@, 5, Len(@))]
    <3>1. /\ prog' = [prog EXCEPT !["cli"] = SubSeq(prog["cli"], 5, Len(prog["cli"]))]
          /\ prog'["cli"] = SubSeq(prog["cli"], 5, Len(prog["cli"]))
          /\ prog'["worker"] = prog["worker"]
      BY <2>4, <1>a, Zenon DEF WorkerInv, Types
    <3>2. BeatYoung'
      BY <2>1, <3>1, BeatKept
    <3>3. Fresh("cli")
      BY <2>2, <3>1, <1>a, CommandsSkip DEF Fresh, Openings
    <3> QED BY <2>1, <2>4, <3>1, <3>2, <3>3, <1>a, <1>l, ProgramGiven
  <2> QED BY <1>4, <2>3, <2>4 DEF Wait
<1>5. CASE Release
  <2>1. /\ Opens(prog["cli"], "release") /\ stuck' = stuck /\ age' = age /\ on' = on
        /\ due' = due /\ excuse' = excuse /\ lock' = "free"
        /\ prog' = [prog EXCEPT !["cli"] = <<>> \o Tail(prog["cli"])]
    BY <1>5 DEF Release, At, Opens, worker, Proceed, Then
  <2>2. lock = "cli"
    <3>1. "release" \in Locking /\ ~Opens(prog["cli"], "wait")
      BY <2>1 DEF Opens, Locking
    <3> QED BY <2>1, <3>1, <1>a, <1>p, OpensHas DEF WorkerInv, WorkIsLocked
  <2>3. /\ prog'["cli"] = <<>> \o Tail(prog["cli"]) /\ prog'["worker"] = prog["worker"]
    BY <2>1, <1>a, Zenon DEF WorkerInv, Types
  <2>4. BeatYoung'
    BY <2>1, <2>3, BeatKept
  <2>5. Fresh("cli")
    <3>1. /\ Well(prog["cli"]) /\ prog["cli"] # <<>> /\ Head(prog["cli"]) = "release"
          /\ "release" # "wait" /\ "release" \notin Working /\ "release" # "guards"
      BY <2>1, <1>a DEF WorkerInv, ProgramsWell, Opens, Working
    <3>2. /\ <<>> \in Parts /\ <<>> # Tick /\ <<>> # Recycle /\ <<>> # <<"up">>
      BY DEF Parts, Tick, Recycle
    <3>3. /\ Well(prog'["cli"]) /\ ~Opens(prog'["cli"], "wait")
          /\ ~Opens(prog'["cli"], "checks") /\ ~Opens(prog'["cli"], "kill")
          /\ ~Opens(prog'["cli"], "up") /\ ~Has(prog'["cli"], Locking)
      BY <2>3, <3>1, <3>2, NextProgram
    <3> QED BY <3>3, <1>a DEF Fresh
  <2> QED BY <2>1, <2>2, <2>4, <2>5, <1>a, ProgramGiven
<1> QED BY <1>2, <1>3, <1>4, <1>5

LEMMA RestartKeeps ==
  ASSUME WorkerInv, Restart
  PROVE  WorkerInv'
<1>a. "cli" \in Actors /\ "worker" \in Actors /\ "cli" # "worker" /\ Actors = {"cli", "worker"}
  BY DEF Actors
<1>1. /\ Opens(prog["cli"], "restart") /\ ~stuck["cli"] /\ on' = TRUE /\ age' = age
      /\ lock' = Unlocked({"worker"}) /\ stuck' = [stuck EXCEPT !["worker"] = FALSE]
      /\ excuse' = (excuse \/ prog["worker"] # <<>>)
  BY DEF Restart, At, Opens
<1>2. PICK rest \in {<<>>, Tail(prog["cli"])} :
        prog' = [prog EXCEPT !["worker"] = <<"guards">>, !["cli"] = rest]
  BY DEF Restart
<1>3. prog'["worker"] = <<"guards">> /\ prog'["cli"] = rest
  BY <1>2, <1>a, Zenon DEF WorkerInv, Types
<1>4. BeatYoung'
  <2>1. ~EndsTick(<<>>) /\ <<"guards">> # <<>>
    BY DEF EndsTick
  <2> QED BY <1>1, <1>3, <2>1 DEF BeatYoung, WorkerInv, Unset
<1>5. Fresh("worker")
  BY <1>3, NoProgram DEF Fresh, Openings
<1>6. Fresh("cli")
  <2>1. CASE rest = <<>>
    BY <2>1, <1>3, <1>a, NoProgram DEF Fresh, Openings
  <2>2. CASE rest = Tail(prog["cli"])
    <3>1. /\ Well(prog["cli"]) /\ prog["cli"] # <<>> /\ Head(prog["cli"]) = "restart"
          /\ "restart" # "wait" /\ "restart" \notin Working
      BY <1>1, <1>a DEF WorkerInv, ProgramsWell, Opens, Working
    <3>2. /\ <<>> \in Parts /\ <<>> # Tick /\ <<>> # Recycle /\ <<>> # <<"up">>
      BY DEF Parts, Tick, Recycle
    <3>3. <<>> \o Tail(prog["cli"]) = Tail(prog["cli"])
      <4>1. Tail(prog["cli"]) \in Seq(Stations)
        BY <3>1 DEF Well
      <4> QED BY <4>1
    <3>4. /\ Well(prog'["cli"]) /\ ~Opens(prog'["cli"], "wait")
          /\ ~Opens(prog'["cli"], "checks") /\ ~Opens(prog'["cli"], "kill")
          /\ ~Opens(prog'["cli"], "up") /\ ~Has(prog'["cli"], Locking)
      <4> DEFINE q == <<>> \o Tail(prog["cli"])
      <4>1. /\ Well(q) /\ ~Opens(q, "wait") /\ ~Opens(q, "checks") /\ ~Opens(q, "kill")
            /\ ~Opens(q, "up") /\ ~Has(q, Locking)
        BY <3>1, <3>2, NextProgram
      <4> QED BY <4>1, <3>3, <2>2, <1>3, Zenon
    <3> QED BY <3>4, <1>a DEF Fresh
  <2> QED BY <2>1, <2>2, <1>2
<1>7. Types'
  <2>1. rest \in Seq(Stations) /\ <<"guards">> \in Seq(Stations)
    BY <1>3, <1>6, NoProgram DEF Fresh, Well
  <2>2. prog' \in [Actors -> Seq(Stations)] /\ stuck' \in [Actors -> BOOLEAN]
    BY <2>1, <1>1, <1>2, Zenon DEF WorkerInv, Types
  <2> QED BY <2>2, <1>1 DEF Types, Unset, Unlocked, WorkerInv
<1> QED BY <1>1, <1>4, <1>5, <1>6, <1>7, <1>a, BodiesKept

LEMMA EndsKeep ==
  ASSUME WorkerInv, Deadline \/ Stop \/ Swap \/ \E a \in Actors : BodyKilled(a)
  PROVE  WorkerInv'
<1>1. CASE Deadline \/ Stop
  BY <1>1, Excused, DeathsKeep DEF Deadline, Stop, runDir
<1>2. ASSUME NEW a \in Actors, BodyKilled(a) PROVE WorkerInv'
  <2>1. Dead({a}) /\ lock' = Unlocked({a}) /\ age' = age
    BY <1>2 DEF BodyKilled, runDir
  <2>2. BeatYoung'
    <3>1. CASE a = "worker"
      BY <3>1, <1>2, Excused DEF BodyKilled
    <3>2. CASE a # "worker"
      <4>1. prog'["worker"] = prog["worker"]
        BY <3>2, <2>1 DEF Dead, Actors
      <4>2. on' = on /\ (due => due') /\ (excuse => excuse')
        BY <3>2, <1>2 DEF BodyKilled
      <4> QED BY <4>1, <4>2, <2>1, BeatKept
    <3> QED BY <3>1, <3>2
  <2> QED BY <2>1, <2>2, DeathsKeep
<1>3. CASE Swap
  <2>1. \A b \in Actors : prog'[b] = <<>> /\ stuck'[b] = FALSE
    BY <1>3 DEF Swap, Dead
  <2>2. Unset \in 0..Unset /\ Unset \in Nat
    BY BoxWorkerAssumption DEF Unset
  <2>3. age' \in [Stamps -> 0..Unset] /\ \A s \in Stamps : age'[s] = Unset
    BY <1>3, <2>2, Zenon DEF Swap
  <2>4. prog' \in [Actors -> Seq(Stations)] /\ stuck' \in [Actors -> BOOLEAN]
    <3>1. <<>> \in Seq(Stations) /\ FALSE \in BOOLEAN
      OBVIOUS
    <3>2. prog' = [a \in Actors |-> prog'[a]] /\ stuck' = [a \in Actors |-> stuck'[a]]
      BY <1>3, Zenon DEF Swap, Dead
    <3> QED BY <3>1, <3>2, <2>1, Zenon
  <2>5. Types'
    BY <1>3, <2>3, <2>4 DEF Types, Swap, Unset
  <2>6. ProgramsWell' /\ WorkIsLocked'
    BY <2>1, NoProgram DEF ProgramsWell, WorkIsLocked, Openings, Actors
  <2>7. StampsFirst'
    BY <2>2, <2>3 DEF StampsFirst, Stamps
  <2>8. KillsAllowed' /\ LoginsAllowed'
    BY <2>1, NoProgram DEF KillsAllowed, LoginsAllowed, Openings
  <2>9. BeatYoung'
    BY <2>3 DEF BeatYoung, Stamps, Unset
  <2> QED BY <2>5, <2>6, <2>7, <2>8, <2>9 DEF WorkerInv
<1> QED BY <1>1, <1>2, <1>3

\* The steps that leave every body where it is, or stick one.
LEMMA StillKeeps ==
  ASSUME WorkerInv, UNCHANGED <<prog, lock, age, on, due, excuse>>,
         stuck' \in [Actors -> BOOLEAN], \A b \in Actors : stuck[b] => stuck'[b]
  PROVE  WorkerInv'
<1>1. Types'
  BY DEF WorkerInv, Types, Unset
<1>2. BeatYoung'
  BY BeatKept
<1>3. \A b \in Actors : Kept(b)
  BY DEF Kept
<1> QED BY <1>1, <1>2, <1>3, BodiesKept

LEMMA WorldKeeps ==
  ASSUME WorkerInv,
         \/ Settles \/ Shows \/ DoorOpens \/ DaemonFails \/ Weather \/ UNCHANGED workerVars
         \/ \E a \in Actors : Wedge(a)
  PROVE  WorkerInv'
<1>1. ASSUME NEW a \in Actors, Wedge(a) PROVE WorkerInv'
  <2>1. /\ UNCHANGED <<prog, lock, age, on, due, excuse>>
        /\ stuck' = [stuck EXCEPT ![a] = TRUE]
    BY <1>1 DEF Wedge, runDir, worker
  <2>2. stuck' \in [Actors -> BOOLEAN] /\ \A b \in Actors : stuck[b] => stuck'[b]
    BY <2>1, Zenon DEF WorkerInv, Types
  <2> QED BY <2>1, <2>2, StillKeeps
<1>2. CASE Settles \/ Shows \/ DoorOpens \/ DaemonFails \/ Weather \/ UNCHANGED workerVars
  <2>1. UNCHANGED <<prog, lock, age, on, due, excuse, stuck>>
    BY <1>2 DEF Settles, Shows, DoorOpens, DaemonFails, Weather, workerVars, runDir, worker, bodies
  <2>2. stuck' \in [Actors -> BOOLEAN] /\ \A b \in Actors : stuck[b] => stuck'[b]
    BY <2>1 DEF WorkerInv, Types
  <2> QED BY <2>1, <2>2, StillKeeps
<1> QED BY <1>1, <1>2

-----------------------------------------------------------------------------
(* Time.                                                                       *)

\* An age goes up to what its stamp is compared with.
Grown(x, n, cap) == IF x = Unset THEN Unset ELSE IF x + n > cap THEN cap ELSE x + n

LEMMA Growth ==
  ASSUME NEW n \in Nat, NEW cap \in 1..Reauth
  PROVE  /\ \A x \in 0..Unset : Grown(x, n, cap) \in 0..Unset
         /\ \A x, y \in 0..Unset : x <= y => Grown(x, n, cap) <= Grown(y, n, cap)
         /\ \A x \in 0..Unset : ~(x # Unset /\ x < cap) =>
              ~(Grown(x, n, cap) # Unset /\ Grown(x, n, cap) < cap)
BY BoxWorkerAssumption DEF Grown, Unset

LEMMA AgesGrow ==
  ASSUME Types, NEW n \in Nat, Aged(n)
  PROVE  /\ age' \in [Stamps -> 0..Unset]
         /\ age'["recycle"] = Grown(age["recycle"], n, Cooldown)
         /\ age'["killed"] = Grown(age["killed"], n, Cooldown)
         /\ age'["reauth"] = Grown(age["reauth"], n, Reauth)
         /\ age'["tried"] = Grown(age["tried"], n, Reauth)
         /\ age'["hb"] = Grown(age["hb"], n, Freeze)
<1>1. \A s \in Stamps : Counts[s] \in 1..Reauth
  BY BoxWorkerAssumption DEF Counts, Stamps
<1>2. \A s \in Stamps : age'[s] = Grown(age[s], n, Counts[s])
  BY Zenon DEF Aged, Grown
<1>3. \A s \in Stamps : age'[s] \in 0..Unset
  <2> SUFFICES ASSUME NEW s \in Stamps PROVE age'[s] \in 0..Unset
    OBVIOUS
  <2>1. age[s] \in 0..Unset
    BY DEF Types
  <2>2. Grown(age[s], n, Counts[s]) \in 0..Unset
    BY <2>1, <1>1, Growth
  <2> QED BY <2>2, <1>2
<1>4. age' \in [Stamps -> 0..Unset]
  BY <1>3, Zenon DEF Aged
<1>5. {"recycle", "killed", "reauth", "tried", "hb"} \subseteq Stamps
  BY DEF Stamps
<1>6. /\ Counts["recycle"] = Cooldown /\ Counts["killed"] = Cooldown
      /\ Counts["reauth"] = Reauth /\ Counts["tried"] = Reauth /\ Counts["hb"] = Freeze
  BY DEF Counts
<1> QED BY <1>2, <1>4, <1>5, <1>6

LEMMA TimeKeeps ==
  ASSUME WorkerInv, NEW n \in Nat, Aged(n), UNCHANGED <<prog, stuck, lock>>, BeatYoung',
         \A a \in Actors : Opens(prog[a], "kill") \/ Opens(prog[a], "up") => stuck[a]
  PROVE  WorkerInv'
<1>c. Cooldown \in 1..Reauth /\ Reauth \in 1..Reauth
  BY BoxWorkerAssumption
<1>n. {"recycle", "killed", "reauth", "tried", "hb"} \subseteq Stamps
  BY DEF Stamps
<1>r. \A s \in Stamps : age[s] \in 0..Unset
  BY Ages DEF WorkerInv
<1>1. /\ age' \in [Stamps -> 0..Unset]
      /\ age'["recycle"] = Grown(age["recycle"], n, Cooldown)
      /\ age'["killed"] = Grown(age["killed"], n, Cooldown)
      /\ age'["reauth"] = Grown(age["reauth"], n, Reauth)
      /\ age'["tried"] = Grown(age["tried"], n, Reauth)
  BY AgesGrow DEF WorkerInv
<1>2. Types' /\ ProgramsWell' /\ WorkIsLocked'
  BY <1>1 DEF WorkerInv, Types, ProgramsWell, WorkIsLocked, Unset
<1>3. StampsFirst'
  BY <1>1, <1>c, <1>n, <1>r, Growth DEF WorkerInv, StampsFirst
<1>4. KillsAllowed'
  <2> SUFFICES ASSUME NEW b \in Actors, Opens(prog[b], "kill")
               PROVE ~(age'["killed"] # Unset /\ age'["killed"] < Cooldown) /\ stuck'[b]
    BY DEF KillsAllowed, Recent, Unset
  <2>1. ~(age["killed"] # Unset /\ age["killed"] < Cooldown)
    BY DEF WorkerInv, KillsAllowed, Recent
  <2> QED BY <2>1, <1>1, <1>c, <1>n, <1>r, Growth
<1>5. LoginsAllowed'
  <2> SUFFICES ASSUME NEW b \in Actors, Opens(prog[b], "up")
               PROVE ~(age'["tried"] # Unset /\ age'["tried"] < Reauth) /\ stuck'[b]
    BY DEF LoginsAllowed, Recent, Unset
  <2>1. ~(age["tried"] # Unset /\ age["tried"] < Reauth)
    BY DEF WorkerInv, LoginsAllowed, Recent
  <2> QED BY <2>1, <1>1, <1>c, <1>n, <1>r, Growth
<1> QED BY <1>2, <1>3, <1>4, <1>5 DEF WorkerInv

LEMMA ClockKeeps ==
  ASSUME WorkerInv, IntervalPasses \/ Sleep
  PROVE  WorkerInv'
<1>a. "worker" \in Actors
  BY DEF Actors
<1>1. CASE Sleep
  <2>1. PICK n \in {Freeze, Reauth} : Aged(n)
    BY <1>1 DEF Sleep
  <2>2. n \in Nat
    BY BoxWorkerAssumption
  <2>3. /\ UNCHANGED <<prog, stuck, lock>>
        /\ \A a \in Actors : Opens(prog[a], "kill") \/ Opens(prog[a], "up") => stuck[a]
    BY <1>1 DEF Sleep, bodies, At, Opens
  <2>4. BeatYoung'
    BY <1>1, Excused DEF Sleep
  <2> QED BY <2>1, <2>2, <2>3, <2>4, TimeKeeps
<1>2. CASE IntervalPasses
  <2>1. /\ UNCHANGED <<prog, stuck, lock, on>> /\ Aged(1)
        /\ ~(on /\ prog["worker"] = <<>> /\ due)
        /\ excuse' = (excuse \/ ~on \/ stuck["worker"])
        /\ \A a \in Actors : prog[a] # <<>> /\ ~stuck[a] => Head(prog[a]) \in Slow
    BY <1>2 DEF IntervalPasses
  <2>2. \A a \in Actors : Opens(prog[a], "kill") \/ Opens(prog[a], "up") => stuck[a]
    BY <2>1 DEF Opens, Slow
  <2>3. BeatYoung'
    <3> SUFFICES ASSUME ~excuse', age'["hb"] # Unset
                 PROVE \/ age'["hb"] = 0
                       \/ on' /\ age'["hb"] = 1 /\ (prog'["worker"] # <<>> \/ due')
                       \/ EndsTick(prog'["worker"]) /\ ~Opens(prog'["worker"], "checks")
      BY DEF BeatYoung, Unset
    <3>1. ~excuse /\ on /\ ~stuck["worker"]
      BY <2>1
    <3>2. due' = (on /\ prog["worker"] = <<>>)
      BY <2>1 DEF Aged
    <3>3. age'["hb"] = Grown(age["hb"], 1, Freeze) /\ age["hb"] \in 0..Unset
      BY <2>1, AgesGrow, Ages DEF WorkerInv, Stamps
    <3>4. age["hb"] # Unset
      BY <3>3 DEF Grown
    <3>5. CASE age["hb"] = 0
      <4>1. age'["hb"] = 1
        BY <3>3, <3>5, BoxWorkerAssumption DEF Grown, Unset
      <4> QED BY <4>1, <3>1, <3>2, <2>1
    <3>6. CASE prog["worker"] # <<>>
      <4>1. Head(prog["worker"]) \in Slow
        BY <3>6, <3>1, <2>1, <1>a
      <4>2. prog["worker"] # <<"guards">> /\ ~Opens(prog["worker"], "checks")
        BY <4>1 DEF Slow, Opens
      <4> QED BY <4>2, <3>6, <2>1 DEF WorkerInv, ProgramsWell
    <3>7. CASE age["hb"] # 0 /\ prog["worker"] = <<>>
      <4>1. ~EndsTick(prog["worker"])
        BY <3>7 DEF EndsTick
      <4> QED BY <4>1, <3>1, <3>4, <3>7, <2>1 DEF WorkerInv, BeatYoung
    <3> QED BY <3>5, <3>6, <3>7
  <2> QED BY <2>1, <2>2, <2>3, TimeKeeps
<1> QED BY <1>1, <1>2

LEMMA WorkerStarts == WorkerInit => WorkerInv
<1> SUFFICES ASSUME WorkerInit PROVE WorkerInv
  OBVIOUS
<1>1. Unset \in 0..Unset /\ <<>> \in Seq(Stations)
  BY BoxWorkerAssumption DEF Unset
<1>2. \A a \in Actors : prog[a] = <<>>
  BY DEF WorkerInit
<1>3. age \in [Stamps -> 0..Unset] /\ \A s \in Stamps : age[s] = Unset
  BY <1>1, Zenon DEF WorkerInit
<1>4. Types
  BY <1>1, <1>3 DEF WorkerInit, Types
<1>5. ProgramsWell /\ WorkIsLocked /\ KillsAllowed /\ LoginsAllowed
  BY <1>2, NoProgram DEF ProgramsWell, WorkIsLocked, KillsAllowed, LoginsAllowed, Openings, Actors
<1>6. StampsFirst /\ BeatYoung
  BY <1>3, BoxWorkerAssumption DEF StampsFirst, BeatYoung, Stamps, Unset
<1> QED BY <1>4, <1>5, <1>6 DEF WorkerInv

LEMMA WorkerKept == WorkerInv /\ [WorkerNext]_workerVars => WorkerInv'
<1> SUFFICES ASSUME WorkerInv, [WorkerNext]_workerVars PROVE WorkerInv'
  OBVIOUS
<1>1. ASSUME NEW a \in Actors, Body(a) PROVE WorkerInv'
  BY <1>1, BodyKeeps, WorkStations, TickStations DEF Body
<1> QED BY <1>1, CommandSteps, RestartKeeps, EndsKeep, WorldKeeps, ClockKeeps DEF WorkerNext, Command

\* Whatever stops, sleeps, hangs or is killed: no daemon is recycled and no login
\* attempted before its limiter has run out, and no tick takes a young heartbeat
\* for a freeze (maybe_wake_recycle, recycle_offline_tailscaled, ensure_login).
THEOREM BoxRestrained == WorkerSpec => Restrained
<1>1. WorkerInv => ((\E a \in Actors : Kill(a)) => ~Recent("killed", Cooldown))
  BY DEF WorkerInv, KillsAllowed, Kill, At, Opens
<1>2. WorkerInv => ((\E a \in Actors : Up(a)) => ~Recent("tried", Reauth))
  BY DEF WorkerInv, LoginsAllowed, Up, At, Opens
<1>3. WorkerInv => \A a \in Actors : Checks(a) /\ d # "none" /\ Woken => excuse
  <2> SUFFICES ASSUME WorkerInv, NEW a \in Actors, Checks(a), Woken, ~excuse PROVE FALSE
    OBVIOUS
  <2>1. Opens(prog[a], "checks") /\ prog[a] = Tick
    BY DEF Checks, At, Opens, WorkerInv, ProgramsWell
  <2>2. age["hb"] # Unset /\ age["hb"] >= Freeze /\ age["hb"] \in Nat /\ Freeze \in Nat \ {0, 1}
    BY Ages, BoxWorkerAssumption DEF Woken, WorkerInv, Stamps
  <2>3. EndsTick(prog["worker"]) /\ ~Opens(prog["worker"], "checks")
    BY <2>2 DEF WorkerInv, BeatYoung
  <2>4. "worker" \in Actors /\ "worker" # "cli" /\ "end" \in Locking /\ "checks" \in Locking
    BY DEF Actors, Locking, Working
  <2>5. lock = "worker"
    <3>1. Has(prog["worker"], Locking)
      <4>1. prog["worker"] \in Seq(Stations) /\ prog["worker"] # <<>>
        BY <2>3, <2>4 DEF WorkerInv, Types, EndsTick
      <4>2. Len(prog["worker"]) \in 1..Len(prog["worker"])
        BY <4>1
      <4> QED BY <4>2, <2>3, <2>4 DEF Has, EndsTick
    <3>2. ~Opens(prog["worker"], "wait")
      BY <2>4 DEF WorkerInv, ProgramsWell
    <3> QED BY <3>1, <3>2, <2>4 DEF WorkerInv, WorkIsLocked
  <2>6. lock = a
    <3>1. ~Opens(prog[a], "wait") /\ Has(prog[a], Locking)
      BY <2>1, <2>4, OpensHas DEF Opens, WorkerInv, Types
    <3> QED BY <3>1 DEF WorkerInv, WorkIsLocked
  <2> QED BY <2>1, <2>3, <2>5, <2>6
<1> QED BY <1>1, <1>2, <1>3, WorkerStarts, WorkerKept, PTL
      DEF WorkerSpec, Restrained, RecyclesSpaced, LoginsSpaced, JumpMeansAsleep
===============================================================================
