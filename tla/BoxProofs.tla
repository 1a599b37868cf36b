------------------------------ MODULE BoxProofs -------------------------------
(***************************************************************************)
(* The job runner of a box.  The restart counter of a keep-alive job never *)
(* reaches the cutoff, for every MIN_INTERVAL and however the time passes. *)
(* For any jobs, callers, pids, swaps and kills, a box whose commands do   *)
(* not overlap runs one command at a time and leaves a stopped job down.   *)
(***************************************************************************)
EXTENDS BoxJobs, JobRestart, FiniteSetTheorems, TLAPS

LEMMA OlderInAges ==
  ASSUME NEW age \in Ages, NEW d \in Steps
  PROVE  /\ Older(age, d) \in Ages
         /\ \A younger \in Ages : younger <= age => Older(younger, d) <= Older(age, d)
BY RestartAssumption DEF Older, Ages, CRASHLOOP_WINDOW

\* The type invariant: the ages stay within the window and no count is older than
\* its first restart.
LEMMA RestartTypePreserved == RestartTypeOK /\ [RestartNext]_restartVars => RestartTypeOK'
<1> SUFFICES ASSUME RestartTypeOK, [RestartNext]_restartVars PROVE RestartTypeOK'
  OBVIOUS
<1> USE DEF RestartTypeOK
<1>1. CASE TimePasses
  <2>1. PICK d \in Steps : first' = Older(first, d) /\ last' = Older(last, d)
    BY <1>1 DEF TimePasses
  <2>2. first' \in Ages /\ last' \in Ages /\ last' <= first'
    BY <2>1, OlderInAges
  <2> QED BY <1>1, <2>2 DEF TimePasses
<1>2. CASE ServiceDies
  BY <1>2 DEF ServiceDies
<1>3. CASE Supervised /\ GiveUp
  BY <1>3 DEF GiveUp
<1>4. CASE Count
  <2>1. n' \in Nat /\ first' \in Ages /\ last' \in Ages /\ last' <= first'
    BY <1>4 DEF Count, NewCount, Ages, CRASHLOOP_WINDOW
  <2> QED BY <1>4, <2>1 DEF Count
<1>5. CASE SwapClears
  <2>1. 0 \in Ages
    BY DEF Ages, CRASHLOOP_WINDOW
  <2>2. up' \in BOOLEAN
    BY <1>5, Zenon DEF SwapClears
  <2> QED BY <1>5, <2>1, <2>2 DEF SwapClears
<1>6. CASE StopClears
  <2>1. 0 \in Ages
    BY DEF Ages, CRASHLOOP_WINDOW
  <2>2. up' \in BOOLEAN
    BY <1>6, Zenon DEF StopClears
  <2> QED BY <1>6, <2>1, <2>2 DEF StopClears
<1>7. CASE UNCHANGED restartVars
  BY <1>7 DEF restartVars
<1> QED BY <1>1, <1>2, <1>3, <1>4, <1>5, <1>6, <1>7 DEF RestartNext, Restart

\* The fourth restart waits until the third is 600 s old; the first is older still,
\* so the count starts again instead.
LEMMA CutoffPreserved == RestartTypeOK /\ CutoffUnreached /\ [RestartNext]_restartVars => CutoffUnreached'
<1> SUFFICES ASSUME RestartTypeOK, CutoffUnreached, [RestartNext]_restartVars PROVE CutoffUnreached'
  OBVIOUS
<1> USE DEF CutoffUnreached, RestartTypeOK
<1>1. CASE TimePasses
  BY <1>1 DEF TimePasses
<1>2. CASE ServiceDies
  BY <1>2 DEF ServiceDies
<1>3. CASE Supervised /\ Crashloop
  BY <1>3 DEF Crashloop, CRASHLOOP_N
<1>4. CASE Count
  <2>1. n' <= 3
    <3>1. CASE n = 3
      <4>1. last >= 600
        BY <1>4, <3>1 DEF Count, Window
      <4>2. NewCount
        BY <4>1 DEF NewCount, Ages, CRASHLOOP_WINDOW
      <4> QED BY <1>4, <4>2 DEF Count
    <3>2. CASE n < 3
      BY <1>4, <3>2 DEF Count
    <3> QED BY <3>1, <3>2
  <2> QED BY <1>4, <2>1 DEF Count
<1>5. CASE SwapClears
  BY <1>5 DEF SwapClears
<1>6. CASE StopClears
  BY <1>6 DEF StopClears
<1>7. CASE UNCHANGED restartVars
  BY <1>7 DEF restartVars
<1> QED BY <1>1, <1>2, <1>3, <1>4, <1>5, <1>6, <1>7 DEF RestartNext, Restart

\* Ages, counts and their order (jobs_restart_one's counter file).
THEOREM RestartTypeCorrect == RestartSpec => []RestartTypeOK
<1>1. RestartInit => RestartTypeOK
  BY DEF RestartInit, RestartTypeOK, Ages, CRASHLOOP_WINDOW
<1> QED BY <1>1, RestartTypePreserved, PTL DEF RestartSpec

\* jobs_restart_one never records `crashloop': its cutoff of five restarts in ten
\* minutes lies beyond what its own backoff ladder lets happen.
THEOREM CutoffNeverReached == RestartSpec => []CutoffUnreached
<1>1. RestartInit => CutoffUnreached
  BY DEF RestartInit, CutoffUnreached
<1> QED BY <1>1, CutoffPreserved, RestartTypeCorrect, PTL DEF RestartSpec

-----------------------------------------------------------------------------
(* The runner, when commands and guard do not overlap.                         *)

Exists(p) == wrap[p] # Null
NoWrapperOf(j) == \A p \in Pids : Exists(p) => wrap[p].job # j
NoWrapper == \A p \in Pids : ~Exists(p)

OneAtATime == \A c, d \in Commands : Busy(c) /\ Busy(d) => c = d

\* The slot names the job of the one wrapper, and what has run is on file.
OneWrapper == \A p, q \in Pids : Exists(p) /\ Exists(q) => p = q
SlotIsItsJobs == \A p \in Pids : Exists(p) => slot = wrap[p].job
Planted ==
  \A p \in Pids : Exists(p) /\ wrap[p].at \in {"runs", "ended", "recorded"} =>
    marker[wrap[p].job] = p /\ rec[wrap[p].job].pgid = p
Ending == \A p \in Pids : Exists(p) /\ wrap[p].at \in {"ended", "recorded"} => wrap[p].job \notin Services

\* Only the guard goes on beside a wrapper that has planted no marker: one that
\* it launched in this pass and that it does not come back to.
Unsettled ==
  \A p \in Pids : Exists(p) /\ wrap[p].at \in {"spawned", "up"} =>
    /\ \A c \in Callers : ~Busy(c)
    /\ Busy(Guard) =>
         /\ wrap[p].job \in Services /\ ~Terminal(wrap[p].job) /\ wrap[p].job \notin todo
         /\ cmd[Guard].at # "look" => cmd[Guard].job # wrap[p].job

\* Where a command can be, and what it has made sure of there.
CallerPlace(s) ==
  \/ s.does = "start" /\ s.at \in {"held", "break", "take", "name", "record", "launch"}
  \/ s.does = "stop" /\ s.at \in {"term", "wait", "rc", "release"}
GuardPlace(s) ==
  \/ s.does = "supervise" /\ s.at \in {"held", "break", "look"}
  \/ /\ s.does = "restart" /\ s.at \in {"scan", "claim", "held", "break", "take", "name", "launch", "look"}
     /\ s.at # "look" =>
          s.job \in Services /\ Recorded(s.job) /\ ~Terminal(s.job) /\ s.job \notin todo
Stage(c) ==
  Busy(c) =>
    /\ cmd[c].at # "idle"
    /\ IF c = Guard THEN GuardPlace(cmd[c]) ELSE CallerPlace(cmd[c])
    /\ cmd[c].does # "supervise" => cmd[c].job \in Jobs
    /\ cmd[c].at = "take" => slot = "free"
    /\ cmd[c].at = "name" => slot = "blank"
    /\ cmd[c].at \in {"break", "record", "launch"} => NoWrapper
    /\ cmd[c].at \in {"record", "launch"} => slot = cmd[c].job
    /\ cmd[c].at = "launch" => Recorded(cmd[c].job) /\ ~rec[cmd[c].job].stopped
    /\ cmd[c].at \in {"scan", "claim", "wait", "rc", "release"} => NoWrapperOf(cmd[c].job)
    /\ cmd[c].at \in {"term", "wait", "rc", "release"} => Recorded(cmd[c].job)
    /\ cmd[c].at = "term" => \A p \in Pids : Exists(p) /\ wrap[p].job = cmd[c].job => p = cmd[c].pgid
Stages == \A c \in Commands : Stage(c)

StoppedDown == \A j \in Jobs : Recorded(j) /\ rec[j].stopped => Terminal(j) /\ NoWrapperOf(j)

RunnerInv ==
  /\ TypeOK /\ OneAtATime /\ OneWrapper /\ SlotIsItsJobs /\ Planted /\ Ending /\ Unsettled
  /\ Stages /\ StoppedDown /\ \A j \in todo : Recorded(j)

-----------------------------------------------------------------------------

LEMMA CmdAt ==
  ASSUME TypeOK, NEW c \in Commands, NEW x \in Places, cmd' = At(c, x)
  PROVE  /\ cmd' \in [Commands -> Progress] /\ cmd'[c].at = x
         /\ cmd'[c].job = cmd[c].job /\ cmd'[c].does = cmd[c].does /\ cmd'[c].pgid = cmd[c].pgid
         /\ \A d \in Commands \ {c} : cmd'[d] = cmd[d]
<1>1. cmd \in [Commands -> Progress] /\ cmd[c] \in Progress
  BY DEF TypeOK
<1>2. cmd' = [cmd EXCEPT ![c] = [cmd[c] EXCEPT !.at = x]]
  BY Zenon DEF At
<1>3. [cmd[c] EXCEPT !.at = x] \in Progress
  BY <1>1 DEF Progress
<1>4. /\ cmd'[c] = [cmd[c] EXCEPT !.at = x] /\ cmd' \in [Commands -> Progress]
      /\ \A d \in Commands \ {c} : cmd'[d] = cmd[d]
  BY <1>1, <1>2, <1>3, Zenon
<1>5. /\ [cmd[c] EXCEPT !.at = x].at = x /\ [cmd[c] EXCEPT !.at = x].job = cmd[c].job
      /\ [cmd[c] EXCEPT !.at = x].does = cmd[c].does
      /\ [cmd[c] EXCEPT !.at = x].pgid = cmd[c].pgid
  BY <1>1 DEF Progress
<1> QED BY <1>4, <1>5, Zenon

LEMMA CmdSet ==
  ASSUME TypeOK, NEW c \in Commands, NEW s \in Progress, cmd' = [cmd EXCEPT ![c] = s]
  PROVE  /\ cmd' \in [Commands -> Progress] /\ cmd'[c] = s
         /\ \A d \in Commands \ {c} : cmd'[d] = cmd[d]
BY Zenon DEF TypeOK

LEMMA IdleTyped == Idle \in Progress /\ Idle.at = "idle"
BY DEF Idle, Progress, Places

\* A step of the one command under way.
LEMMA OneCommandMoves ==
  ASSUME RunnerInv, NEW c \in Commands, \A d \in Commands \ {c} : ~Busy(d),
         \A d \in Commands \ {c} : cmd'[d] = cmd[d], Stage(c)'
  PROVE  OneAtATime' /\ Stages'
<1>1. \A d \in Commands \ {c} : ~(cmd'[d] # Idle)
  BY DEF Busy
<1>2. Idle' = Idle
  BY DEF Idle
<1>3. OneAtATime'
  BY <1>1, <1>2 DEF OneAtATime, Busy
<1>4. Stages'
  <2> SUFFICES ASSUME NEW d \in Commands PROVE Stage(d)'
    BY DEF Stages
  <2>1. CASE d # c
    BY <2>1, <1>1, <1>2 DEF Stage, Busy
  <2> QED BY <2>1
<1> QED BY <1>3, <1>4

\* What is said of wrappers and files, as long as nobody touches them.
World == OneWrapper /\ SlotIsItsJobs /\ Planted /\ Ending /\ StoppedDown

LEMMA WorldStays ==
  ASSUME World, wrap' = wrap, rec' = rec, marker' = marker, slot' = slot \/ NoWrapper
  PROVE  World'
<1>1. (OneWrapper /\ Planted /\ Ending /\ StoppedDown)'
  BY DEF World, OneWrapper, Planted, Ending, StoppedDown, Exists, Recorded, Terminal, NoWrapperOf
<1>2. SlotIsItsJobs'
  BY DEF World, SlotIsItsJobs, Exists, NoWrapper
<1> QED BY <1>1, <1>2 DEF World

\* A caller is under way only when every wrapper has planted its marker.
LEMMA CallerMeansSettled ==
  ASSUME RunnerInv, NEW c \in Callers, Busy(c)
  PROVE  \A p \in Pids : Exists(p) => wrap[p].at \in {"runs", "ended", "recorded"}
<1>1. \A p \in Pids : Exists(p) => wrap[p] \in Wrappers
  BY DEF RunnerInv, TypeOK, Exists
<1>2. \A p \in Pids : Exists(p) => wrap[p].at \notin {"spawned", "up"}
  BY DEF RunnerInv, Unsettled
<1> QED BY <1>1, <1>2 DEF Wrappers

LEMMA SlotFree ==
  ASSUME RunnerInv, slot \in {"free", "blank"}
  PROVE  NoWrapper
<1>1. \A p \in Pids : Exists(p) => wrap[p].job \in Jobs
  BY DEF RunnerInv, TypeOK, Exists, Wrappers
<1> QED BY <1>1, BoxAssumption DEF RunnerInv, SlotIsItsJobs, NoWrapper

LEMMA Others ==
  ASSUME RunnerInv, NEW c \in Commands, Busy(c)
  PROVE  \A d \in Commands \ {c} : ~Busy(d)
BY DEF RunnerInv, OneAtATime

\* A command ends, or is killed.
LEMMA EndKeeps ==
  ASSUME RunnerInv, NEW c \in Commands, cmd' = End(c), UNCHANGED <<files, processes>>,
         todo' \subseteq todo, swaps' \in 0..MaxSwaps, kills' \in 0..MaxKills
  PROVE  RunnerInv'
<1>t. TypeOK /\ World
  BY DEF RunnerInv, World
<1>u. UNCHANGED <<rec, marker, slot, wrap, child>>
  BY DEF files, processes
<1>1. cmd' \in [Commands -> Progress] /\ cmd'[c] = Idle /\ \A d \in Commands \ {c} : cmd'[d] = cmd[d]
  BY <1>t, IdleTyped, CmdSet DEF End
<1>2. TypeOK'
  BY <1>t, <1>u, <1>1 DEF TypeOK, Recorded
<1>3. World'
  BY <1>t, <1>u, WorldStays
<1>4. \A d \in Commands : Busy(d)' => Busy(d) /\ cmd'[d] = cmd[d]
  BY <1>1 DEF Busy, Idle
<1>5. OneAtATime'
  BY <1>4 DEF RunnerInv, OneAtATime
<1>6. Stages'
  <2> SUFFICES ASSUME NEW d \in Commands, Busy(d)' PROVE Stage(d)'
    BY DEF Stages, Stage
  <2>1. Busy(d) /\ cmd'[d] = cmd[d] /\ Stage(d)
    BY <1>4 DEF RunnerInv, Stages
  <2>2. GuardPlace(cmd[d]) => GuardPlace(cmd[d])'
    BY <2>1, <1>u DEF GuardPlace, Recorded, Terminal
  <2>3. CallerPlace(cmd[d]) => CallerPlace(cmd[d])'
    BY <2>1 DEF CallerPlace
  <2> QED BY <2>1, <2>2, <2>3, <1>u DEF Stage, NoWrapper, NoWrapperOf, Exists, Recorded
<1>7. Unsettled'
  <2> SUFFICES ASSUME NEW p \in Pids, Exists(p), wrap[p].at \in {"spawned", "up"}
               PROVE /\ \A d \in Callers : ~Busy(d)'
                     /\ Busy(Guard)' =>
                          /\ wrap[p].job \in Services /\ ~Terminal(wrap[p].job)' /\ wrap[p].job \notin todo'
                          /\ cmd'[Guard].at # "look" => cmd'[Guard].job # wrap[p].job
    BY <1>u DEF Unsettled, Exists
  <2>1. \A d \in Callers : ~Busy(d)'
    BY <1>4 DEF RunnerInv, Unsettled, Commands
  <2>2. Busy(Guard)' => Busy(Guard) /\ cmd'[Guard] = cmd[Guard]
    BY <1>4 DEF Commands
  <2> QED BY <2>1, <2>2, <1>u DEF RunnerInv, Unsettled, Terminal
<1>8. \A j \in todo' : Recorded(j)'
  BY <1>u DEF RunnerInv, Recorded
<1> QED BY <1>2, <1>3, <1>5, <1>6, <1>7, <1>8 DEF RunnerInv, World

\* Steps at the slot, by a caller's start or by the guard.
LEMMA SlotSteps ==
  ASSUME RunnerInv, NEW c \in Commands,
         SlotCheck(c) \/ SlotBreak(c) \/ SlotTake(c) \/ SlotName(c)
  PROVE  RunnerInv'
<1>t. TypeOK /\ Stage(c) /\ World
  BY DEF RunnerInv, Stages, World
<1>b. Busy(c) /\ cmd[c].at \in {"held", "break", "take", "name"}
  BY IdleTyped DEF SlotCheck, SlotBreak, SlotTake, SlotName, Busy
<1>o. \A d \in Commands \ {c} : ~Busy(d)
  BY <1>b, Others
<1>g. Guard \in Commands /\ Guard \notin Callers /\ (c # Guard => c \in Callers)
  BY BoxAssumption DEF Commands
<1>p. IF c = Guard THEN GuardPlace(cmd[c]) ELSE CallerPlace(cmd[c])
  BY <1>b, <1>t DEF Stage
<1>j. cmd[c].does # "supervise" => cmd[c].job \in Jobs
  BY <1>b, <1>t DEF Stage
<1>u. UNCHANGED <<rec, marker, wrap, child, todo, swaps, kills>>
  BY DEF SlotCheck, SlotBreak, SlotTake, SlotName, files, processes, bounds
<1>s. \/ slot' = slot
      \/ NoWrapper /\ slot' \in {"free", "blank"} \cup Jobs
  <2>1. CASE SlotCheck(c)
    BY <2>1 DEF SlotCheck, files
  <2>2. CASE SlotBreak(c)
    BY <2>2, <1>b, <1>t DEF SlotBreak, Stage
  <2>3. CASE SlotTake(c)
    BY <2>3, SlotFree DEF SlotTake
  <2>4. CASE SlotName(c)
    <3>1. slot = "blank" /\ cmd[c].does # "supervise"
      BY <2>4, <1>b, <1>t, <1>p DEF SlotName, Stage, GuardPlace, CallerPlace
    <3> QED BY <3>1, <2>4, <1>j, SlotFree DEF SlotName
  <2> QED BY <2>1, <2>2, <2>3, <2>4
<1>w. World'
  BY <1>s, <1>u, <1>t, WorldStays
<1>1. ASSUME NEW x \in {"look", "take", "name", "record", "launch", "break"}, cmd' = At(c, x),
             x \in {"look", "launch"} => c = Guard,
             x = "record" => c # Guard,
             x \in {"take", "name", "launch"} /\ c = Guard => cmd[c].does = "restart",
             x = "take" => slot' = "free", x = "name" => slot' = "blank",
             x \in {"break", "record", "launch"} => NoWrapper,
             x \in {"record", "launch"} => slot' = cmd[c].job
      PROVE  RunnerInv'
  <2>1. /\ cmd' \in [Commands -> Progress] /\ cmd'[c].at = x
        /\ cmd'[c].job = cmd[c].job /\ cmd'[c].does = cmd[c].does
        /\ \A d \in Commands \ {c} : cmd'[d] = cmd[d]
    BY <1>1, <1>t, CmdAt DEF Places
  <2>2. TypeOK'
    BY <2>1, <1>u, <1>s, <1>t DEF TypeOK, Recorded
  <2>3. IF c = Guard THEN GuardPlace(cmd[c])' ELSE CallerPlace(cmd[c])'
    BY <2>1, <1>1, <1>p, <1>b, <1>u, <1>g DEF GuardPlace, CallerPlace, Recorded, Terminal
  <2>4. Stage(c)'
    <3>1. x = "launch" => rec'[cmd[c].job] # Null /\ ~rec'[cmd[c].job].stopped
      <4> SUFFICES ASSUME x = "launch" PROVE rec'[cmd[c].job] # Null /\ ~rec'[cmd[c].job].stopped
        OBVIOUS
      <4>1. cmd[c].job \in Jobs /\ Recorded(cmd[c].job) /\ ~Terminal(cmd[c].job)
        BY <1>1, <1>p, <1>b, <1>j DEF GuardPlace
      <4> QED BY <4>1, <1>u DEF RunnerInv, StoppedDown, Recorded
    <3>2. (NoWrapper)' <=> NoWrapper
      BY <1>u DEF NoWrapper, Exists
    <3> QED BY <2>1, <2>3, <3>1, <3>2, <1>1, <1>j DEF Stage, Recorded
  <2>5. Unsettled'
    <3> SUFFICES ASSUME NEW p \in Pids, Exists(p), wrap[p].at \in {"spawned", "up"}
                 PROVE /\ \A d \in Callers : ~Busy(d)'
                       /\ /\ wrap[p].job \in Services /\ ~Terminal(wrap[p].job)' /\ wrap[p].job \notin todo'
                          /\ cmd'[Guard].at # "look" => cmd'[Guard].job # wrap[p].job
      BY <1>u DEF Unsettled, Exists
    <3>1. c = Guard
      BY <1>b, <1>g, CallerMeansSettled
    <3>2. /\ wrap[p].job \in Services /\ ~Terminal(wrap[p].job) /\ wrap[p].job \notin todo
          /\ cmd[Guard].job # wrap[p].job
      BY <3>1, <1>b DEF RunnerInv, Unsettled
    <3>3. \A d \in Callers : ~Busy(d)'
      BY <3>1, <2>1, <1>o, <1>g DEF Busy, Idle, Commands
    <3> QED BY <3>1, <3>2, <3>3, <2>1, <1>u DEF Terminal
  <2>6. OneAtATime' /\ Stages'
    BY <2>1, <2>4, <1>o, OneCommandMoves
  <2>7. \A j \in todo' : Recorded(j)'
    BY <1>u DEF RunnerInv, Recorded
  <2> QED BY <2>2, <2>5, <2>6, <2>7, <1>w DEF RunnerInv, World
<1>2. CASE SlotCheck(c)
  <2>1. cmd[c].at = "held" /\ slot' = slot
    BY <1>2 DEF SlotCheck, files
  <2>2. CASE slot = "free"
    <3>1. cmd' = NotHeld(c)
      BY <1>2, <2>2 DEF SlotCheck
    <3>2. CASE cmd[c].does = "supervise"
      BY <3>1, <3>2, <1>1, <1>p DEF NotHeld, CallerPlace
    <3>3. CASE cmd[c].does # "supervise"
      <4>1. c = Guard => cmd[c].does = "restart"
        BY <3>3, <1>p DEF GuardPlace
      <4> QED BY <3>1, <3>3, <4>1, <2>1, <2>2, <1>1 DEF NotHeld
    <3> QED BY <3>2, <3>3
  <2>3. CASE cmd' = Refused(c)
    <3>1. CASE cmd[c].does = "start"
      <4>1. cmd' = End(c) /\ swaps' \in 0..MaxSwaps /\ kills' \in 0..MaxKills
        BY <2>3, <3>1, <1>u, <1>t DEF Refused, TypeOK
      <4> QED BY <4>1, <2>1, <1>u, EndKeeps DEF files, processes
    <3>2. CASE cmd[c].does # "start"
      <4>1. c = Guard
        BY <3>2, <2>1, <1>p DEF CallerPlace
      <4> QED BY <2>3, <3>2, <4>1, <1>1 DEF Refused
    <3> QED BY <3>1, <3>2
  <2>4. CASE slot \notin {"free", "blank"} /\ ~SlotHeld(slot) /\ cmd' = At(c, "break")
    <3>1. slot \in Jobs
      BY <2>4, <1>t DEF TypeOK
    <3>2. ASSUME NEW p \in Pids, Exists(p) PROVE FALSE
      <4>1. wrap[p].job = slot
        BY <3>2 DEF RunnerInv, SlotIsItsJobs
      <4>2. wrap[p].at = "spawned"
        BY <2>4, <3>2, <4>1 DEF SlotHeld, Scan, IsWrapperOf, Exists
      <4>3. slot \in Services /\ ~Terminal(slot)
        <5>1. c = Guard
          BY <3>2, <4>2, <1>b, <1>g, CallerMeansSettled
        <5> QED BY <5>1, <3>2, <4>1, <4>2, <1>b DEF RunnerInv, Unsettled
      <4>4. Recorded(slot)
        BY <3>2, <4>1, <1>t DEF TypeOK, Exists
      <4> QED BY <2>4, <4>3, <4>4 DEF SlotHeld
    <3>3. NoWrapper
      BY <3>2 DEF NoWrapper
    <3> QED BY <2>4, <3>3, <1>1
  <2> QED BY <1>2, <2>2, <2>3, <2>4 DEF SlotCheck
<1>3. CASE SlotBreak(c)
  <2>1. cmd[c].at = "break" /\ slot' = "free" /\ cmd' = NotHeld(c)
    BY <1>3 DEF SlotBreak
  <2>2. CASE cmd[c].does = "supervise"
    BY <2>1, <2>2, <1>1, <1>p DEF NotHeld, CallerPlace
  <2>3. CASE cmd[c].does # "supervise"
    <3>1. c = Guard => cmd[c].does = "restart"
      BY <2>3, <1>p DEF GuardPlace
    <3> QED BY <2>1, <2>3, <3>1, <1>1 DEF NotHeld
  <2> QED BY <2>2, <2>3
<1>4. CASE SlotTake(c)
  <2>1. cmd[c].at = "take" /\ slot = "free"
    BY <1>4, <1>b, <1>t DEF SlotTake, Stage
  <2>2. slot' = "blank" /\ cmd' = At(c, "name")
    BY <1>4, <2>1 DEF SlotTake
  <2>3. c = Guard => cmd[c].does = "restart"
    BY <2>1, <1>p DEF GuardPlace
  <2> QED BY <2>2, <2>3, <1>1
<1>5. CASE SlotName(c)
  <2>1. cmd[c].at = "name" /\ slot = "blank" /\ slot' = cmd[c].job
    BY <1>5, <1>b, <1>t DEF SlotName, Stage
  <2>2. NoWrapper
    BY <2>1, SlotFree
  <2>3. CASE c = Guard
    <3>1. cmd[c].does = "restart"
      BY <2>1, <2>3, <1>p DEF GuardPlace
    <3>2. cmd' = At(c, "launch")
      BY <3>1, <1>5 DEF SlotName
    <3> QED BY <2>1, <2>2, <2>3, <3>1, <3>2, <1>1
  <2>4. CASE c # Guard
    <3>1. cmd[c].does = "start"
      BY <2>1, <2>4, <1>p DEF CallerPlace
    <3>2. cmd' = At(c, "record")
      BY <3>1, <1>5 DEF SlotName
    <3> QED BY <2>1, <2>2, <2>4, <3>2, <1>1
  <2> QED BY <2>3, <2>4
<1> QED BY <1>2, <1>3, <1>4, <1>5

-----------------------------------------------------------------------------
(* A caller's commands.                                                        *)

LEMMA CallerMoves ==
  ASSUME RunnerInv, NEW c \in Callers, \A d \in Commands \ {c} : ~Busy(d),
         \A d \in Commands \ {c} : cmd'[d] = cmd[d], Stage(c)', TypeOK', World',
         \A p \in Pids : Exists(p)' => wrap'[p].at \notin {"spawned", "up"},
         todo' = todo, \A j \in Jobs : Recorded(j) => Recorded(j)'
  PROVE  RunnerInv'
<1>1. OneAtATime' /\ Stages'
  BY OneCommandMoves DEF Commands
<1>2. Unsettled'
  BY DEF Unsettled
<1>3. \A j \in todo' : Recorded(j)'
  BY DEF RunnerInv, TypeOK
<1> QED BY <1>1, <1>2, <1>3 DEF RunnerInv, World

LEMMA Signalled ==
  ASSUME TypeOK, NEW g \in Pids \cup {Null}, Signal(g)
  PROVE  /\ wrap' \in [Pids -> {Null} \cup Wrappers] /\ child' \in [Pids -> Jobs \cup {Null}]
         /\ \A p \in Pids : wrap'[p] = IF p = g THEN Null ELSE wrap[p]
         /\ \A p \in Pids : child'[p] = IF p = g THEN Null ELSE child[p]
<1>1. CASE g = Null
  <2>1. wrap' = wrap /\ child' = child /\ g \notin Pids
    BY <1>1, BoxAssumption DEF Signal
  <2> QED BY <2>1 DEF TypeOK
<1>2. CASE g # Null
  <2>1. wrap' = [wrap EXCEPT ![g] = Null] /\ child' = [child EXCEPT ![g] = Null] /\ g \in Pids
    BY <1>2 DEF Signal
  <2> QED BY <2>1 DEF TypeOK
<1> QED BY <1>1, <1>2

\* Wrappers go and leave the files alone.
LEMMA FewerWrappers ==
  ASSUME World, \A p \in Pids : wrap'[p] \in {Null, wrap[p]}, UNCHANGED files
  PROVE  World' /\ \A j : NoWrapperOf(j) => NoWrapperOf(j)'
<1>1. \A p \in Pids : Exists(p)' => Exists(p) /\ wrap'[p] = wrap[p]
  BY DEF Exists
<1>2. rec' = rec /\ marker' = marker /\ slot' = slot
  BY DEF files
<1>3. OneWrapper' /\ SlotIsItsJobs' /\ Planted' /\ Ending'
  BY <1>1, <1>2 DEF World, OneWrapper, SlotIsItsJobs, Planted, Ending
<1>4. \A j : NoWrapperOf(j) => NoWrapperOf(j)'
  BY <1>1 DEF NoWrapperOf
<1>5. StoppedDown'
  BY <1>2, <1>4 DEF World, StoppedDown, Recorded, Terminal
<1> QED BY <1>3, <1>4, <1>5 DEF World

LEMMA BusyAt ==
  ASSUME TypeOK, NEW c \in Commands, cmd[c].at # "idle"
  PROVE  Busy(c)
BY IdleTyped DEF Busy

\* A start begins; a stop begins at a job whose wrapper it knows by its record.
LEMMA CallsKeep ==
  ASSUME RunnerInv, Overlap = "none", NEW c \in Callers, NEW j \in Jobs, Start(c, j) \/ Stop(c, j)
  PROVE  RunnerInv'
<1>t. TypeOK /\ World
  BY DEF RunnerInv, World
<1>c. c \in Commands /\ c # Guard
  BY BoxAssumption DEF Commands
<1>1. Settled /\ \A d \in Commands : ~Busy(d)
  BY DEF Start, Stop, MayBegin
<1>2. \A p \in Pids : Exists(p) => wrap[p].at \in {"runs", "ended", "recorded"}
  <2>1. \A p \in Pids : Exists(p) => wrap[p] \in Wrappers
    BY <1>t DEF TypeOK, Exists
  <2>2. \A p \in Pids : Exists(p) => wrap[p].at \notin {"spawned", "up"}
    BY <1>1 DEF Settled, Exists
  <2> QED BY <2>1, <2>2 DEF Wrappers
<1>u. UNCHANGED <<rec, marker, wrap, child, todo, swaps, kills>>
  BY DEF Start, Stop, files, processes, bounds
<1>s. slot' = slot \/ (slot = "free" /\ slot' = "blank" /\ NoWrapper)
  BY SlotFree DEF Start, Stop, files
<1>w. World'
  BY <1>s, <1>t, <1>u, WorldStays
<1>3. ASSUME NEW s \in Progress, cmd' = [cmd EXCEPT ![c] = s], Stage(c)'
      PROVE  RunnerInv'
  <2>1. cmd' \in [Commands -> Progress] /\ \A d \in Commands \ {c} : cmd'[d] = cmd[d]
    BY <1>3, <1>c, <1>t, CmdSet
  <2>2. TypeOK'
    BY <2>1, <1>s, <1>t, <1>u DEF TypeOK, Recorded
  <2>3. \A p \in Pids : Exists(p)' => wrap'[p].at \notin {"spawned", "up"}
    BY <1>2, <1>u DEF Exists
  <2> QED BY <2>1, <2>2, <2>3, <1>1, <1>3, <1>u, <1>w, CallerMoves DEF Recorded
<1>4. CASE Start(c, j)
  <2> DEFINE s == [Idle EXCEPT !.job = j, !.does = "start",
                               !.at = IF slot = "free" THEN "name" ELSE "held"]
  <2>1. cmd' = [cmd EXCEPT ![c] = s]
    BY <1>4 DEF Start
  <2>2. s \in Progress /\ s.job = j /\ s.does = "start" /\ s.at = IF slot = "free" THEN "name" ELSE "held"
    BY DEF Idle, Progress, Places
  <2> HIDE DEF s
  <2>3. cmd'[c] = s
    BY <2>1, <2>2, <1>c, <1>t, CmdSet
  <2>4. s.at = "name" => slot' = "blank"
    BY <2>2, <1>4 DEF Start
  <2>5. Stage(c)'
    BY <2>2, <2>3, <2>4, <1>c DEF Stage, CallerPlace
  <2> QED BY <2>1, <2>2, <2>5, <1>3
<1>5. CASE Stop(c, j)
  <2> DEFINE s == [at |-> "term", job |-> j, does |-> "stop", pgid |-> rec[j].pgid]
  <2>1. cmd' = [cmd EXCEPT ![c] = s] /\ Recorded(j)
    BY <1>5 DEF Stop
  <2>2. s \in Progress /\ s.at = "term" /\ s.job = j /\ s.does = "stop" /\ s.pgid = rec[j].pgid
    <3>1. rec[j] \in Records
      BY <2>1, <1>t DEF TypeOK, Recorded
    <3> QED BY <3>1 DEF Records, Progress, Places
  <2> HIDE DEF s
  <2>3. cmd'[c] = s
    BY <2>1, <2>2, <1>c, <1>t, CmdSet
  <2>4. \A p \in Pids : Exists(p)' /\ wrap'[p].job = j => p = rec[j].pgid
    BY <1>2, <1>t, <1>u DEF World, Planted, Exists
  <2>5. Stage(c)'
    BY <2>1, <2>2, <2>3, <2>4, <1>c, <1>u DEF Stage, CallerPlace, Recorded
  <2> QED BY <2>1, <2>2, <2>5, <1>3
<1> QED BY <1>4, <1>5

LEMMA StopSteps ==
  ASSUME RunnerInv, NEW c \in Callers, StopTerm(c) \/ StopWait(c) \/ StopRecord(c) \/ StopRelease(c)
  PROVE  RunnerInv'
<1>t. TypeOK /\ World /\ Stage(c)
  BY DEF RunnerInv, World, Stages, Commands
<1>c. c \in Commands /\ c # Guard
  BY BoxAssumption DEF Commands
<1>b. Busy(c) /\ cmd[c].at \in {"term", "wait", "rc", "release"}
  BY <1>c, <1>t, BusyAt DEF StopTerm, StopWait, StopRecord, StopRelease
<1>o. \A d \in Commands \ {c} : ~Busy(d)
  BY <1>b, <1>c, Others
<1>p. /\ cmd[c].does = "stop" /\ cmd[c].job \in Jobs /\ Recorded(cmd[c].job)
      /\ cmd[c].pgid \in Pids \cup {Null} /\ rec[cmd[c].job] \in Records
  <2>1. cmd[c] \in Progress
    BY <1>c, <1>t DEF TypeOK
  <2>2. cmd[c].does = "stop" /\ cmd[c].job \in Jobs /\ Recorded(cmd[c].job)
    BY <1>b, <1>c, <1>t DEF Stage, CallerPlace
  <2> QED BY <2>1, <2>2, <1>t DEF Progress, TypeOK, Recorded
<1>e. \A p \in Pids : Exists(p) => wrap[p].at \in {"runs", "ended", "recorded"}
  BY <1>b, CallerMeansSettled
<1>1. ASSUME NEW x \in {"wait", "rc"}, cmd' = At(c, x), NoWrapperOf(cmd[c].job)',
             UNCHANGED files, UNCHANGED todo, UNCHANGED bounds,
             wrap' \in [Pids -> {Null} \cup Wrappers], child' \in [Pids -> Jobs \cup {Null}],
             \A p \in Pids : /\ wrap'[p] \in {Null, wrap[p]} /\ child'[p] \in {Null, child[p]}
                             /\ wrap'[p] = Null => child'[p] = Null
      PROVE  RunnerInv'
  <2>1. /\ cmd' \in [Commands -> Progress] /\ cmd'[c].at = x
        /\ cmd'[c].job = cmd[c].job /\ cmd'[c].does = cmd[c].does
        /\ \A d \in Commands \ {c} : cmd'[d] = cmd[d]
    BY <1>1, <1>c, <1>t, CmdAt DEF Places
  <2>2. rec' = rec /\ marker' = marker /\ slot' = slot /\ todo' = todo /\ swaps' = swaps /\ kills' = kills
    BY <1>1 DEF files, bounds
  <2>3. TypeOK'
    <3>1. \A p \in Pids : wrap'[p] # Null => wrap'[p] = wrap[p]
      BY <1>1
    <3>2. \A p \in Pids : wrap'[p] # Null => rec'[wrap'[p].job] # Null
      BY <3>1, <1>t, <2>2 DEF TypeOK, Recorded
    <3>3. \A p \in Pids : child'[p] # Null =>
            wrap'[p] # Null /\ wrap'[p].job = child'[p] /\ wrap'[p].at = "runs"
      BY <3>1, <1>1, <1>t DEF TypeOK
    <3>4. TypeOK => /\ rec' \in [Jobs -> {Null} \cup Records] /\ marker' \in [Jobs -> Pids \cup {Null}]
                    /\ slot' \in {"free", "blank"} \cup Jobs /\ todo' \subseteq Jobs
                    /\ swaps' \in 0..MaxSwaps /\ kills' \in 0..MaxKills
      BY <2>2 DEF TypeOK
    <3> QED BY <3>2, <3>3, <3>4, <2>1, <1>1, <1>t DEF TypeOK, Recorded
  <2>4. World'
    BY <1>1, <1>t, FewerWrappers
  <2>5. Stage(c)'
    BY <2>1, <2>2, <1>1, <1>c, <1>p DEF Stage, CallerPlace, Recorded
  <2>6. \A p \in Pids : Exists(p)' => wrap'[p].at \notin {"spawned", "up"}
    BY <1>1, <1>e DEF Exists
  <2> QED BY <2>1, <2>2, <2>3, <2>4, <2>5, <2>6, <1>o, CallerMoves DEF Recorded
<1>2. CASE StopTerm(c)
  <2>1. /\ cmd[c].at = "term" /\ Signal(cmd[c].pgid) /\ cmd' = At(c, "wait")
        /\ UNCHANGED files /\ UNCHANGED todo /\ UNCHANGED bounds
    BY <1>2 DEF StopTerm
  <2>2. /\ wrap' \in [Pids -> {Null} \cup Wrappers] /\ child' \in [Pids -> Jobs \cup {Null}]
        /\ \A p \in Pids : wrap'[p] = IF p = cmd[c].pgid THEN Null ELSE wrap[p]
        /\ \A p \in Pids : child'[p] = IF p = cmd[c].pgid THEN Null ELSE child[p]
    BY <2>1, <1>p, <1>t, Signalled
  <2>3. cmd'[c].job = cmd[c].job
    BY <2>1, <1>c, <1>t, CmdAt DEF Places
  <2>4. \A p \in Pids : Exists(p) /\ wrap[p].job = cmd[c].job => p = cmd[c].pgid
    BY <2>1, <1>b, <1>t DEF Stage
  <2>5. NoWrapperOf(cmd[c].job)'
    BY <2>2, <2>3, <2>4 DEF NoWrapperOf, Exists
  <2>6. \A p \in Pids : /\ wrap'[p] \in {Null, wrap[p]} /\ child'[p] \in {Null, child[p]}
                        /\ wrap'[p] = Null => child'[p] = Null
    BY <2>2, <1>t DEF TypeOK
  <2> QED BY <2>1, <2>2, <2>5, <2>6, <1>1
<1>3. CASE StopWait(c)
  <2>1. /\ cmd[c].at = "wait" /\ cmd' = At(c, "rc")
        /\ UNCHANGED files /\ UNCHANGED todo /\ UNCHANGED bounds
        /\ Signal(cmd[c].pgid) \/ UNCHANGED processes
    BY <1>3 DEF StopWait
  <2>2. /\ wrap' \in [Pids -> {Null} \cup Wrappers] /\ child' \in [Pids -> Jobs \cup {Null}]
        /\ \A p \in Pids : /\ wrap'[p] \in {Null, wrap[p]} /\ child'[p] \in {Null, child[p]}
                           /\ wrap'[p] = Null => child'[p] = Null
    <3>1. CASE Signal(cmd[c].pgid)
      <4>1. /\ wrap' \in [Pids -> {Null} \cup Wrappers] /\ child' \in [Pids -> Jobs \cup {Null}]
            /\ \A p \in Pids : wrap'[p] = IF p = cmd[c].pgid THEN Null ELSE wrap[p]
            /\ \A p \in Pids : child'[p] = IF p = cmd[c].pgid THEN Null ELSE child[p]
        BY <3>1, <1>p, <1>t, Signalled
      <4> QED BY <4>1, <1>t DEF TypeOK
    <3>2. CASE UNCHANGED processes
      BY <3>2, <1>t DEF processes, TypeOK
    <3> QED BY <2>1, <3>1, <3>2
  <2>3. cmd'[c].job = cmd[c].job
    BY <2>1, <1>c, <1>t, CmdAt DEF Places
  <2>4. NoWrapperOf(cmd[c].job)
    BY <2>1, <1>b, <1>t DEF Stage
  <2>5. NoWrapperOf(cmd[c].job)'
    BY <2>2, <2>3, <2>4 DEF NoWrapperOf, Exists
  <2> QED BY <2>1, <2>2, <2>5, <1>1
<1>4. CASE StopRecord(c)
  <2> DEFINE j == cmd[c].job
  <2>1. /\ cmd[c].at = "rc" /\ cmd' = At(c, "release")
        /\ rec' = [rec EXCEPT ![j].stopped = TRUE, ![j].rc = "143"]
        /\ UNCHANGED <<marker, slot, wrap, child, todo, swaps, kills>>
    BY <1>4 DEF StopRecord, processes, bounds
  <2>2. /\ cmd' \in [Commands -> Progress] /\ cmd'[c].at = "release"
        /\ cmd'[c].job = j /\ cmd'[c].does = cmd[c].does
        /\ \A d \in Commands \ {c} : cmd'[d] = cmd[d]
    BY <2>1, <1>c, <1>t, CmdAt DEF Places
  <2>3. NoWrapperOf(j)
    BY <2>1, <1>b, <1>t DEF Stage
  <2> HIDE DEF j
  <2>j. j \in Jobs /\ rec[j] \in Records
    BY <1>p DEF j
  <2>4. /\ rec'[j] \in Records /\ rec'[j].stopped = TRUE /\ rec'[j].rc = "143"
        /\ \A k \in Jobs \ {j} : rec'[k] = rec[k]
        /\ rec' \in [Jobs -> {Null} \cup Records]
    BY <2>1, <2>j, <1>t DEF TypeOK, Records
  <2>5. \A k \in Jobs : Recorded(k) => Recorded(k)'
    BY <2>4, BoxAssumption DEF Recorded
  <2>6. TypeOK'
    BY <2>1, <2>2, <2>4, <2>5, <1>t DEF TypeOK, Wrappers, Recorded
  <2>7. World'
    <3>1. OneWrapper' /\ SlotIsItsJobs' /\ Ending'
      BY <2>1, <1>t DEF World, OneWrapper, SlotIsItsJobs, Ending, Exists
    <3>2. Planted'
      BY <2>1, <2>3, <2>4, <1>t DEF World, Planted, Exists, NoWrapperOf, TypeOK, Wrappers
    <3>3. StoppedDown'
      BY <2>1, <2>3, <2>4, <1>t DEF World, StoppedDown, Exists, NoWrapperOf, Recorded, Terminal
    <3> QED BY <3>1, <3>2, <3>3 DEF World
  <2>8. Stage(c)'
    BY <2>1, <2>2, <2>3, <2>5, <2>j, <1>c, <1>p DEF Stage, CallerPlace, NoWrapperOf, Exists, j
  <2>9. \A p \in Pids : Exists(p)' => wrap'[p].at \notin {"spawned", "up"}
    BY <2>1, <1>e DEF Exists
  <2> QED BY <2>1, <2>2, <2>5, <2>6, <2>7, <2>8, <2>9, <1>o, CallerMoves
<1>5. CASE StopRelease(c)
  <2> DEFINE j == cmd[c].job
  <2>1. /\ cmd[c].at = "release" /\ cmd' = End(c)
        /\ marker' = [marker EXCEPT ![j] = Null]
        /\ slot' = IF slot = j THEN "free" ELSE slot
        /\ UNCHANGED <<rec, wrap, child, todo, swaps, kills>>
    BY <1>5 DEF StopRelease, processes, bounds
  <2>2. /\ cmd' \in [Commands -> Progress] /\ cmd'[c] = Idle
        /\ \A d \in Commands \ {c} : cmd'[d] = cmd[d]
    BY <2>1, <1>c, <1>t, IdleTyped, CmdSet DEF End
  <2>3. NoWrapperOf(j)
    BY <2>1, <1>b, <1>t DEF Stage
  <2> HIDE DEF j
  <2>j. j \in Jobs
    BY <1>p DEF j
  <2>4. /\ marker' \in [Jobs -> Pids \cup {Null}] /\ \A k \in Jobs \ {j} : marker'[k] = marker[k]
    BY <2>1, <2>j, <1>t DEF TypeOK
  <2>5. TypeOK'
    BY <2>1, <2>2, <2>4, <1>t DEF TypeOK, Recorded
  <2>6. World'
    <3>1. OneWrapper' /\ Ending' /\ StoppedDown'
      BY <2>1, <1>t DEF World, OneWrapper, Ending, StoppedDown, Exists, Recorded, Terminal, NoWrapperOf
    <3>2. Planted'
      BY <2>1, <2>3, <2>4, <1>t DEF World, Planted, Exists, NoWrapperOf, TypeOK, Wrappers
    <3>3. SlotIsItsJobs'
      BY <2>1, <2>3, <1>t DEF World, SlotIsItsJobs, Exists, NoWrapperOf
    <3> QED BY <3>1, <3>2, <3>3 DEF World
  <2>7. Stage(c)'
    BY <2>2 DEF Stage, Busy, Idle
  <2>8. \A p \in Pids : Exists(p)' => wrap'[p].at \notin {"spawned", "up"}
    BY <2>1, <1>e DEF Exists
  <2> QED BY <2>1, <2>2, <2>5, <2>6, <2>7, <2>8, <1>o, CallerMoves DEF Recorded
<1> QED BY <1>2, <1>3, <1>4, <1>5

\* A start draws a record for the fresh id it claimed the slot with.
LEMMA StartRecordKeeps ==
  ASSUME RunnerInv, NEW c \in Callers, StartRecord(c)
  PROVE  RunnerInv'
<1> DEFINE j == cmd[c].job
<1>t. TypeOK /\ World /\ Stage(c)
  BY DEF RunnerInv, World, Stages, Commands
<1>c. c \in Commands /\ c # Guard
  BY BoxAssumption DEF Commands
<1>b. Busy(c) /\ cmd[c].at = "record"
  BY <1>c, <1>t, BusyAt DEF StartRecord
<1>o. \A d \in Commands \ {c} : ~Busy(d)
  BY <1>b, <1>c, Others
<1>p. cmd[c].does = "start" /\ j \in Jobs /\ NoWrapper /\ slot = j
  BY <1>b, <1>c, <1>t DEF Stage, CallerPlace
<1>1. /\ rec' = [rec EXCEPT ![j] = NewRecord] /\ cmd' = At(c, "launch")
      /\ UNCHANGED <<marker, slot, wrap, child, todo, swaps, kills>>
  BY DEF StartRecord, processes, bounds
<1>2. /\ cmd' \in [Commands -> Progress] /\ cmd'[c].at = "launch"
      /\ cmd'[c].job = j /\ cmd'[c].does = cmd[c].does
      /\ \A d \in Commands \ {c} : cmd'[d] = cmd[d]
  BY <1>1, <1>c, <1>t, CmdAt DEF Places
<1> HIDE DEF j
<1>3. NewRecord \in Records /\ NewRecord # Null /\ ~NewRecord.stopped
  <2>1. NewRecord \in Records /\ ~NewRecord.stopped
    BY DEF NewRecord, Records
  <2> QED BY <2>1, BoxAssumption
<1>4. /\ rec' \in [Jobs -> {Null} \cup Records] /\ rec'[j] = NewRecord
      /\ \A k \in Jobs \ {j} : rec'[k] = rec[k]
  BY <1>1, <1>3, <1>p, <1>t DEF TypeOK
<1>5. \A k \in Jobs : Recorded(k) => Recorded(k)'
  BY <1>3, <1>4 DEF Recorded
<1>n. \A p \in Pids : wrap'[p] = Null
  BY <1>1, <1>p DEF NoWrapper, Exists
<1>6. TypeOK'
  BY <1>1, <1>2, <1>4, <1>n, <1>t DEF TypeOK
<1>7. World'
  <2>1. OneWrapper' /\ SlotIsItsJobs' /\ Ending' /\ Planted'
    BY <1>n DEF OneWrapper, SlotIsItsJobs, Ending, Planted, Exists
  <2>2. \A k : NoWrapperOf(k)'
    BY <1>n DEF NoWrapperOf, Exists
  <2>3. StoppedDown'
    BY <2>2, <1>3, <1>4, <1>t DEF World, StoppedDown, Recorded, Terminal
  <2> QED BY <2>1, <2>3 DEF World
<1>8. Stage(c)'
  <2>1. NoWrapper'
    BY <1>n DEF NoWrapper, Exists
  <2>2. CallerPlace(cmd[c])'
    BY <1>2, <1>p DEF CallerPlace
  <2> QED BY <2>1, <2>2, <1>1, <1>2, <1>3, <1>4, <1>p, <1>c DEF Stage, Recorded
<1>9. \A p \in Pids : Exists(p)' => wrap'[p].at \notin {"spawned", "up"}
  BY <1>n DEF Exists
<1> QED BY <1>1, <1>2, <1>5, <1>6, <1>7, <1>8, <1>9, <1>o, CallerMoves

\* A launch, by a start or by the guard: the box has no wrapper and the slot is
\* the job's.
LEMMA LaunchKeeps ==
  ASSUME RunnerInv, NEW c \in Commands, Launch(c)
  PROVE  RunnerInv'
<1> DEFINE j == cmd[c].job
           w == [job |-> j, at |-> "spawned", rc |-> "none"]
<1>t. TypeOK /\ World /\ Stage(c)
  BY DEF RunnerInv, World, Stages
<1>g. Guard \in Commands /\ Guard \notin Callers /\ (c # Guard => c \in Callers)
  BY BoxAssumption DEF Commands
<1>b. Busy(c) /\ cmd[c].at = "launch"
  BY <1>t, BusyAt DEF Launch
<1>o. \A d \in Commands \ {c} : ~Busy(d)
  BY <1>b, Others
<1>p. IF c = Guard THEN GuardPlace(cmd[c]) ELSE CallerPlace(cmd[c])
  BY <1>b, <1>t DEF Stage
<1>j. /\ cmd[c].does # "supervise" /\ j \in Jobs /\ NoWrapper /\ slot = j
      /\ Recorded(j) /\ ~rec[j].stopped
  <2>1. cmd[c].does # "supervise"
    BY <1>b, <1>p DEF GuardPlace, CallerPlace
  <2> QED BY <2>1, <1>b, <1>t DEF Stage
<1>1. PICK p \in NextPids : wrap' = [wrap EXCEPT ![p] = w]
  BY DEF Launch
<1>2. p \in Pids
  BY DEF NextPids, FreePids
<1>u. UNCHANGED <<rec, marker, slot, child, todo, swaps, kills>>
  BY DEF Launch, files, bounds
<1>w. w \in Wrappers /\ w # Null /\ w.job = j /\ w.at = "spawned"
  <2>1. w \in Wrappers /\ w.job = j /\ w.at = "spawned"
    BY <1>j DEF Wrappers
  <2> QED BY <2>1, BoxAssumption
<1>k. cmd' = IF c = Guard THEN At(c, "look") ELSE End(c)
  BY DEF Launch
<1> HIDE DEF j, w
<1>3. /\ wrap' \in [Pids -> {Null} \cup Wrappers] /\ wrap'[p] = w
      /\ \A q \in Pids \ {p} : wrap'[q] = Null
  BY <1>1, <1>2, <1>w, <1>j, <1>t DEF TypeOK, NoWrapper, Exists
<1>4. \A q \in Pids : Exists(q)' <=> q = p
  BY <1>2, <1>3, <1>w DEF Exists
<1>5. \A q \in Pids : child[q] = Null
  BY <1>j, <1>t DEF TypeOK, NoWrapper, Exists
<1>6. World'
  <2>1. OneWrapper' /\ SlotIsItsJobs' /\ Ending' /\ Planted'
    BY <1>2, <1>3, <1>4, <1>w, <1>u, <1>j DEF OneWrapper, SlotIsItsJobs, Ending, Planted
  <2>2. \A k : k # j => NoWrapperOf(k)'
    BY <1>3, <1>4, <1>w DEF NoWrapperOf
  <2>3. StoppedDown'
    BY <2>2, <1>u, <1>j, <1>t DEF World, StoppedDown, Recorded, Terminal
  <2> QED BY <2>1, <2>3 DEF World
<1>7. \A q \in Pids : wrap'[q] # Null => rec'[wrap'[q].job] # Null
  BY <1>3, <1>w, <1>u, <1>j DEF Recorded
<1>8. ASSUME cmd' \in [Commands -> Progress] PROVE TypeOK'
  BY <1>3, <1>5, <1>7, <1>8, <1>u, <1>t DEF TypeOK, Recorded
<1>9. \A k \in todo' : Recorded(k)'
  BY <1>u DEF RunnerInv, Recorded
<1>10. CASE c # Guard
  <2>1. /\ cmd' \in [Commands -> Progress] /\ cmd'[c] = Idle
        /\ \A d \in Commands \ {c} : cmd'[d] = cmd[d]
    BY <1>10, <1>k, <1>t, IdleTyped, CmdSet DEF End
  <2>2. Stage(c)'
    BY <2>1 DEF Stage, Busy, Idle
  <2>3. OneAtATime' /\ Stages'
    BY <2>1, <2>2, <1>o, OneCommandMoves
  <2>4. \A d \in Commands : ~Busy(d)'
    BY <2>1, <1>o DEF Busy, Idle
  <2>5. Unsettled'
    BY <2>4, <1>g DEF Unsettled, Commands
  <2> QED BY <2>1, <2>3, <2>5, <1>6, <1>8, <1>9 DEF RunnerInv, World
<1>11. CASE c = Guard
  <2>1. /\ cmd' \in [Commands -> Progress] /\ cmd'[c].at = "look"
        /\ cmd'[c].job = j /\ cmd'[c].does = cmd[c].does
        /\ \A d \in Commands \ {c} : cmd'[d] = cmd[d]
    BY <1>11, <1>k, <1>t, CmdAt DEF Places, j
  <2>2. cmd[c].does = "restart" /\ j \in Services /\ ~Terminal(j) /\ j \notin todo
    BY <1>11, <1>p, <1>b DEF GuardPlace, j
  <2>3. Stage(c)'
    <3>1. GuardPlace(cmd[c])'
      BY <2>1, <2>2 DEF GuardPlace
    <3> QED BY <3>1, <2>1, <1>11, <1>j DEF Stage
  <2>4. OneAtATime' /\ Stages'
    BY <2>1, <2>3, <1>o, OneCommandMoves
  <2>5. Unsettled'
    <3>1. \A d \in Callers : ~Busy(d)'
      BY <2>1, <1>11, <1>o, <1>g DEF Busy, Idle, Commands
    <3>2. rec'[j].rc = "none" /\ j \notin todo'
      BY <2>2, <1>u DEF Terminal
    <3>3. \A q \in Pids : Exists(q)' => wrap'[q].job = j
      BY <1>3, <1>4, <1>w
    <3> QED BY <3>1, <3>2, <3>3, <2>1, <2>2, <1>11, <1>u DEF Unsettled, Terminal
  <2> QED BY <2>1, <2>4, <2>5, <1>6, <1>8, <1>9 DEF RunnerInv, World
<1> QED BY <1>10, <1>11

-----------------------------------------------------------------------------
(* The guard's pass.                                                           *)

LEMMA GuardMoves ==
  ASSUME RunnerInv, \A d \in Callers : ~Busy(d),
         cmd' \in [Commands -> Progress], \A d \in Callers : cmd'[d] = cmd[d],
         UNCHANGED <<files, processes, bounds>>, todo' \subseteq Jobs, \A k \in todo' : Recorded(k),
         Stage(Guard)',
         \A p \in Pids : Exists(p) /\ wrap[p].at \in {"spawned", "up"} =>
           /\ wrap[p].job \in Services /\ ~Terminal(wrap[p].job) /\ wrap[p].job \notin todo'
           /\ cmd'[Guard].at # "look" => cmd'[Guard].job # wrap[p].job
  PROVE  RunnerInv'
<1>g. Guard \in Commands /\ Guard \notin Callers /\ Commands \ {Guard} = Callers
  BY BoxAssumption DEF Commands
<1>u. UNCHANGED <<rec, marker, slot, wrap, child, swaps, kills>>
  BY DEF files, processes, bounds
<1>1. TypeOK'
  BY <1>u DEF RunnerInv, TypeOK, Recorded
<1>2. World'
  BY <1>u, WorldStays DEF RunnerInv, World
<1>3. OneAtATime' /\ Stages'
  BY <1>g, OneCommandMoves
<1>4. Unsettled'
  <2>1. \A d \in Callers : ~Busy(d)'
    BY DEF Busy, Idle
  <2> QED BY <2>1, <1>u DEF Unsettled, Exists, Terminal
<1>5. \A k \in todo' : Recorded(k)'
  BY <1>u DEF Recorded
<1> QED BY <1>1, <1>2, <1>3, <1>4, <1>5 DEF RunnerInv, World

LEMMA GuardPassKeeps ==
  ASSUME RunnerInv, Overlap = "none", GuardPass
  PROVE  RunnerInv'
<1> DEFINE s == [Idle EXCEPT !.at = "held", !.does = "supervise"]
<1>g. Guard \in Commands /\ Guard \notin Callers
  BY BoxAssumption DEF Commands
<1>1. Settled /\ \A d \in Commands : ~Busy(d)
  BY DEF GuardPass, MayBegin
<1>2. /\ cmd' = [cmd EXCEPT ![Guard] = s] /\ todo' = {j \in Jobs : Recorded(j)}
      /\ UNCHANGED <<files, processes, bounds>>
  BY DEF GuardPass
<1>3. s \in Progress /\ s.at = "held" /\ s.does = "supervise"
  BY DEF Idle, Progress, Places
<1> HIDE DEF s
<1>4. cmd' \in [Commands -> Progress] /\ cmd'[Guard] = s /\ \A d \in Commands \ {Guard} : cmd'[d] = cmd[d]
  BY <1>2, <1>3, <1>g, CmdSet DEF RunnerInv
<1>5. Stage(Guard)'
  BY <1>3, <1>4 DEF Stage, GuardPlace
<1>6. \A p \in Pids : Exists(p) => wrap[p].at \notin {"spawned", "up"}
  BY <1>1 DEF Settled, Exists
<1>7. \A d \in Callers : ~Busy(d) /\ cmd'[d] = cmd[d]
  BY <1>1, <1>4, <1>g DEF Commands
<1> QED BY <1>2, <1>4, <1>5, <1>6, <1>7, GuardMoves

\* What the guard goes after in a pass has no wrapper: one that planted its marker
\* is live, and one that did not is of this pass and behind it.
LEMMA GuardLookKeeps ==
  ASSUME RunnerInv, NEW j \in Jobs, GuardLook(j)
  PROVE  RunnerInv'
<1> DEFINE s == [Idle EXCEPT !.at = "scan", !.job = j, !.does = "restart"]
<1>g. Guard \in Commands /\ Guard \notin Callers
  BY BoxAssumption DEF Commands
<1>t. TypeOK /\ World /\ Stage(Guard)
  BY <1>g DEF RunnerInv, World, Stages
<1>1. cmd[Guard].at = "look" /\ j \in todo /\ todo' = todo \ {j} /\ UNCHANGED <<files, processes, bounds>>
  BY DEF GuardLook
<1>b. Busy(Guard)
  BY <1>1, <1>g, <1>t, BusyAt
<1>o. \A d \in Callers : ~Busy(d)
  BY <1>b, <1>g, Others DEF Commands
<1>2. todo' \subseteq Jobs /\ Recorded(j) /\ \A k \in todo' : Recorded(k)
  BY <1>1 DEF RunnerInv, TypeOK
<1>3. \A p \in Pids : Exists(p) /\ wrap[p].at \in {"spawned", "up"} =>
        /\ wrap[p].job \in Services /\ ~Terminal(wrap[p].job)
        /\ wrap[p].job \notin todo' /\ wrap[p].job # j
  BY <1>1, <1>b DEF RunnerInv, Unsettled
<1>u. UNCHANGED <<rec, marker, slot, wrap, child>>
  BY <1>1 DEF files, processes
<1>4. CASE cmd' = cmd
  <2>1. cmd' \in [Commands -> Progress]
    BY <1>4, <1>t DEF TypeOK
  <2>2. Stage(Guard)'
    BY <1>1, <1>4, <1>b, <1>t DEF Stage, GuardPlace
  <2>3. \A d \in Callers : cmd'[d] = cmd[d]
    BY <1>4
  <2>4. cmd'[Guard].at = "look"
    BY <1>1, <1>4
  <2> QED BY <1>1, <1>2, <1>3, <1>o, <2>1, <2>2, <2>3, <2>4, GuardMoves
<1>5. CASE ~(Terminal(j) \/ Live(j) \/ j \notin Services) /\ cmd' = [cmd EXCEPT ![Guard] = s]
  <2>1. s \in Progress /\ s.at = "scan" /\ s.does = "restart" /\ s.job = j
    BY DEF Idle, Progress, Places
  <2> HIDE DEF s
  <2>2. cmd' \in [Commands -> Progress] /\ cmd'[Guard] = s /\ \A d \in Commands \ {Guard} : cmd'[d] = cmd[d]
    BY <1>5, <2>1, <1>g, <1>t, CmdSet
  <2>3. NoWrapperOf(j)
    <3> SUFFICES ASSUME NEW p \in Pids, Exists(p), wrap[p].job = j PROVE FALSE
      BY DEF NoWrapperOf
    <3>1. wrap[p].at \in {"runs", "ended", "recorded"}
      <4>1. wrap[p] \in Wrappers
        BY <1>t DEF TypeOK, Exists
      <4> QED BY <4>1, <1>3 DEF Wrappers
    <3>2. marker[j] = p /\ p # Null
      BY <3>1, <1>t, BoxAssumption DEF World, Planted
    <3> QED BY <3>1, <3>2, <1>5 DEF Live, IsWrapperOf, Exists
  <2>4. Stage(Guard)'
    <3>1. GuardPlace(cmd[Guard])'
      BY <1>1, <1>2, <1>5, <1>u, <2>1, <2>2 DEF GuardPlace, Recorded, Terminal
    <3>2. NoWrapperOf(j)'
      BY <2>3, <1>u DEF NoWrapperOf, Exists
    <3> QED BY <3>1, <3>2, <2>1, <2>2 DEF Stage
  <2>5. \A d \in Callers : cmd'[d] = cmd[d]
    BY <2>2, <1>g DEF Commands
  <2>6. cmd'[Guard].job = j
    BY <2>1, <2>2
  <2> QED BY <1>1, <1>2, <1>3, <1>o, <2>2, <2>4, <2>5, <2>6, GuardMoves
<1> QED BY <1>4, <1>5 DEF GuardLook

\* No wrapper turns up in the scan, and a slot that already names the job is claimed.
LEMMA GuardClaims ==
  ASSUME RunnerInv, GuardScan \/ GuardClaim
  PROVE  RunnerInv'
<1> DEFINE j == cmd[Guard].job
<1>g. Guard \in Commands /\ Guard \notin Callers
  BY BoxAssumption DEF Commands
<1>t. TypeOK /\ World /\ Stage(Guard)
  BY <1>g DEF RunnerInv, World, Stages
<1>1. cmd[Guard].at \in {"scan", "claim"}
  BY DEF GuardScan, GuardClaim
<1>b. Busy(Guard)
  BY <1>1, <1>g, <1>t, BusyAt
<1>o. \A d \in Callers : ~Busy(d)
  BY <1>b, <1>g, Others DEF Commands
<1>p. /\ cmd[Guard].does = "restart" /\ j \in Jobs /\ j \in Services
      /\ Recorded(j) /\ ~Terminal(j) /\ j \notin todo /\ NoWrapperOf(j)
  <2>1. cmd[Guard].does = "restart" /\ j \in Services /\ Recorded(j) /\ ~Terminal(j) /\ j \notin todo
    BY <1>1, <1>b, <1>t DEF Stage, GuardPlace
  <2> QED BY <2>1, <1>1, <1>b, <1>t DEF Stage
<1>3. \A p \in Pids : Exists(p) /\ wrap[p].at \in {"spawned", "up"} =>
        /\ wrap[p].job \in Services /\ ~Terminal(wrap[p].job)
        /\ wrap[p].job \notin todo /\ wrap[p].job # j
  BY <1>1, <1>b DEF RunnerInv, Unsettled
<1>4. ASSUME NEW x \in {"claim", "launch", "take", "held"}, cmd' = At(Guard, x),
             UNCHANGED <<files, processes, todo, bounds>>,
             x = "take" => slot = "free", x = "launch" => slot = j
      PROVE  RunnerInv'
  <2>1. /\ cmd' \in [Commands -> Progress] /\ cmd'[Guard].at = x
        /\ cmd'[Guard].job = j /\ cmd'[Guard].does = cmd[Guard].does
        /\ \A d \in Commands \ {Guard} : cmd'[d] = cmd[d]
    BY <1>4, <1>g, <1>t, CmdAt DEF Places
  <2>u. UNCHANGED <<rec, marker, slot, wrap, child, todo>>
    BY <1>4 DEF files, processes
  <2> HIDE DEF j
  <2>2. GuardPlace(cmd[Guard])'
    BY <1>4, <1>p, <2>1, <2>u DEF GuardPlace, Recorded, Terminal
  <2>3. x = "launch" => NoWrapper
    BY <1>4, <1>p, <1>t DEF World, SlotIsItsJobs, NoWrapper, NoWrapperOf, Exists
  <2>4. ~rec[j].stopped
    BY <1>p, <1>t DEF World, StoppedDown
  <2>5. /\ \A p \in Pids : Exists(p)' => wrap[p].job # j /\ Exists(p)
        /\ NoWrapper => NoWrapper'
    BY <2>u, <1>p DEF NoWrapperOf, NoWrapper, Exists
  <2>6. NoWrapperOf(cmd[Guard].job)'
    BY <2>1, <2>5, <2>u DEF NoWrapperOf
  <2>7. Stage(Guard)'
    BY <2>1, <2>2, <2>3, <2>4, <2>5, <2>6, <2>u, <1>4, <1>p DEF Stage, Recorded
  <2>8. \A d \in Callers : cmd'[d] = cmd[d]
    BY <2>1, <1>g DEF Commands
  <2>9. todo' \subseteq Jobs /\ \A k \in todo' : Recorded(k)
    BY <2>u DEF RunnerInv, TypeOK
  <2> QED BY <1>3, <1>4, <1>o, <2>1, <2>u, <2>7, <2>8, <2>9, GuardMoves
<1>5. CASE GuardScan
  <2>1. Scan(j) = {}
    BY <1>p DEF Scan, IsWrapperOf, NoWrapperOf, Exists
  <2>2. cmd[Guard].at = "scan" /\ cmd' = [cmd EXCEPT ![Guard].does = "restart", ![Guard].at = "claim"]
    BY <1>5, <2>1 DEF GuardScan
  <2>3. UNCHANGED <<files, processes, todo, bounds>>
    BY <1>5, <2>1 DEF GuardScan, files
  <2>4. cmd' = At(Guard, "claim")
    BY <2>2, <1>p, <1>g, <1>t DEF At, TypeOK, Progress
  <2> QED BY <2>3, <2>4, <1>4
<1>6. CASE GuardClaim
  <2>1. UNCHANGED <<files, processes, todo, bounds>>
    BY <1>6 DEF GuardClaim
  <2>2. cmd' = At(Guard, IF slot = j THEN "launch" ELSE IF slot = "free" THEN "take" ELSE "held")
    BY <1>6, <1>p DEF GuardClaim
  <2> HIDE DEF j
  <2>3. CASE slot = j
    BY <2>1, <2>2, <2>3, <1>4
  <2>4. CASE slot # j /\ slot = "free"
    BY <2>1, <2>2, <2>4, <1>4
  <2>5. CASE slot # j /\ slot # "free"
    BY <2>1, <2>2, <2>5, <1>4
  <2> QED BY <2>3, <2>4, <2>5
<1> QED BY <1>5, <1>6

LEMMA GuardDoneKeeps ==
  ASSUME RunnerInv, GuardDone
  PROVE  RunnerInv'
<1>1. Guard \in Commands
  BY DEF Commands
<1>2. cmd' = End(Guard) /\ UNCHANGED <<files, processes>> /\ todo' = todo /\ swaps' = swaps /\ kills' = kills
  BY DEF GuardDone, bounds
<1>3. swaps \in 0..MaxSwaps /\ kills \in 0..MaxKills
  BY DEF RunnerInv, TypeOK
<1> QED BY <1>1, <1>2, <1>3, EndKeeps

-----------------------------------------------------------------------------
(* The wrapper and its command.                                                *)

\* A step of the one wrapper, of job j: whatever command is under way keeps its
\* place, as none is at a step which found the box without wrappers.
LEMMA ProcessKeeps ==
  ASSUME RunnerInv, NEW p \in Pids, NEW j \in Jobs, Exists(p), wrap[p].job = j, TypeOK',
         cmd' = cmd, todo' = todo, \A q \in Pids \ {p} : wrap'[q] = wrap[q],
         slot' = slot \/ wrap'[p] = Null,
         \A k \in Jobs \ {j} : rec'[k] = rec[k],
         rec'[j] # Null, rec'[j].stopped = rec[j].stopped, j \in Services => rec'[j].rc = rec[j].rc,
         wrap'[p] # Null =>
           /\ wrap'[p].job = j
           /\ wrap'[p].at \in {"spawned", "up"} => wrap[p].at \in {"spawned", "up"}
           /\ wrap'[p].at \in {"runs", "ended", "recorded"} => marker'[j] = p /\ rec'[j].pgid = p
           /\ wrap'[p].at \in {"ended", "recorded"} => j \notin Services
  PROVE  RunnerInv'
<1>t. TypeOK /\ World
  BY DEF RunnerInv, World
<1>1. \A q \in Pids : q # p => wrap[q] = Null /\ wrap'[q] = Null
  BY <1>t DEF World, OneWrapper, Exists
<1>2. \A q \in Pids : Exists(q)' => q = p /\ wrap'[q].job = j
  BY <1>1 DEF Exists
<1>3. \A k \in Jobs : Recorded(k) => rec'[k] # Null
  BY DEF Recorded
<1>4. \A k : NoWrapperOf(k) => k # j
  BY DEF NoWrapperOf
<1>5. World'
  <2>1. OneWrapper'
    BY <1>2 DEF OneWrapper
  <2>2. SlotIsItsJobs'
    BY <1>2, <1>t DEF World, SlotIsItsJobs, Exists
  <2>3. Planted' /\ Ending'
    BY <1>2 DEF Planted, Ending, Exists
  <2>4. ~rec[j].stopped
    <3>1. Recorded(j) /\ ~NoWrapperOf(j)
      BY <1>t DEF TypeOK, Exists, NoWrapperOf
    <3> QED BY <3>1, <1>t DEF World, StoppedDown
  <2>5. StoppedDown'
    <3> SUFFICES ASSUME NEW k \in Jobs, rec'[k] # Null, rec'[k].stopped
                 PROVE rec'[k].rc # "none" /\ NoWrapperOf(k)'
      BY DEF StoppedDown, Recorded, Terminal
    <3>1. k # j /\ rec'[k] = rec[k]
      BY <2>4
    <3>2. NoWrapperOf(k)'
      BY <3>1, <1>2 DEF NoWrapperOf
    <3> QED BY <3>1, <3>2, <1>t DEF World, StoppedDown, Recorded, Terminal
  <2> QED BY <2>1, <2>2, <2>3, <2>5 DEF World
<1>6. OneAtATime'
  BY DEF RunnerInv, OneAtATime, Busy, Idle
<1>7. Stages'
  <2> SUFFICES ASSUME NEW d \in Commands, Busy(d) PROVE Stage(d)'
    BY DEF Stages, Stage, Busy, Idle
  <2>1. Stage(d) /\ ~NoWrapper /\ slot \notin {"free", "blank"}
    BY SlotFree DEF RunnerInv, Stages, NoWrapper
  <2>2. cmd[d].at \notin {"take", "name", "break", "record", "launch"}
    BY <2>1 DEF Stage
  <2>3. GuardPlace(cmd[d]) => GuardPlace(cmd[d])'
    <3>1. \A k \in Services : Recorded(k) /\ ~Terminal(k) => rec'[k] # Null /\ rec'[k].rc = "none"
      BY BoxAssumption DEF Recorded, Terminal
    <3> QED BY <3>1 DEF GuardPlace, Recorded, Terminal
  <2>4. CallerPlace(cmd[d]) => CallerPlace(cmd[d])'
    BY DEF CallerPlace
  <2>5. NoWrapperOf(cmd[d].job) => NoWrapperOf(cmd[d].job)'
    BY <1>2, <1>4 DEF NoWrapperOf
  <2>6. cmd[d].at = "term" => \A q \in Pids : Exists(q)' /\ wrap'[q].job = cmd'[d].job => q = cmd'[d].pgid
    BY <2>1, <1>2 DEF Stage
  <2>7. cmd[d].at \in {"term", "wait", "rc", "release"} => rec'[cmd'[d].job] # Null
    <3> SUFFICES ASSUME cmd[d].at \in {"term", "wait", "rc", "release"} PROVE rec'[cmd'[d].job] # Null
      OBVIOUS
    <3>1. d # Guard
      BY <2>1 DEF Stage, GuardPlace
    <3>2. cmd[d].job \in Jobs /\ Recorded(cmd[d].job)
      BY <2>1, <3>1 DEF Stage, CallerPlace
    <3> QED BY <3>2, <1>3
  <2> QED BY <2>1, <2>2, <2>3, <2>4, <2>5, <2>6, <2>7 DEF Stage, Recorded
<1>8. Unsettled'
  <2> SUFFICES ASSUME Exists(p)', wrap'[p].at \in {"spawned", "up"}
               PROVE /\ \A c \in Callers : ~Busy(c)
                     /\ Busy(Guard) =>
                          /\ j \in Services /\ rec'[j].rc = "none" /\ j \notin todo
                          /\ cmd[Guard].at # "look" => cmd[Guard].job # j
    BY <1>2 DEF Unsettled, Busy, Idle, Terminal
  <2> QED BY DEF RunnerInv, Unsettled, Exists, Terminal
<1>9. \A k \in todo' : Recorded(k)'
  BY <1>3, <1>t DEF RunnerInv, TypeOK, Recorded
<1> QED BY <1>5, <1>6, <1>7, <1>8, <1>9 DEF RunnerInv, World

LEMMA WrapperTyped ==
  ASSUME TypeOK, NEW p \in Pids, wrap[p] # Null
  PROVE  /\ wrap[p] \in Wrappers /\ wrap[p].job \in Jobs
         /\ rec[wrap[p].job] # Null /\ rec[wrap[p].job] \in Records
<1>1. wrap[p] \in Wrappers
  BY DEF TypeOK
<1>2. wrap[p].job \in Jobs
  BY <1>1 DEF Wrappers
<1> QED BY <1>1, <1>2 DEF TypeOK, Recorded

FilesTyped ==
  /\ rec \in [Jobs -> {Null} \cup Records] /\ marker \in [Jobs -> Pids \cup {Null}]
  /\ slot \in {"free", "blank"} \cup Jobs /\ child \in [Pids -> Jobs \cup {Null}]
  /\ swaps \in 0..MaxSwaps /\ kills \in 0..MaxKills

\* A process changes to w, or is gone: everything stays typed.
LEMMA ProcessTyped ==
  ASSUME TypeOK, NEW p \in Pids, NEW w \in Wrappers \cup {Null}, NEW j \in Jobs,
         wrap[p] # Null, wrap[p].job = j, w # Null => w.job = j,
         wrap' = [wrap EXCEPT ![p] = w], FilesTyped',
         \A q \in Pids \ {p} : child'[q] = child[q],
         child'[p] # Null => child'[p] = j /\ w # Null /\ w.at = "runs",
         rec'[j] # Null, \A k \in Jobs \ {j} : rec'[k] = rec[k], cmd' = cmd, todo' = todo
  PROVE  /\ TypeOK' /\ wrap'[p] = w
         /\ \A q \in Pids \ {p} : wrap'[q] = wrap[q]
<1>1. /\ wrap' \in [Pids -> {Null} \cup Wrappers] /\ wrap'[p] = w
      /\ \A q \in Pids \ {p} : wrap'[q] = wrap[q]
  BY DEF TypeOK
<1>2. \A q \in Pids : wrap'[q] # Null => rec'[wrap'[q].job] # Null
  <2> SUFFICES ASSUME NEW q \in Pids, wrap'[q] # Null PROVE rec'[wrap'[q].job] # Null
    OBVIOUS
  <2>1. CASE q = p
    BY <2>1, <1>1
  <2>2. CASE q # p
    <3>1. wrap'[q] = wrap[q] /\ wrap[q].job \in Jobs /\ rec[wrap[q].job] # Null
      BY <2>2, <1>1, WrapperTyped
    <3> QED BY <3>1
  <2> QED BY <2>1, <2>2
<1>3. \A q \in Pids : child'[q] # Null =>
        wrap'[q] # Null /\ wrap'[q].job = child'[q] /\ wrap'[q].at = "runs"
  <2> SUFFICES ASSUME NEW q \in Pids, child'[q] # Null
               PROVE wrap'[q] # Null /\ wrap'[q].job = child'[q] /\ wrap'[q].at = "runs"
    OBVIOUS
  <2>1. CASE q = p
    BY <2>1, <1>1
  <2>2. CASE q # p
    BY <2>2, <1>1 DEF TypeOK
  <2> QED BY <2>1, <2>2
<1>4. cmd' \in [Commands -> Progress] /\ todo' \subseteq Jobs
  BY DEF TypeOK
<1> QED BY <1>1, <1>2, <1>3, <1>4 DEF TypeOK, FilesTyped, Recorded

LEMMA WrapperSteps ==
  ASSUME RunnerInv, NEW p \in Pids, WrapperStep(p) \/ CommandEnds(p) \/ Dies(p)
  PROVE  RunnerInv'
<1> DEFINE j == wrap[p].job
<1>t. TypeOK /\ World
  BY DEF RunnerInv, World
<1>e. wrap[p] # Null /\ Exists(p)
  BY DEF WrapperStep, WrapperUp, WrapperRuns, WrapperRecords, WrapperReleases, CommandEnds, Dies, Exists
<1>w. wrap[p] \in Wrappers /\ j \in Jobs /\ rec[j] # Null /\ rec[j] \in Records
  BY <1>e, <1>t, WrapperTyped
<1>j. wrap[p].job = j
  OBVIOUS
<1>k. child[p] # Null => child[p] = j /\ wrap[p].at = "runs"
  BY <1>t DEF TypeOK
<1>c. FilesTyped
  BY <1>t DEF TypeOK, FilesTyped
<1>p. wrap[p].at \in {"runs", "ended", "recorded"} => marker[j] = p /\ rec[j].pgid = p
  BY <1>e, <1>t DEF World, Planted
<1>n. wrap[p].at \in {"ended", "recorded"} => j \notin Services
  BY <1>e, <1>t DEF World, Ending
<1>1. CASE WrapperUp(p)
  <2> DEFINE w == [wrap[p] EXCEPT !.at = "up"]
  <2>1. wrap' = [wrap EXCEPT ![p] = w] /\ UNCHANGED <<rec, marker, slot, child, cmd, todo, swaps, kills>>
    BY <1>1 DEF WrapperUp, files, bounds
  <2>2. wrap[p].at = "spawned" /\ w \in Wrappers /\ w.job = j /\ w.at = "up"
    BY <1>1, <1>w DEF WrapperUp, Wrappers
  <2>c. child' = child /\ child[p] = Null
    BY <2>1, <2>2, <1>k
  <2>f. FilesTyped'
    BY <2>1, <1>c DEF FilesTyped
  <2> HIDE DEF w, j
  <2>3. w # Null
    BY <2>2, BoxAssumption
  <2>4. TypeOK' /\ wrap'[p] = w /\ \A q \in Pids \ {p} : wrap'[q] = wrap[q]
    BY <2>1, <2>2, <2>3, <2>c, <2>f, <1>e, <1>j, <1>w, <1>t, ProcessTyped
  <2> QED BY <2>1, <2>2, <2>4, <1>e, <1>j, <1>w, ProcessKeeps
<1>2. CASE WrapperRuns(p)
  <2> DEFINE w == [wrap[p] EXCEPT !.at = "runs"]
             r == [rec[j] EXCEPT !.pgid = p]
  <2>1. /\ wrap' = [wrap EXCEPT ![p] = w] /\ rec' = [rec EXCEPT ![j] = r]
        /\ marker' = [marker EXCEPT ![j] = p] /\ child' = [child EXCEPT ![p] = j]
        /\ UNCHANGED <<slot, cmd, todo, swaps, kills>>
    BY <1>2 DEF WrapperRuns, bounds
  <2>2. w \in Wrappers /\ w.job = j /\ w.at = "runs"
    BY <1>w DEF Wrappers
  <2>3. r \in Records /\ r.pgid = p /\ r.stopped = rec[j].stopped /\ r.rc = rec[j].rc
    BY <1>w DEF Records
  <2> HIDE DEF w, j, r
  <2>4. w # Null /\ r # Null
    BY <2>2, <2>3, BoxAssumption
  <2>5. /\ rec' \in [Jobs -> {Null} \cup Records] /\ rec'[j] = r /\ \A k \in Jobs \ {j} : rec'[k] = rec[k]
        /\ marker' \in [Jobs -> Pids \cup {Null}] /\ marker'[j] = p
    BY <2>1, <2>3, <1>c, <1>w DEF FilesTyped
  <2>c. /\ child' \in [Pids -> Jobs \cup {Null}] /\ child'[p] = j
        /\ \A q \in Pids \ {p} : child'[q] = child[q]
    BY <2>1, <1>c, <1>w DEF FilesTyped
  <2>f. FilesTyped'
    BY <2>1, <2>5, <2>c, <1>c DEF FilesTyped
  <2>6. TypeOK' /\ wrap'[p] = w /\ \A q \in Pids \ {p} : wrap'[q] = wrap[q]
    BY <2>1, <2>2, <2>4, <2>5, <2>c, <2>f, <1>e, <1>j, <1>w, <1>t, ProcessTyped
  <2> QED BY <2>1, <2>2, <2>3, <2>4, <2>5, <2>6, <1>e, <1>j, <1>w, ProcessKeeps
<1>3. CASE CommandEnds(p)
  <2>1. /\ child' = [child EXCEPT ![p] = Null] /\ wrap[p].at = "runs"
        /\ UNCHANGED <<rec, marker, slot, cmd, todo, swaps, kills>>
    BY <1>3 DEF CommandEnds, files, bounds
  <2>2. PICK w \in Wrappers \cup {Null} :
          /\ wrap' = [wrap EXCEPT ![p] = w]
          /\ w # Null => w.job = j /\ w.at = "ended" /\ j \notin Services
    <3>1. CASE j \in Services
      BY <3>1, <1>3 DEF CommandEnds
    <3>2. CASE j \notin Services
      <4>1. PICK r \in {"0", "1"} : wrap' = [wrap EXCEPT ![p].at = "ended", ![p].rc = r]
        BY <3>2, <1>3 DEF CommandEnds
      <4>2. wrap' = [wrap EXCEPT ![p] = [wrap[p] EXCEPT !.at = "ended", !.rc = r]]
        BY <4>1, <1>t DEF TypeOK
      <4>3. LET w == [wrap[p] EXCEPT !.at = "ended", !.rc = r]
            IN  w \in Wrappers /\ w.job = j /\ w.at = "ended"
        BY <1>w DEF Wrappers
      <4> QED BY <3>2, <4>2, <4>3
    <3> QED BY <3>1, <3>2
  <2> HIDE DEF j
  <2>3. /\ child' \in [Pids -> Jobs \cup {Null}] /\ child'[p] = Null
        /\ \A q \in Pids \ {p} : child'[q] = child[q]
    BY <2>1, <1>c DEF FilesTyped
  <2>f. FilesTyped'
    BY <2>1, <2>3, <1>c DEF FilesTyped
  <2>4. TypeOK' /\ wrap'[p] = w /\ \A q \in Pids \ {p} : wrap'[q] = wrap[q]
    BY <2>1, <2>2, <2>3, <2>f, <1>e, <1>j, <1>w, <1>t, ProcessTyped
  <2>5. marker'[j] = p /\ rec'[j].pgid = p
    BY <2>1, <1>p
  <2> QED BY <2>1, <2>2, <2>4, <2>5, <1>e, <1>j, <1>w, ProcessKeeps
<1>4. CASE WrapperRecords(p)
  <2> DEFINE w == [wrap[p] EXCEPT !.at = "recorded"]
             r == [rec[j] EXCEPT !.rc = wrap[p].rc]
  <2>1. /\ wrap[p].at = "ended" /\ wrap' = [wrap EXCEPT ![p] = w] /\ rec' = [rec EXCEPT ![j] = r]
        /\ UNCHANGED <<marker, slot, child, cmd, todo, swaps, kills>>
    BY <1>4 DEF WrapperRecords, bounds
  <2>2. w \in Wrappers /\ w.job = j /\ w.at = "recorded"
    BY <1>w DEF Wrappers
  <2>3. r \in Records /\ r.pgid = rec[j].pgid /\ r.stopped = rec[j].stopped
    BY <1>w DEF Records, Wrappers
  <2>c. child' = child /\ child[p] = Null
    BY <2>1, <1>k
  <2> HIDE DEF w, j, r
  <2>4. w # Null /\ r # Null
    BY <2>2, <2>3, BoxAssumption
  <2>5. /\ rec' \in [Jobs -> {Null} \cup Records] /\ rec'[j] = r /\ \A k \in Jobs \ {j} : rec'[k] = rec[k]
    BY <2>1, <2>3, <1>c, <1>w DEF FilesTyped
  <2>f. FilesTyped'
    BY <2>1, <2>5, <1>c DEF FilesTyped
  <2>6. TypeOK' /\ wrap'[p] = w /\ \A q \in Pids \ {p} : wrap'[q] = wrap[q]
    BY <2>1, <2>2, <2>4, <2>5, <2>c, <2>f, <1>e, <1>j, <1>w, <1>t, ProcessTyped
  <2>7. marker'[j] = p /\ rec'[j].pgid = p /\ j \notin Services
    BY <2>1, <2>3, <2>5, <1>p, <1>n
  <2> QED BY <2>1, <2>2, <2>3, <2>4, <2>5, <2>6, <2>7, <1>e, <1>j, <1>w, ProcessKeeps
<1>5. CASE WrapperReleases(p)
  <2>1. /\ wrap[p].at = "recorded" /\ wrap' = [wrap EXCEPT ![p] = Null]
        /\ marker' = [marker EXCEPT ![j] = Null] /\ slot' = IF slot = j THEN "free" ELSE slot
        /\ UNCHANGED <<rec, child, cmd, todo, swaps, kills>>
    BY <1>5 DEF WrapperReleases, bounds
  <2>f. FilesTyped'
    BY <2>1, <1>c DEF FilesTyped
  <2>3. /\ child'[p] = Null /\ \A q \in Pids \ {p} : child'[q] = child[q]
        /\ rec'[j] # Null /\ \A k \in Jobs \ {j} : rec'[k] = rec[k]
    BY <2>1, <1>k, <1>w
  <2> HIDE DEF j
  <2>n. Null \in Wrappers \cup {Null} /\ (Null # Null => Null.job = j)
        /\ (child'[p] # Null => child'[p] = j /\ Null # Null /\ Null.at = "runs")
    BY <2>3
  <2>4. TypeOK' /\ wrap'[p] = Null /\ \A q \in Pids \ {p} : wrap'[q] = wrap[q]
    BY <2>n, <2>1, <2>f, <2>3, <1>e, <1>j, <1>w, <1>t, ProcessTyped, Zenon
  <2> QED BY <2>1, <2>4, <1>e, <1>j, <1>w, ProcessKeeps
<1>6. CASE Dies(p)
  <2>1. /\ wrap' = [wrap EXCEPT ![p] = Null] /\ child' = [child EXCEPT ![p] = Null]
        /\ UNCHANGED <<rec, marker, slot, cmd, todo, swaps>> /\ kills' = kills + 1 /\ kills < MaxKills
    <3>1. p # Null
      BY BoxAssumption
    <3> QED BY <3>1, <1>6 DEF Dies, Signal, files
  <2>2. kills' \in 0..MaxKills
    BY <2>1, <1>c, BoxAssumption DEF FilesTyped
  <2>3. /\ child' \in [Pids -> Jobs \cup {Null}] /\ child'[p] = Null
        /\ \A q \in Pids \ {p} : child'[q] = child[q]
    BY <2>1, <1>c DEF FilesTyped
  <2>f. FilesTyped'
    BY <2>1, <2>2, <2>3, <1>c DEF FilesTyped
  <2> HIDE DEF j
  <2>4. TypeOK' /\ wrap'[p] = Null /\ \A q \in Pids \ {p} : wrap'[q] = wrap[q]
    BY <2>1, <2>2, <2>3, <2>f, <1>e, <1>j, <1>w, <1>t, ProcessTyped
  <2> QED BY <2>1, <2>4, <1>e, <1>j, <1>w, ProcessKeeps
<1> QED BY <1>1, <1>2, <1>3, <1>4, <1>5, <1>6 DEF WrapperStep

-----------------------------------------------------------------------------

\* A swap leaves no process, no slot, no marker and no command.
LEMMA SwapKeeps ==
  ASSUME RunnerInv, ImageSwap
  PROVE  RunnerInv'
<1>t. TypeOK /\ World
  BY DEF RunnerInv, World
<1>1. /\ swaps' = swaps + 1 /\ swaps < MaxSwaps
      /\ marker' = [j \in Jobs |-> Null] /\ slot' = "free" /\ todo' = {} /\ rec' = rec /\ kills' = kills
      /\ \A p \in Pids : wrap'[p] = Null /\ child'[p] = Null
      /\ \A c \in Commands : cmd'[c] = Idle
  BY DEF ImageSwap
<1>2. /\ wrap' \in [Pids -> {Null} \cup Wrappers] /\ child' \in [Pids -> Jobs \cup {Null}]
      /\ cmd' \in [Commands -> Progress] /\ marker' \in [Jobs -> Pids \cup {Null}]
  BY IdleTyped DEF ImageSwap
<1>3. swaps' \in 0..MaxSwaps /\ kills' \in 0..MaxKills /\ rec' \in [Jobs -> {Null} \cup Records]
  BY <1>1, <1>t, BoxAssumption DEF TypeOK
<1>4. TypeOK'
  BY <1>1, <1>2, <1>3 DEF TypeOK
<1>5. \A p \in Pids : ~Exists(p)'
  BY <1>1 DEF Exists
<1>6. World'
  <2>1. \A j : NoWrapperOf(j)'
    BY <1>5 DEF NoWrapperOf
  <2>2. StoppedDown'
    BY <2>1, <1>1, <1>t DEF World, StoppedDown, Recorded, Terminal
  <2> QED BY <2>2, <1>5 DEF World, OneWrapper, SlotIsItsJobs, Planted, Ending
<1>7. \A c \in Commands : ~Busy(c)'
  BY <1>1 DEF Busy, Idle
<1> QED BY <1>1, <1>4, <1>5, <1>6, <1>7 DEF RunnerInv, World, OneAtATime, Stages, Stage, Unsettled

LEMMA KillKeeps ==
  ASSUME RunnerInv, NEW c \in Commands, Killed(c)
  PROVE  RunnerInv'
<1>1. /\ cmd' = End(c) /\ UNCHANGED <<files, processes>> /\ todo' \subseteq todo /\ swaps' = swaps
      /\ kills' = kills + 1 /\ kills < MaxKills
  BY DEF Killed
<1>2. swaps \in 0..MaxSwaps /\ kills \in 0..MaxKills
  BY DEF RunnerInv, TypeOK
<1>3. kills' \in 0..MaxKills
  BY <1>1, <1>2, BoxAssumption
<1> QED BY <1>1, <1>2, <1>3, EndKeeps

\* The invariant, when commands and passes begin one after the other.
LEMMA RunnerKeeps == Overlap = "none" /\ RunnerInv /\ [Next]_vars => RunnerInv'
<1> SUFFICES ASSUME Overlap = "none", RunnerInv, [Next]_vars PROVE RunnerInv'
  OBVIOUS
<1>1. ASSUME NEW c \in Callers, CallerStep(c) PROVE RunnerInv'
  <2>1. c \in Commands
    BY DEF Commands
  <2>2. \/ SlotCheck(c) \/ SlotBreak(c) \/ SlotTake(c) \/ SlotName(c) \/ Launch(c) \/ StartRecord(c)
        \/ StopTerm(c) \/ StopWait(c) \/ StopRecord(c) \/ StopRelease(c)
    BY <1>1 DEF CallerStep, SlotStep
  <2> QED BY <2>1, <2>2, SlotSteps, LaunchKeeps, StartRecordKeeps, StopSteps
<1>2. ASSUME NEW c \in Callers, NEW j \in Jobs, Start(c, j) \/ Stop(c, j) PROVE RunnerInv'
  BY <1>2, CallsKeep
<1>3. CASE GuardStep
  <2>1. Guard \in Commands
    BY DEF Commands
  <2>2. \/ GuardPass \/ GuardScan \/ GuardClaim \/ GuardDone \/ \E j \in Jobs : GuardLook(j)
        \/ SlotCheck(Guard) \/ SlotBreak(Guard) \/ SlotTake(Guard) \/ SlotName(Guard) \/ Launch(Guard)
    BY <1>3 DEF GuardStep, SlotStep
  <2> QED BY <2>1, <2>2, GuardPassKeeps, GuardClaims, GuardDoneKeeps, GuardLookKeeps, SlotSteps, LaunchKeeps
<1>4. ASSUME NEW p \in Pids, WrapperStep(p) \/ CommandEnds(p) \/ Dies(p) PROVE RunnerInv'
  BY <1>4, WrapperSteps
<1>5. CASE ImageSwap
  BY <1>5, SwapKeeps
<1>6. ASSUME NEW c \in Commands, Killed(c) PROVE RunnerInv'
  BY <1>6, KillKeeps
<1>7. CASE UNCHANGED vars
  BY <1>7 DEF vars, RunnerInv, TypeOK, OneAtATime, OneWrapper, SlotIsItsJobs, Planted, Ending,
              Unsettled, Stages, Stage, StoppedDown, GuardPlace, CallerPlace, NoWrapper,
              NoWrapperOf, Exists, Busy, Recorded, Terminal
<1> QED BY <1>1, <1>2, <1>3, <1>4, <1>5, <1>6, <1>7 DEF Next

LEMMA RunnerBegins == Init => RunnerInv
<1> SUFFICES ASSUME Init PROVE RunnerInv
  OBVIOUS
<1>1. /\ \A p \in Pids : wrap[p] = Null /\ child[p] = Null
      /\ \A j \in Jobs : rec[j] = Null
      /\ \A c \in Commands : cmd[c] = Idle
  BY DEF Init
<1>2. TypeOK
  <2>1. /\ rec \in [Jobs -> {Null} \cup Records] /\ marker \in [Jobs -> Pids \cup {Null}]
        /\ wrap \in [Pids -> {Null} \cup Wrappers] /\ child \in [Pids -> Jobs \cup {Null}]
        /\ cmd \in [Commands -> Progress]
    BY IdleTyped DEF Init
  <2>2. slot \in {"free", "blank"} \cup Jobs /\ todo = {} /\ swaps \in 0..MaxSwaps /\ kills \in 0..MaxKills
    BY BoxAssumption DEF Init
  <2> QED BY <1>1, <2>1, <2>2 DEF TypeOK
<1>3. todo = {}
  BY DEF Init
<1> QED BY <1>1, <1>2, <1>3 DEF RunnerInv, OneAtATime, OneWrapper, SlotIsItsJobs, Planted, Ending,
      Unsettled, Stages, Stage, StoppedDown, Busy, Recorded, Exists

\* One command on the box: what `box.job.start' relies on when it takes a free slot
\* for a box with nothing on it.  Whatever is killed half-way, dies or is swapped
\* away, the slot names the job of the only wrapper, and nobody takes it from a
\* job which is live, is found in /proc or is a service that the guard is bringing
\* back.
THEOREM OneCommandRuns == Overlap = "none" => (Spec => []OneCommandPerBox)
<1> SUFFICES ASSUME Overlap = "none" PROVE Spec => []OneCommandPerBox
  OBVIOUS
<1>1. RunnerInv => OneCommandPerBox
  <2> SUFFICES ASSUME RunnerInv PROVE OneCommandPerBox
    OBVIOUS
  <2> DEFINE S == {p \in Pids : child[p] # Null}
  <2>1. \A p, q \in S : p = q
    BY DEF RunnerInv, TypeOK, OneWrapper, Exists
  <2>2. CASE S = {}
    BY <2>2, FS_EmptySet DEF OneCommandPerBox
  <2>3. CASE S # {}
    <3>1. PICK p \in S : TRUE
      BY <2>3
    <3>2. S = {p}
      BY <2>1, <3>1
    <3>3. Cardinality(S) = 1
      BY <3>2, FS_Singleton
    <3> QED BY <3>3 DEF OneCommandPerBox
  <2> QED BY <2>2, <2>3
<1>2. RunnerInv /\ [Next]_vars => RunnerInv'
  BY RunnerKeeps
<1> QED BY <1>1, <1>2, RunnerBegins, PTL DEF Spec

\* A job whose stop has answered has no command and gets none: its record says so
\* before the slot is free, and the guard restarts no terminal record.
THEOREM StoppedJobsStayDown == Overlap = "none" => (Spec => []StoppedStaysDown)
<1> SUFFICES ASSUME Overlap = "none" PROVE Spec => []StoppedStaysDown
  OBVIOUS
<1>1. RunnerInv => StoppedStaysDown
  <2> SUFFICES ASSUME RunnerInv, NEW j \in Jobs, Recorded(j), rec[j].stopped, NEW p \in Pids, child[p] = j
               PROVE FALSE
    BY DEF StoppedStaysDown, Running
  <2>1. child[p] # Null
    BY BoxAssumption
  <2>2. Exists(p) /\ wrap[p].job = j
    BY <2>1 DEF RunnerInv, TypeOK, Exists
  <2> QED BY <2>2 DEF RunnerInv, StoppedDown, NoWrapperOf
<1>2. RunnerInv /\ [Next]_vars => RunnerInv'
  BY RunnerKeeps
<1> QED BY <1>1, <1>2, RunnerBegins, PTL DEF Spec

\* The types of the runner's files, processes and commands; a wrapper has a record
\* and a command its wrapper.
THEOREM RunnerTypeCorrect == Overlap = "none" => (Spec => []TypeOK)
<1> SUFFICES ASSUME Overlap = "none" PROVE Spec => []TypeOK
  OBVIOUS
<1>1. RunnerInv => TypeOK
  BY DEF RunnerInv
<1>2. RunnerInv /\ [Next]_vars => RunnerInv'
  BY RunnerKeeps
<1> QED BY <1>1, <1>2, RunnerBegins, PTL DEF Spec
===============================================================================
