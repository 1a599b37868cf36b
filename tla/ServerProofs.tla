---------------------------- MODULE ServerProofs ----------------------------
(***************************************************************************)
(* The API server, the keys it mints and the terminal that asks it.  For    *)
(* any number of requests, jobs and gates: the mutex chain drains, the      *)
(* audit line names its job.  For any number of keys, faults and requests:  *)
(* the store never names a deleted key, a rotation never deletes the key on *)
(* the box, and every working key that nobody remembers is paid for.  For   *)
(* any fleet, number of requests in flight and height of the terminal: the  *)
(* screen is true, and the keys act on what was chosen.                     *)
(***************************************************************************)
EXTENDS ApiServer, AuthKeys, Terminal, FiniteSetTheorems, SequenceTheorems, TLAPS

(* The API server. *)

\* What the waits leave in the chain: gates are distinct, belong to those who
\* wait or work, and whoever is past the mutex has the oldest one.
Chain ==
  /\ \A c \in Caller : gate[c] <= gates
  /\ \A c \in Caller : gate[c] # 0 <=> at[c] \in {"mutex", "flock", "op"}
  /\ \A c, d \in Caller : (gate[c] # 0 /\ gate[c] = gate[d]) => c = d
  /\ \A c \in Caller : at[c] \in {"flock", "op"} => PriorResolved(c)
  /\ \A c \in Caller : at[c] = "op" <=> flock = c

\* What makes the shared variable safe to read: a job that has not settled is
\* the one the registry and the variable name.
OneJob == \A j \in JobId : at[j] # "away" => (running = j /\ current = j)

ApiInv == ApiTypeOK /\ Chain /\ OneJob /\ AuditNamesItsJob

\* An unused caller gets a gate behind all the others: the chain keeps its
\* order (AsyncMutex.acquire).
LEMMA EnqueueKeepsChain ==
  ASSUME ApiTypeOK, Chain, NEW c \in Caller, at[c] \in {"away", "settled", "failed"}, Enqueue(c), UNCHANGED flock
  PROVE  Chain'
<1> USE DEF Chain, PriorResolved, Enqueue, ApiTypeOK, Stages
<1>1. gate[c] = 0 /\ flock # c
  OBVIOUS
<1>2. (\A d \in Caller : gate[d] <= gates)'
  OBVIOUS
<1>3. (\A d \in Caller : gate[d] # 0 <=> at[d] \in {"mutex", "flock", "op"})'
  BY <1>1
<1>4. (\A d, e \in Caller : (gate[d] # 0 /\ gate[d] = gate[e]) => d = e)'
  BY <1>1
<1>5. (\A d \in Caller : at[d] \in {"flock", "op"} => PriorResolved(d))'
  BY <1>1
<1>6. (\A d \in Caller : at[d] = "op" <=> flock = d)'
  BY <1>1
<1> QED
  BY <1>2, <1>3, <1>4, <1>5, <1>6

\* A caller that leaves, whatever for, takes its gate along and no other caller
\* notices but by its wait (AsyncMutex.acquire, withReconcileLock).
LEMMA LeavingKeepsChain ==
  ASSUME ApiTypeOK, Chain, NEW c \in Caller, NEW next \in {"away", "settled", "failed"},
         at' = [at EXCEPT ![c] = next], gate' = [gate EXCEPT ![c] = 0], UNCHANGED gates,
         \/ at[c] = "op" /\ flock' = Free
         \/ at[c] # "op" /\ UNCHANGED flock
  PROVE  Chain'
<1> USE DEF Chain, PriorResolved, ApiTypeOK, Stages
<1>1. Free \notin Caller
  BY ApiAssumption
<1>2. (\A d \in Caller : gate[d] <= gates)'
  OBVIOUS
<1>3. (\A d \in Caller : gate[d] # 0 <=> at[d] \in {"mutex", "flock", "op"})'
  OBVIOUS
<1>4. (\A d, e \in Caller : (gate[d] # 0 /\ gate[d] = gate[e]) => d = e)'
  OBVIOUS
<1>5. (\A d \in Caller : at[d] \in {"flock", "op"} => PriorResolved(d))'
  OBVIOUS
<1>6. (\A d \in Caller : at[d] = "op" <=> flock = d)'
  BY <1>1
<1> QED
  BY <1>2, <1>3, <1>4, <1>5, <1>6

\* The invariant holds at the start.
LEMMA ApiInitially == ApiInit => ApiInv
  BY ApiAssumption DEF ApiInit, ApiInv, ApiTypeOK, Chain, OneJob, AuditNamesItsJob, PriorResolved, Stages, Caller

\* Every step keeps it.
LEMMA ApiInductive == ApiInv /\ [ApiNext]_apiVars => ApiInv'
<1> SUFFICES ASSUME ApiInv, [ApiNext]_apiVars PROVE ApiInv'
  OBVIOUS
<1> USE DEF ApiInv
<1>a. Timer \notin Caller /\ Free \notin Caller /\ Timer # Free /\ Request \cap JobId = {} /\ Caller = Request \cup JobId
  BY ApiAssumption DEF Caller
<1>1. ASSUME NEW c \in Caller, Acquired(c) PROVE ApiInv'
  <2>1. ApiTypeOK'
    BY <1>1 DEF Acquired, ApiTypeOK, Stages
  <2>2. Chain'
    BY <1>1 DEF Acquired, ApiTypeOK, Stages, Chain, PriorResolved
  <2>3. OneJob' /\ AuditNamesItsJob'
    BY <1>1, <1>a DEF Acquired, OneJob, AuditNamesItsJob, ApiTypeOK
  <2> QED
    BY <2>1, <2>2, <2>3
<1>2. ASSUME NEW c \in Caller, FlockTaken(c) PROVE ApiInv'
  <2>1. ApiTypeOK'
    BY <1>2 DEF FlockTaken, ApiTypeOK, Stages
  <2>2. \A d \in Caller : at[d] # "op"
    BY <1>2, <1>a DEF FlockTaken, Chain
  <2>3. Chain'
    BY <1>2, <2>2 DEF FlockTaken, ApiTypeOK, Stages, Chain, PriorResolved
  <2>4. OneJob' /\ AuditNamesItsJob'
    BY <1>2, <1>a DEF FlockTaken, OneJob, AuditNamesItsJob, ApiTypeOK
  <2> QED
    BY <2>1, <2>3, <2>4
<1>3. ASSUME NEW c \in Caller, LockBusy(c) PROVE ApiInv'
  <2>1. ApiTypeOK'
    BY <1>3 DEF LockBusy, TimedOut, After, ApiTypeOK, Stages
  <2>2. After(c) \in {"away", "settled", "failed"}
    BY DEF After
  <2>3. Chain'
    BY <1>3, <2>2, LeavingKeepsChain DEF LockBusy, TimedOut
  <2>4. OneJob' /\ AuditNamesItsJob'
    BY <1>3, <1>a DEF LockBusy, TimedOut, OneJob, AuditNamesItsJob, ApiTypeOK
  <2> QED
    BY <2>1, <2>3, <2>4
<1>4. ASSUME NEW c \in Caller, Operated(c) PROVE ApiInv'
  <2>1. PICK next \in {"away", "settled", "failed"} : at' = [at EXCEPT ![c] = next]
    BY <1>4 DEF Operated, After
  <2>2. ApiTypeOK'
    BY <1>4, <2>1 DEF Operated, ApiTypeOK, Stages
  <2>3. Chain'
    BY <1>4, <2>1, LeavingKeepsChain DEF Operated
  <2>4. OneJob' /\ AuditNamesItsJob'
    BY <1>4, <2>1, <1>a DEF Operated, OneJob, AuditNamesItsJob, ApiTypeOK
  <2> QED
    BY <2>2, <2>3, <2>4
<1>5. ASSUME NEW r \in Request, Mutate(r) PROVE ApiInv'
  <2>1. ApiTypeOK'
    BY <1>5 DEF Mutate, Enqueue, ApiTypeOK, Stages, Caller
  <2>2. Chain'
    BY <1>5, <1>a, EnqueueKeepsChain DEF Mutate
  <2>3. OneJob' /\ AuditNamesItsJob'
    BY <1>5, <1>a DEF Mutate, Enqueue, OneJob, AuditNamesItsJob, ApiTypeOK
  <2> QED
    BY <2>1, <2>2, <2>3
<1>6. ASSUME NEW j \in JobId, Reconcile(j) PROVE ApiInv'
  <2>1. \A k \in JobId : at[k] = "away"
    BY <1>6, <1>a DEF Reconcile, MayStart, OneJob
  <2>2. ApiTypeOK'
    BY <1>6 DEF Reconcile, Enqueue, ApiTypeOK, Stages, Caller
  <2>3. Chain'
    BY <1>6, <2>1, <1>a, EnqueueKeepsChain DEF Reconcile
  <2>4. OneJob' /\ AuditNamesItsJob'
    BY <1>6, <2>1, <1>a DEF Reconcile, Enqueue, OneJob, AuditNamesItsJob, ApiTypeOK
  <2> QED
    BY <2>2, <2>3, <2>4
<1>7. ASSUME NEW j \in JobId, JobSettles(j) PROVE ApiInv'
  <2>1. running = j /\ current = j
    BY <1>7 DEF JobSettles, OneJob
  <2>2. \A k \in JobId : k # j => at[k] = "away"
    BY <2>1 DEF OneJob
  <2>3. ApiTypeOK'
    <3>1. at' \in [Caller -> Stages] /\ running' \in JobId \cup {Free}
      BY <1>7, <1>a DEF JobSettles, ApiTypeOK, Stages
    <3>2. [of |-> j, job |-> current] \in [of : JobId, job : JobId \cup {Free}]
      BY <2>1
    <3>3. audit' \subseteq [of : JobId, job : JobId \cup {Free}]
      BY <1>7, <3>2 DEF JobSettles, ApiTypeOK
    <3> QED
      BY <1>7, <3>1, <3>3 DEF JobSettles, ApiTypeOK
  <2>4. Chain'
    BY <1>7, <1>a DEF JobSettles, ApiTypeOK, Stages, Chain, PriorResolved
  <2>5. OneJob'
    BY <1>7, <2>2, <1>a DEF JobSettles, OneJob, ApiTypeOK
  <2>6. AuditNamesItsJob'
    BY <1>7, <2>1 DEF JobSettles, AuditNamesItsJob
  <2> QED
    BY <2>3, <2>4, <2>5, <2>6
<1>8. ASSUME TimerTakes \/ TimerEnds \/ FlagCleared PROVE ApiInv'
  <2>1. ApiTypeOK'
    BY <1>8 DEF TimerTakes, TimerEnds, FlagCleared, ApiTypeOK
  <2>2. UNCHANGED <<at, gate, gates, running, current, audit>>
    BY <1>8 DEF TimerTakes, TimerEnds, FlagCleared
  <2>3. \A c \in Caller : flock' = c <=> flock = c
    BY <1>8, <1>a DEF TimerTakes, TimerEnds, FlagCleared
  <2>4. Chain'
    BY <2>2, <2>3 DEF Chain, PriorResolved
  <2>5. OneJob' /\ AuditNamesItsJob'
    BY <2>2 DEF OneJob, AuditNamesItsJob
  <2> QED
    BY <2>1, <2>4, <2>5
<1>9. CASE Restart
  <2>1. ApiTypeOK'
    BY <1>9, <1>a DEF Restart, ApiTypeOK, Stages
  <2>2. \A c \in Caller : at'[c] = "away" /\ gate'[c] = 0 /\ flock' # c
    BY <1>9, <1>a DEF Restart
  <2>3. Chain'
    BY <1>9, <2>1, <2>2 DEF Restart, Chain, PriorResolved, ApiTypeOK
  <2>4. OneJob' /\ AuditNamesItsJob'
    BY <1>9, <1>a, <2>2 DEF Restart, OneJob, AuditNamesItsJob
  <2> QED
    BY <2>1, <2>3, <2>4
<1>10. CASE UNCHANGED apiVars
  BY <1>10 DEF apiVars, ApiTypeOK, Chain, PriorResolved, OneJob, AuditNamesItsJob
<1> QED
  BY <1>1, <1>2, <1>3, <1>4, <1>5, <1>6, <1>7, <1>8, <1>9, <1>10 DEF ApiNext

\* The chain of gates is what the mutex promises.
LEMMA ChainIsMutex == ApiTypeOK /\ Chain => MutexDrains
  BY DEF ApiTypeOK, Chain, MutexDrains, PriorResolved

\* For any requests, jobs and gates: whoever gave up the wait holds nobody up,
\* at most one caller is past the mutex, and the one that works holds
\* reconcile.lock (serve/lock.ts).
THEOREM ApiMutexDrains == ApiSpec => []MutexDrains
<1>1. ApiInv => MutexDrains
  BY ChainIsMutex DEF ApiInv
<1> QED
  BY <1>1, ApiInitially, ApiInductive, PTL DEF ApiSpec

\* For any of them, the audit line of a reconcile job names that job
\* (serve/handlers.ts, handleReconcile).
THEOREM ApiAuditNamesItsJob == ApiSpec => []AuditNamesItsJob
<1>1. ApiInv => AuditNamesItsJob
  BY DEF ApiInv
<1> QED
  BY <1>1, ApiInitially, ApiInductive, PTL DEF ApiSpec
-----------------------------------------------------------------------------
(* The auth keys. *)

\* Two mints never work on the same key, and none on a key another one replaces.
Distinct == \A p, q \in Programs : p # q /\ op[p].new # 0 => op[p].new # op[q].new
Apart == \A p, q \in Programs : op[p].new # 0 => op[p].new # op[q].old

\* A key being minted exists and is not recorded yet.
Unrecorded == \A p \in Programs : op[p].new # 0 => op[p].new \in live /\ op[p].new # rec

\* Once the seed has answered the box holds another key than the one to replace,
\* and once the verification has so does the row.
OldOffBox ==
  \A p \in Programs : op[p].at \in {"verify", "retire"} /\ op[p].old # 0 => op[p].old # boxKey
OldReplaced == \A p \in Programs : op[p].at = "retire" => op[p].old # rec

\* The reconcile lock, and a CLI that replaces nothing.
OneHolder == op["tick"].at = "idle" \/ op["api"].at = "idle"
CliReplacesNothing == op["cli"].at # "retire" /\ op["cli"].old = 0 /\ op["cli"].more = FALSE

IInv == /\ TypeOK /\ RecordedKeyIsLive
        /\ Distinct /\ Apart /\ Unrecorded /\ OldOffBox /\ OldReplaced
        /\ OneHolder /\ CliReplacesNothing
-----------------------------------------------------------------------------
Maybe == Keys \cup {0}
Minting == {"idle", "create", "seed", "verify", "revoke"}

LEMMA DoingTyped ==
  ASSUME NEW stage \in Minting, NEW new \in Maybe, NEW old \in Maybe, NEW more \in BOOLEAN
  PROVE Doing(stage, new, old, more) \in Ops
BY DEF Doing, Ops, Minting, Maybe

LEMMA RetireTyped ==
  ASSUME NEW old \in Keys
  PROVE Doing("retire", 0, old, FALSE) \in Ops
BY DEF Doing, Ops

\* What an operation is made of, and what moving it on leaves.
LEMMA OpFields ==
  ASSUME NEW o \in Ops
  PROVE /\ o.at \in Minting \cup {"retire"} /\ o.new \in Maybe /\ o.old \in Maybe
        /\ o.at = "retire" => o.new = 0 /\ o.old \in Keys
        /\ o.at # "retire" => \A stage \in Minting, new \in Maybe :
             /\ [o EXCEPT !.at = stage] \in Ops
             /\ [o EXCEPT !.at = stage, !.new = new] \in Ops
BY DEF Ops, Minting, Maybe

LEMMA OverTyped ==
  ASSUME TypeOK, NEW p \in Programs, NEW row \in Maybe, NEW latched \in BOOLEAN
  PROVE Over(p, row, latched) \in Ops
<1>1. Doing("create", 0, row, FALSE) \in Ops /\ Idle \in Ops
  <2>1. 0 \in Maybe /\ "create" \in Minting /\ "idle" \in Minting
    BY DEF Maybe, Minting
  <2> QED BY <2>1, DoingTyped DEF Idle
<1> QED BY <1>1, Zenon DEF Over

LEMMA Zero == 0 \in Maybe /\ Keys \subseteq Maybe /\ Keys \subseteq Nat \ {0}
BY KeyAssumption DEF Maybe

LEMMA TypePreserved == TypeOK /\ [Next]_vars => TypeOK'
<1> SUFFICES ASSUME TypeOK, [Next]_vars PROVE TypeOK'
  OBVIOUS
<1> USE DEF TypeOK, Fault
<1>a. \A p \in Programs : op[p] \in Ops
  BY DEF TypeOK
<1>b. rec \in Maybe /\ boxKey \in Maybe
  BY DEF Maybe
<1>c. "tick" \in Programs /\ "api" \in Programs /\ "cli" \in Programs
  BY DEF Programs
<1>d. Idle \in Ops
  BY DoingTyped, Zero DEF Idle, Minting
<1>1. CASE TickStart
  <2>1. PICK mint \in BOOLEAN, rotate \in BOOLEAN :
          op' = [op EXCEPT !["tick"] = Doing("create", 0, IF mint THEN 0 ELSE rec, mint /\ rotate)]
    BY <1>1 DEF TickStart
  <2>2. Doing("create", 0, IF mint THEN 0 ELSE rec, mint /\ rotate) \in Ops
    BY <1>b, Zero, DoingTyped DEF Minting
  <2>3. op' \in [Programs -> Ops]
    BY <2>1, <2>2, Zenon
  <2> QED BY <1>1, <2>3 DEF TickStart
<1>2. CASE ApiRotate
  <2>1. Doing("create", 0, rec, FALSE) \in Ops
    BY <1>b, Zero, DoingTyped DEF Minting
  <2>2. op' \in [Programs -> Ops]
    BY <1>2, <2>1, Zenon DEF ApiRotate
  <2>3. bound' \in BOOLEAN /\ online' \in BOOLEAN
    BY <1>2, Zenon DEF ApiRotate
  <2>4. asks' \in Nat
    BY <1>2 DEF ApiRotate
  <2> QED BY <1>2, <2>2, <2>3, <2>4, Zenon DEF ApiRotate
<1>3. CASE CliMint
  <2>1. Doing("create", 0, 0, FALSE) \in Ops
    BY Zero, DoingTyped DEF Minting
  <2>2. op' \in [Programs -> Ops]
    BY <1>3, <2>1, Zenon DEF CliMint
  <2>3. bound' \in BOOLEAN /\ online' \in BOOLEAN
    BY <1>3, Zenon DEF CliMint
  <2>4. letGo' \in Nat
    BY <1>3 DEF CliMint
  <2> QED BY <1>3, <2>2, <2>3, <2>4, Zenon DEF CliMint
<1>4. ASSUME NEW p \in Programs, Step(p) PROVE TypeOK'
  <2>1. op[p] \in Ops
    BY <1>a
  <2>2. CASE Create(p)
    <3>1. PICK k \in Keys : Created(k) /\ op' = [op EXCEPT ![p].at = "seed", ![p].new = k]
      BY <2>2 DEF Create, First, Unused
    <3>2. [op[p] EXCEPT !.at = "seed", !.new = k] \in Ops
      BY <2>1, <2>2, OpFields, Zero DEF Create, Minting
    <3>3. op' = [op EXCEPT ![p] = [op[p] EXCEPT !.at = "seed", !.new = k]]
      BY <3>1, <2>1
    <3>4. op' \in [Programs -> Ops]
      BY <3>2, <3>3, Zenon
    <3>5. born' \in [Keys -> 0..MaxClock] /\ live' \in SUBSET Keys
      BY <3>1 DEF Created
    <3> QED BY <2>2, <3>4, <3>5 DEF Create
  <2>3. CASE CreateFails(p)
    <3>1. PICK latched \in BOOLEAN : op' = [op EXCEPT ![p] = Over(p, rec, latched)]
      BY <2>3 DEF CreateFails
    <3>2. op' \in [Programs -> Ops]
      BY <3>1, <1>b, OverTyped, Zenon
    <3>3. born' \in [Keys -> 0..MaxClock] /\ live' \in SUBSET Keys
      <4>1. CASE UNCHANGED <<born, live>>
        BY <4>1
      <4>2. CASE \E k \in First(Unused) : Created(k)
        BY <4>2 DEF Created, First, Unused
      <4> QED BY <2>3, <4>1, <4>2 DEF CreateFails
    <3> QED BY <2>3, <3>2, <3>3 DEF CreateFails
  <2>4. CASE Seed(p)
    <3>1. [op[p] EXCEPT !.at = "verify"] \in Ops /\ op[p].new \in Maybe
      BY <2>1, <2>4, OpFields DEF Seed, Minting
    <3>2. op' \in [Programs -> Ops]
      BY <3>1, <2>4, Zenon DEF Seed
    <3> QED BY <2>4, <3>1, <3>2 DEF Seed, Maybe, RowAfterSeed
  <2>5. CASE SeedFails(p)
    <3>1. [op[p] EXCEPT !.at = AfterFailedSeed] \in Ops /\ op[p].new \in Maybe
      BY <2>1, <2>5, OpFields DEF SeedFails, AfterFailedSeed, Minting
    <3>2. op' \in [Programs -> Ops]
      BY <3>1, <2>5, Zenon DEF SeedFails
    <3>3. boxKey' \in Maybe
      BY <2>5, <3>1, <1>b DEF SeedFails
    <3> QED BY <2>5, <3>2, <3>3 DEF SeedFails, Maybe
  <2>6. CASE Verify(p)
    <3>1. op[p].new \in Maybe /\ op[p].old \in Maybe
      BY <2>1, OpFields
    <3>2. rec' \in Maybe
      BY <2>6, <3>1, <1>b DEF Verify
    <3>3. Over(p, rec', FALSE) \in Ops
      BY <3>2, OverTyped
    <3>4. AfterRecord(p, rec') \in Ops
      BY <3>1, <3>3, RetireTyped DEF AfterRecord, Maybe
    <3>5. op' \in [Programs -> Ops]
      BY <2>6, <3>4, Zenon DEF Verify
    <3> QED BY <2>6, <3>2, <3>5 DEF Verify, Maybe
  <2>7. CASE VerifyFails(p)
    <3>1. [op[p] EXCEPT !.at = "revoke"] \in Ops
      BY <2>1, <2>7, OpFields DEF VerifyFails, Minting
    <3>2. op' \in [Programs -> Ops]
      BY <3>1, <2>7, Zenon DEF VerifyFails
    <3> QED BY <2>7, <3>2 DEF VerifyFails
  <2>8. CASE Revoke(p)
    <3>1. op' \in [Programs -> Ops]
      BY <2>8, <1>b, OverTyped DEF Revoke
    <3> QED BY <2>8, <3>1 DEF Revoke
  <2>9. CASE RevokeFails(p)
    <3>1. op' \in [Programs -> Ops]
      BY <2>9, <1>b, OverTyped DEF RevokeFails
    <3>2. bound' \in BOOLEAN /\ online' \in BOOLEAN
      BY <2>9, Zenon DEF RevokeFails
    <3>3. live' \in SUBSET Keys /\ faults' \in Nat
      BY <2>9 DEF RevokeFails
    <3> QED BY <2>9, <3>1, <3>2, <3>3 DEF RevokeFails
  <2>10. CASE RevokeOld(p)
    <3>1. op' \in [Programs -> Ops]
      BY <2>10, <1>d, Zenon DEF RevokeOld
    <3> QED BY <2>10, <3>1 DEF RevokeOld
  <2> QED BY <1>4, <2>2, <2>3, <2>4, <2>5, <2>6, <2>7, <2>8, <2>9, <2>10 DEF Step
<1>5. ASSUME NEW p \in Programs, Crash(p) PROVE TypeOK'
  <2>1. op' \in [Programs -> Ops]
    BY <1>5, <1>d, Zenon DEF Crash
  <2> QED BY <1>5, <2>1 DEF Crash
<1>6. CASE NodeLost \/ Rejoin \/ Reimage \/ Rebind \/ ForgetKey \/ TimePasses
  <2>1. bound' \in BOOLEAN /\ online' \in BOOLEAN
    BY <1>6, Zenon DEF NodeLost, Rejoin, Reimage, Rebind, ForgetKey, TimePasses
  <2>2. CASE NodeLost \/ Rejoin
    BY <2>1, <2>2 DEF NodeLost, Rejoin
  <2>3. CASE Reimage
    BY <2>1, <2>3 DEF Reimage
  <2>4. CASE Rebind
    BY <2>1, <2>4 DEF Rebind, Forgotten
  <2>5. CASE ForgetKey
    BY <2>1, <2>5 DEF ForgetKey
  <2>6. CASE TimePasses
    BY <2>1, <2>6, KeyAssumption DEF TimePasses
  <2> QED BY <1>6, <2>2, <2>3, <2>4, <2>5, <2>6
<1>7. CASE UNCHANGED vars
  BY <1>7 DEF vars
<1> QED BY <1>1, <1>2, <1>3, <1>4, <1>5, <1>6, <1>7 DEF Next

-----------------------------------------------------------------------------
\* All a step of program p may do to the keys, whichever step it is.
MovesOp(p) ==
  /\ \A q \in Programs \ {p} : op'[q] = op[q]
  /\ op'[p].new \in {0, op[p].new} \cup (Unused \cap live')
  /\ op'[p].old \in {0, op[p].old, rec'}
  /\ op'[p].at \in {"verify", "retire"} /\ op'[p].old # 0 => op'[p].old # boxKey'
  /\ op'[p].at = "retire" => op'[p].old # rec'
  /\ p \in Locked => op'[p].at = "idle" \/ op[p].at # "idle" \/ LockFree
  /\ p = "cli" => op'[p].at # "retire" /\ op'[p].old = 0 /\ op'[p].more = FALSE

MovesKeys(p) ==
  /\ \/ rec' \in {0, rec}
     \/ rec' = op[p].new /\ op'[p].new = 0 /\ live' = live
  /\ boxKey' \in {boxKey, 0, op[p].new}
  /\ \A k \in live : \/ k \in live'
                     \/ k = op[p].new /\ op'[p].new = 0
                     \/ k = op[p].old /\ op[p].at = "retire"

LEMMA MovesPreserve ==
  ASSUME IInv, TypeOK', NEW p \in Programs, MovesOp(p), MovesKeys(p)
  PROVE IInv'
<1>1. \A k \in Unused : /\ k \in Keys /\ k # 0 /\ k # rec
                        /\ \A q \in Programs : k # op[q].new /\ k # op[q].old
  BY KeyAssumption DEF Unused, Held
<1>2. Distinct'
  <2> SUFFICES ASSUME NEW q \in Programs, NEW r \in Programs, q # r, op'[q].new # 0
               PROVE op'[q].new # op'[r].new
    BY DEF Distinct
  <2>1. CASE q = p
    BY <2>1, <1>1 DEF MovesOp, IInv, Distinct
  <2>2. CASE r = p
    BY <2>2, <1>1 DEF MovesOp, IInv, Distinct
  <2>3. CASE q # p /\ r # p
    BY <2>3 DEF MovesOp, IInv, Distinct
  <2> QED BY <2>1, <2>2, <2>3
<1>3. \A q \in Programs : op'[q].new # 0 => op'[q].new # rec'
  BY <1>1 DEF MovesOp, MovesKeys, IInv, Distinct, Unrecorded
<1>4. Apart'
  <2> SUFFICES ASSUME NEW q \in Programs, NEW r \in Programs, op'[q].new # 0
               PROVE op'[q].new # op'[r].old
    BY DEF Apart
  <2>1. CASE r # p
    BY <2>1, <1>1 DEF MovesOp, IInv, Apart
  <2>2. CASE r = p
    BY <2>2, <1>1, <1>3 DEF MovesOp, IInv, Apart
  <2> QED BY <2>1, <2>2
<1>5. Unrecorded'
  <2>1. \A q \in Programs : op'[q].new # 0 => op'[q].new \in live'
    BY <1>1 DEF MovesOp, MovesKeys, IInv, Distinct, Apart, Unrecorded
  <2> QED BY <2>1, <1>3 DEF Unrecorded
<1>6. OldOffBox'
  BY DEF MovesOp, MovesKeys, IInv, Apart, OldOffBox
<1>7. OldReplaced'
  <2> SUFFICES ASSUME NEW q \in Programs, op'[q].at = "retire" PROVE op'[q].old # rec'
    BY DEF OldReplaced
  <2>1. CASE q = p
    BY <2>1 DEF MovesOp
  <2>2. CASE q # p
    <3>1. op'[q] = op[q] /\ op[q].old # rec /\ op[q].old # 0
      BY <2>2, OpFields, KeyAssumption DEF MovesOp, IInv, OldReplaced, TypeOK
    <3>2. op[p].new # 0 => op[p].new # op[q].old
      BY DEF IInv, Apart
    <3> QED BY <3>1, <3>2 DEF MovesKeys
  <2> QED BY <2>1, <2>2
<1>8. OneHolder'
  BY DEF MovesOp, IInv, OneHolder, LockFree, Programs, Locked
<1>9. CliReplacesNothing'
  BY Zenon DEF MovesOp, IInv, CliReplacesNothing, Programs
<1>10. RecordedKeyIsLive'
  <2> SUFFICES ASSUME rec' # 0 PROVE rec' \in live'
    BY DEF RecordedKeyIsLive
  <2>1. CASE rec' = rec
    <3>1. rec \in live /\ rec # op[p].new /\ (op[p].at = "retire" => rec # op[p].old)
      BY <2>1 DEF IInv, RecordedKeyIsLive, Unrecorded, OldReplaced
    <3> QED BY <2>1, <3>1 DEF MovesKeys
  <2>2. CASE rec' = op[p].new /\ live' = live
    BY <2>2 DEF IInv, Unrecorded
  <2> QED BY <2>1, <2>2 DEF MovesKeys
<1> QED BY <1>2, <1>4, <1>5, <1>6, <1>7, <1>8, <1>9, <1>10 DEF IInv

LEMMA UpdateOne ==
  ASSUME op \in [Programs -> Ops], NEW p \in Programs, NEW o, op' = [op EXCEPT ![p] = o]
  PROVE op'[p] = o /\ \A q \in Programs \ {p} : op'[q] = op[q]
BY Zenon

\* Moving an operation on leaves its keys.
LEMMA MoveOn ==
  ASSUME NEW o \in Ops, NEW stage
  PROVE LET n == [o EXCEPT !.at = stage]
        IN n.at = stage /\ n.new = o.new /\ n.old = o.old /\ n.more = o.more
<1>1. CASE o \in [at : {"idle", "create", "seed", "verify", "revoke"}, new : Keys \cup {0},
                  old : Keys \cup {0}, more : BOOLEAN]
  BY <1>1
<1>2. CASE o \in [at : {"retire"}, new : {0}, old : Keys, more : {FALSE}]
  BY <1>2
<1> QED BY <1>1, <1>2 DEF Ops

LEMMA StartSeed ==
  ASSUME NEW o \in Ops, NEW new
  PROVE LET n == [o EXCEPT !.at = "seed", !.new = new]
        IN n.at = "seed" /\ n.new = new /\ n.old = o.old /\ n.more = o.more
<1>1. CASE o \in [at : {"idle", "create", "seed", "verify", "revoke"}, new : Keys \cup {0},
                  old : Keys \cup {0}, more : BOOLEAN]
  BY <1>1
<1>2. CASE o \in [at : {"retire"}, new : {0}, old : Keys, more : {FALSE}]
  BY <1>2
<1> QED BY <1>1, <1>2 DEF Ops

\* What is left when a mint is over: nothing, or the tick's rotation.
LEMMA OverLeaves ==
  ASSUME IInv, NEW p \in Programs, NEW row \in Maybe, NEW latched \in BOOLEAN
  PROVE \/ Over(p, row, latched) = Doing("create", 0, row, FALSE) /\ p # "cli"
        \/ Over(p, row, latched) = Doing("idle", 0, 0, FALSE)
BY Zenon DEF Over, Idle, IInv, CliReplacesNothing

LEMMA StepMoves ==
  ASSUME IInv, NEW p \in Programs, Step(p) \/ Crash(p)
  PROVE MovesOp(p) /\ MovesKeys(p)
<1>o. op \in [Programs -> Ops] /\ op[p] \in Ops
  BY DEF IInv, TypeOK
<1>c. p = "cli" => op[p].at # "retire" /\ op[p].old = 0 /\ op[p].more = FALSE
  BY DEF IInv, CliReplacesNothing
<1>n. op[p].old # 0 => op[p].old # op[p].new
  BY DEF IInv, Apart
<1>r. rec \in Maybe /\ op[p].new \in Maybe
  BY <1>o, OpFields DEF IInv, TypeOK, Maybe
<1>1. CASE Create(p)
  <2>1. PICK k \in Unused : Created(k) /\ op' = [op EXCEPT ![p].at = "seed", ![p].new = k]
    BY <1>1 DEF Create, First
  <2>2. op' = [op EXCEPT ![p] = [op[p] EXCEPT !.at = "seed", !.new = k]]
    BY <2>1, <1>o
  <2>3. op'[p] = [op[p] EXCEPT !.at = "seed", !.new = k] /\ \A q \in Programs \ {p} : op'[q] = op[q]
    BY <2>2, <1>o, UpdateOne
  <2>4. op'[p].at = "seed" /\ op'[p].new = k /\ op'[p].old = op[p].old /\ op'[p].more = op[p].more
    BY <2>3, <1>o, StartSeed
  <2>5. MovesOp(p)
    BY <1>1, <1>c, <2>1, <2>3, <2>4 DEF Create, Created, MovesOp
  <2> QED BY <1>1, <2>1, <2>5 DEF Create, Created, MovesKeys
<1>2. CASE CreateFails(p)
  <2>1. PICK latched \in BOOLEAN : op' = [op EXCEPT ![p] = Over(p, rec, latched)]
    BY <1>2 DEF CreateFails
  <2>2. op'[p] = Over(p, rec, latched) /\ \A q \in Programs \ {p} : op'[q] = op[q]
    BY <2>1, <1>o, UpdateOne
  <2>3. /\ op'[p].new = 0 /\ op'[p].old \in {0, rec} /\ op'[p].at \in {"idle", "create"}
        /\ p = "cli" => op'[p].old = 0 /\ op'[p].more = FALSE
    BY <2>2, <1>r, OverLeaves DEF Doing
  <2>4. op[p].at # "idle" /\ rec' = rec
    BY <1>2 DEF CreateFails
  <2>5. MovesOp(p)
    BY <2>2, <2>3, <2>4 DEF MovesOp
  <2> QED BY <1>2, <2>3, <2>5 DEF CreateFails, MovesKeys, Created
<1>3. CASE Seed(p)
  <2>1. op' = [op EXCEPT ![p] = [op[p] EXCEPT !.at = "verify"]] /\ op[p].at = "seed"
    BY <1>3, Zenon DEF Seed
  <2>2. op'[p] = [op[p] EXCEPT !.at = "verify"] /\ \A q \in Programs \ {p} : op'[q] = op[q]
    BY <2>1, <1>o, UpdateOne
  <2>3. op'[p].at = "verify" /\ op'[p].new = op[p].new /\ op'[p].old = op[p].old /\ op'[p].more = op[p].more
    BY <2>2, <1>o, MoveOn
  <2>4. MovesOp(p)
    BY <1>3, <1>c, <1>n, <2>1, <2>2, <2>3 DEF Seed, MovesOp
  <2> QED BY <1>3, <2>4 DEF Seed, MovesKeys, RowAfterSeed
<1>4. CASE SeedFails(p)
  <2>1. op' = [op EXCEPT ![p] = [op[p] EXCEPT !.at = "revoke"]] /\ op[p].at = "seed"
    BY <1>4, Zenon DEF SeedFails, AfterFailedSeed
  <2>2. op'[p] = [op[p] EXCEPT !.at = "revoke"] /\ \A q \in Programs \ {p} : op'[q] = op[q]
    BY <2>1, <1>o, UpdateOne
  <2>3. op'[p].at = "revoke" /\ op'[p].new = op[p].new /\ op'[p].old = op[p].old /\ op'[p].more = op[p].more
    BY <2>2, <1>o, MoveOn
  <2>4. MovesOp(p)
    BY <1>4, <1>c, <2>1, <2>2, <2>3 DEF SeedFails, MovesOp
  <2> QED BY <1>4, <2>4 DEF SeedFails, MovesKeys
<1>5. CASE Verify(p)
  <2>1. op'[p] = AfterRecord(p, rec') /\ \A q \in Programs \ {p} : op'[q] = op[q]
    BY <1>5, <1>o, UpdateOne DEF Verify
  <2>2. op[p].at = "verify" /\ rec' \in {rec, op[p].new} /\ live' = live /\ boxKey' = boxKey
    BY <1>5 DEF Verify
  <2>3. CASE op[p].old = 0
    <3>1. op'[p] = Over(p, rec', FALSE)
      BY <2>1, <2>3 DEF AfterRecord
    <3>2. /\ op'[p].new = 0 /\ op'[p].old \in {0, rec'} /\ op'[p].at \in {"idle", "create"}
          /\ p = "cli" => op'[p].old = 0 /\ op'[p].more = FALSE
      <4>1. rec' \in Maybe
        BY <1>r, <2>2
      <4>2. \/ Over(p, rec', FALSE) = Doing("create", 0, rec', FALSE) /\ p # "cli"
            \/ Over(p, rec', FALSE) = Doing("idle", 0, 0, FALSE)
        BY <4>1, OverLeaves
      <4>3. \/ op'[p] = Doing("create", 0, rec', FALSE) /\ p # "cli"
            \/ op'[p] = Doing("idle", 0, 0, FALSE)
        BY <3>1, <4>2, Zenon
      <4> QED BY <4>3 DEF Doing
    <3> QED BY <2>1, <2>2, <3>2 DEF MovesOp, MovesKeys
  <2>4. CASE op[p].old # 0
    <3>1. op'[p] = Doing("retire", 0, op[p].old, FALSE)
      BY <2>1, <2>4 DEF AfterRecord
    <3>2. op'[p].at = "retire" /\ op'[p].new = 0 /\ op'[p].old = op[p].old
      BY <3>1 DEF Doing
    <3>3. p # "cli" /\ rec' = op[p].new
      BY <1>5, <1>c, <2>4 DEF Verify, Programs, Locked
    <3>4. op[p].old # boxKey
      BY <2>2, <2>4 DEF IInv, OldOffBox
    <3> QED BY <1>n, <2>1, <2>2, <2>4, <3>2, <3>3, <3>4 DEF MovesOp, MovesKeys
  <2> QED BY <2>3, <2>4
<1>6. CASE VerifyFails(p)
  <2>1. op' = [op EXCEPT ![p] = [op[p] EXCEPT !.at = "revoke"]] /\ op[p].at = "verify"
    BY <1>6, Zenon DEF VerifyFails
  <2>2. op'[p] = [op[p] EXCEPT !.at = "revoke"] /\ \A q \in Programs \ {p} : op'[q] = op[q]
    BY <2>1, <1>o, UpdateOne
  <2>3. op'[p].at = "revoke" /\ op'[p].new = op[p].new /\ op'[p].old = op[p].old /\ op'[p].more = op[p].more
    BY <2>2, <1>o, MoveOn
  <2>4. MovesOp(p)
    BY <1>6, <1>c, <2>1, <2>2, <2>3 DEF VerifyFails, MovesOp
  <2> QED BY <1>6, <2>4 DEF VerifyFails, MovesKeys
<1>7. CASE Revoke(p) \/ RevokeFails(p)
  <2>1. PICK latched \in BOOLEAN : op' = [op EXCEPT ![p] = Over(p, rec, latched)]
    BY <1>7 DEF Revoke, RevokeFails
  <2>2. op'[p] = Over(p, rec, latched) /\ \A q \in Programs \ {p} : op'[q] = op[q]
    BY <2>1, <1>o, UpdateOne
  <2>3. /\ op'[p].new = 0 /\ op'[p].old \in {0, rec} /\ op'[p].at \in {"idle", "create"}
        /\ p = "cli" => op'[p].old = 0 /\ op'[p].more = FALSE
    BY <2>2, <1>r, OverLeaves DEF Doing
  <2>4. op[p].at # "idle" /\ rec' = rec
    BY <1>7 DEF Revoke, RevokeFails
  <2>5. MovesOp(p)
    BY <2>2, <2>3, <2>4 DEF MovesOp
  <2> QED BY <1>7, <2>3, <2>5 DEF Revoke, RevokeFails, MovesKeys
<1>8. CASE RevokeOld(p) \/ Crash(p)
  <2>1. op'[p] = Idle /\ \A q \in Programs \ {p} : op'[q] = op[q]
    BY <1>8, <1>o, UpdateOne DEF RevokeOld, Crash
  <2>2. op'[p].at = "idle" /\ op'[p].new = 0 /\ op'[p].old = 0 /\ op'[p].more = FALSE
    BY <2>1 DEF Idle, Doing
  <2> QED BY <1>8, <2>1, <2>2 DEF RevokeOld, Crash, MovesOp, MovesKeys
<1> QED BY <1>1, <1>2, <1>3, <1>4, <1>5, <1>6, <1>7, <1>8 DEF Step

\* A program starts on a lock nobody holds, or without one.
LEMMA StartMoves ==
  ASSUME IInv
  PROVE /\ TickStart => MovesOp("tick") /\ MovesKeys("tick")
        /\ ApiRotate => MovesOp("api") /\ MovesKeys("api")
        /\ CliMint => MovesOp("cli") /\ MovesKeys("cli")
<1>o. op \in [Programs -> Ops] /\ {"tick", "api", "cli"} \subseteq Programs /\ "cli" \notin Locked
  BY DEF IInv, TypeOK, Programs, Locked
<1>1. ASSUME TickStart PROVE MovesOp("tick") /\ MovesKeys("tick")
  <2>1. PICK mint \in BOOLEAN, rotate \in BOOLEAN :
          op' = [op EXCEPT !["tick"] = Doing("create", 0, IF mint THEN 0 ELSE rec, mint /\ rotate)]
    BY <1>1 DEF TickStart
  <2>2. /\ op'["tick"] = Doing("create", 0, IF mint THEN 0 ELSE rec, mint /\ rotate)
        /\ \A q \in Programs \ {"tick"} : op'[q] = op[q]
    BY <2>1, <1>o, UpdateOne
  <2>3. op'["tick"].at = "create" /\ op'["tick"].new = 0 /\ op'["tick"].old \in {0, rec}
    BY <2>2 DEF Doing
  <2> QED BY <1>1, <2>2, <2>3 DEF TickStart, MovesOp, MovesKeys
<1>2. ASSUME ApiRotate PROVE MovesOp("api") /\ MovesKeys("api")
  <2>1. op'["api"] = Doing("create", 0, rec, FALSE) /\ \A q \in Programs \ {"api"} : op'[q] = op[q]
    BY <1>2, <1>o, UpdateOne DEF ApiRotate
  <2>2. op'["api"].at = "create" /\ op'["api"].new = 0 /\ op'["api"].old = rec
    BY <2>1 DEF Doing
  <2> QED BY <1>2, <2>1, <2>2 DEF ApiRotate, MovesOp, MovesKeys
<1>3. ASSUME CliMint PROVE MovesOp("cli") /\ MovesKeys("cli")
  <2>1. op'["cli"] = Doing("create", 0, 0, FALSE) /\ \A q \in Programs \ {"cli"} : op'[q] = op[q]
    BY <1>3, <1>o, UpdateOne DEF CliMint
  <2>2. op'["cli"].at = "create" /\ op'["cli"].new = 0 /\ op'["cli"].old = 0 /\ op'["cli"].more = FALSE
    BY <2>1 DEF Doing
  <2> QED BY <1>3, <1>o, <2>1, <2>2 DEF CliMint, MovesOp, MovesKeys
<1> QED BY <1>1, <1>2, <1>3

LEMMA InvPreserved == IInv /\ [Next]_vars => IInv'
<1> SUFFICES ASSUME IInv, [Next]_vars PROVE IInv'
  OBVIOUS
<1>t. TypeOK'
  BY TypePreserved DEF IInv
<1>p. "tick" \in Programs /\ "api" \in Programs /\ "cli" \in Programs
  BY DEF Programs
<1>1. CASE TickStart \/ ApiRotate \/ CliMint
  BY <1>1, <1>t, <1>p, StartMoves, MovesPreserve
<1>2. ASSUME NEW p \in Programs, Step(p) \/ Crash(p) PROVE IInv'
  BY <1>2, <1>t, StepMoves, MovesPreserve
<1>3. CASE NodeLost \/ Rejoin \/ Reimage \/ Rebind \/ ForgetKey \/ TimePasses \/ UNCHANGED vars
  <2>1. op' = op /\ live' = live /\ rec' \in {0, rec} /\ boxKey' \in {0, boxKey}
    BY <1>3 DEF NodeLost, Rejoin, Reimage, Rebind, ForgetKey, TimePasses, Forgotten, vars
  <2>2. op["cli"].at # "retire" /\ op["cli"].old = 0 /\ op["cli"].more = FALSE
    BY DEF IInv, CliReplacesNothing
  <2>3. MovesOp("cli") /\ MovesKeys("cli")
    BY <2>1, <2>2, <1>p DEF MovesOp, MovesKeys, Locked
  <2> QED BY <2>3, <1>p, <1>t, MovesPreserve
<1> QED BY <1>1, <1>2, <1>3 DEF Next

LEMMA InvInit == Init => IInv
<1> SUFFICES ASSUME Init PROVE IInv
  OBVIOUS
<1>1. \A p \in Programs : op[p].at = "idle" /\ op[p].new = 0 /\ op[p].old = 0 /\ op[p].more = FALSE
  BY DEF Init, Idle, Doing
<1>2. Idle \in Ops
  BY DoingTyped, Zero DEF Idle, Minting
<1>3. TypeOK
  BY <1>2, KeyAssumption DEF Init, TypeOK
<1>4. Distinct /\ Apart /\ Unrecorded /\ OldOffBox /\ OldReplaced
  BY <1>1 DEF Distinct, Apart, Unrecorded, OldOffBox, OldReplaced
<1>5. OneHolder /\ CliReplacesNothing
  BY <1>1 DEF OneHolder, CliReplacesNothing, Programs
<1> QED BY <1>3, <1>4, <1>5 DEF IInv, RecordedKeyIsLive, Init

LEMMA InvAlways == Spec => []IInv
BY InvInit, InvPreserved, PTL DEF Spec

\* The keys, the box and the programs keep their types.
THEOREM KeysTypeCorrect == Spec => []TypeOK
<1>1. IInv => TypeOK
  BY DEF IInv
<1> QED BY <1>1, InvAlways, PTL

\* However mints, rotations, faults and crashes interleave, the key the store
\* names has not been deleted at Tailscale.
THEOREM RecordedStaysLive == Spec => []RecordedKeyIsLive
<1>1. IInv => RecordedKeyIsLive
  BY DEF IInv
<1> QED BY <1>1, InvAlways, PTL

\* A rotation deletes the old key only when the box no longer holds it.
THEOREM RotationSparesBox == Spec => []OldKeyLeftBox
<1>1. IInv => OldKeyLeftBox
  <2> SUFFICES ASSUME IInv, NEW p \in Programs, op[p].at = "retire"
               PROVE op[p].old # boxKey
    BY DEF OldKeyLeftBox
  <2>1. op[p].old # 0
    BY OpFields, KeyAssumption DEF IInv, TypeOK
  <2> QED BY <2>1 DEF IInv, OldOffBox
<1> QED BY <1>1, InvAlways, PTL

-----------------------------------------------------------------------------
\* The books of the keys nobody remembers.  Loose has what Unaccounted has and
\* what the CLI is about to leave: it knows its key, and no row will name it.
Loose ==
  {k \in live : /\ Fresh(k) /\ k # rec
                /\ \A p \in Locked : op[p].new # k
                /\ \A p \in Programs : op[p].at = "retire" => op[p].old # k}

\* The operator's mint has been counted and its key is not made yet.
Pending == IF op["cli"].at = "create" THEN 1 ELSE 0
Spent == faults + crashes + letGo

Ledger == Cardinality(Loose) + Pending <= Spent

\* A mint that holds the lock replaces the row's key or finds it worthless.
RowCovered ==
  \A p \in Locked : op[p].at \in {"create", "seed", "verify"} => rec \in {0, op[p].old} \/ ~Fresh(rec)

NotMadeYet == \A p \in Programs : op[p].at \in {"idle", "create"} => op[p].new = 0

KeyBooks == IInv /\ NotMadeYet /\ RowCovered /\ IsFiniteSet(live) /\ Ledger

\* A step that loosens nothing costs nothing, and one that loosens a key is paid
\* for by a fault, a crash or an operator's step.
LEMMA Balance ==
  ASSUME NEW A, NEW B, NEW x, IsFiniteSet(A),
         NEW p \in Nat, NEW q \in Nat, NEW s \in Nat, NEW t \in Nat,
         Cardinality(A) + p <= s,
         \/ B \subseteq A /\ q + s <= p + t
         \/ B \subseteq A \cup {x} /\ q + 1 + s <= p + t
  PROVE Cardinality(B) + q <= t
<1>1. Cardinality(A) \in Nat
  BY FS_CardinalityType
<1>2. CASE B \subseteq A /\ q + s <= p + t
  <2>1. Cardinality(B) <= Cardinality(A) /\ Cardinality(B) \in Nat
    BY <1>2, FS_Subset, FS_CardinalityType
  <2> QED BY <1>1, <1>2, <2>1
<1>3. CASE B \subseteq A \cup {x} /\ q + 1 + s <= p + t
  <2>1. IsFiniteSet(A \cup {x}) /\ Cardinality(A \cup {x}) <= Cardinality(A) + 1
    <3>1. IsFiniteSet(A \cup {x})
      BY FS_AddElement
    <3>2. Cardinality(A \cup {x}) \in {Cardinality(A), Cardinality(A) + 1}
      BY FS_AddElement, Zenon
    <3> QED BY <3>1, <3>2, <1>1
  <2>2. Cardinality(B) <= Cardinality(A \cup {x}) /\ Cardinality(B) \in Nat
    BY <1>3, <2>1, FS_Subset, FS_CardinalityType
  <2>3. Cardinality(A \cup {x}) \in Nat
    BY <2>1, FS_CardinalityType
  <2> QED BY <1>1, <1>3, <2>1, <2>2, <2>3
<1> QED BY <1>2, <1>3

LEMMA SumIsNat ==
  ASSUME NEW a \in Nat, NEW b \in Nat, NEW c \in Nat
  PROVE a + b + c \in Nat
OBVIOUS

LEMMA SpentIsNat ==
  ASSUME TypeOK
  PROVE Spent \in Nat
BY DEF TypeOK, Spent

LEMMA BooksBalance ==
  ASSUME KeyBooks, TypeOK', NEW x,
         \/ Loose' \subseteq Loose /\ Pending' + Spent <= Pending + Spent'
         \/ Loose' \subseteq Loose \cup {x} /\ Pending' + 1 + Spent <= Pending + Spent'
  PROVE Ledger'
<1>1. IsFiniteSet(Loose)
  <2>1. Loose \subseteq live
    BY DEF Loose
  <2> QED BY <2>1, FS_Subset DEF KeyBooks
<1>2. Spent \in Nat /\ Spent' \in Nat
  <2>1. TypeOK
    BY DEF KeyBooks, IInv
  <2>2. Spent \in Nat
    BY <2>1, SpentIsNat
  <2>3. faults' \in Nat /\ crashes' \in Nat /\ letGo' \in Nat
    BY Zenon DEF TypeOK
  <2>4. faults' + crashes' + letGo' \in Nat
    BY <2>3, SumIsNat, Zenon
  <2>5. Spent' = faults' + crashes' + letGo'
    BY Zenon DEF Spent
  <2> QED BY <2>2, <2>4, <2>5, Zenon
<1>3. Pending \in Nat /\ Pending' \in Nat
  BY DEF Pending
<1>4. Cardinality(Loose) + Pending <= Spent
  BY DEF KeyBooks, Ledger
<1>5. Cardinality(Loose') + Pending' <= Spent'
  BY <1>1, <1>2, <1>3, <1>4, Balance
<1> QED BY <1>5 DEF Ledger

\* A key that was fresh, unrecorded and not p's before p moved was loose already.
LEMMA WasLoose ==
  ASSUME NEW p \in Programs, \A q \in Programs \ {p} : op'[q] = op[q],
         NEW k \in Loose', k \in live, Fresh(k), k # rec,
         p \in Locked => op[p].new # k,
         op[p].at = "retire" => op[p].old # k
  PROVE k \in Loose
<1>1. \A q \in Locked : op[q].new # k
  BY DEF Loose, Locked, Programs
<1>2. \A q \in Programs : op[q].at = "retire" => op[q].old # k
  BY DEF Loose
<1> QED BY <1>1, <1>2 DEF Loose

\* What a key that is loose now has been spared.
LEMMA LooseNow ==
  ASSUME NEW k \in Loose'
  PROVE /\ k \in live' /\ Fresh(k)' /\ k # rec'
        /\ \A q \in Locked : op'[q].new # k
        /\ \A q \in Programs : op'[q].at = "retire" => op'[q].old # k
BY DEF Loose

LEMMA PaidFor ==
  ASSUME NEW p \in Nat, NEW q \in Nat, NEW s \in Nat, NEW t, q <= p
  PROVE /\ t \in Nat /\ s <= t => q + s <= p + t
        /\ t = s + 1 => q + 1 + s <= p + t
OBVIOUS

LEMMA MoreSpent ==
  ASSUME NEW p \in Nat, NEW s \in Nat, NEW t \in Nat, s <= t
  PROVE p + s <= p + t
OBVIOUS

LEMMA NewAndOld ==
  ASSUME NEW o \in Ops
  PROVE o.new \in Maybe /\ (o.at = "retire" => o.new = 0)
BY DEF Ops, Maybe

LEMMA StepBooks ==
  ASSUME KeyBooks, NEW p \in Programs, Step(p) \/ Crash(p)
  PROVE \E x : \/ Loose' \subseteq Loose /\ Pending' + Spent <= Pending + Spent'
               \/ Loose' \subseteq Loose \cup {x} /\ Pending' + 1 + Spent <= Pending + Spent'
<1>o. op \in [Programs -> Ops] /\ op[p] \in Ops /\ rec \in Maybe
  BY DEF KeyBooks, IInv, TypeOK, Maybe
<1>x. /\ rec \in Maybe /\ op[p].new \in Maybe
      /\ op[p].at = "retire" => op[p].new = 0
  <2>1. op[p] \in Ops
    BY <1>o
  <2> QED BY <2>1, <1>o, NewAndOld, Zenon
<1>i. IInv
  BY DEF KeyBooks
<1>q. \A q \in Programs \ {p} : op'[q] = op[q]
  BY <1>i, StepMoves DEF MovesOp
<1>n. faults \in Nat /\ crashes \in Nat /\ letGo \in Nat
  BY <1>i DEF IInv, TypeOK
<1>f. clock' = clock /\ letGo' = letGo
  BY Zenon DEF Step, Create, CreateFails, Seed, SeedFails, Verify, VerifyFails, Revoke,
       RevokeFails, RevokeOld, Crash
<1>l. "cli" \in Programs /\ "cli" \notin Locked
  BY DEF Programs, Locked
<1>g. ASSUME born' = born PROVE \A k : Fresh(k)' = Fresh(k)
  BY <1>g, <1>f, Zenon DEF Fresh, Left
<1>m. ASSUME NEW latched \in BOOLEAN, op'[p] = Over(p, rec', latched), rec' \in Maybe
      PROVE /\ op'[p].new = 0 /\ op'[p].at \in {"idle", "create"} /\ op'[p].old \in {0, rec'}
            /\ p = "cli" => op'[p].at = "idle"
            /\ op'[p].at = "create" => op'[p].old = rec'
  <2>1. \/ Over(p, rec', latched) = Doing("create", 0, rec', FALSE) /\ p # "cli"
        \/ Over(p, rec', latched) = Doing("idle", 0, 0, FALSE)
    BY <1>i, <1>m, OverLeaves
  <2>2. \/ op'[p] = Doing("create", 0, rec', FALSE) /\ p # "cli"
        \/ op'[p] = Doing("idle", 0, 0, FALSE)
    BY <2>1, <1>m, Zenon
  <2> QED BY <2>2 DEF Doing
<1>1. CASE Create(p)
  <2>1. PICK k \in Unused : Created(k) /\ op' = [op EXCEPT ![p].at = "seed", ![p].new = k]
    BY <1>1 DEF Create, First
  <2>2. op' = [op EXCEPT ![p] = [op[p] EXCEPT !.at = "seed", !.new = k]]
    BY <2>1, <1>o
  <2>3. op'[p].at = "seed" /\ op'[p].new = k
    BY <2>2, <1>o, UpdateOne, StartSeed
  <2>4. op[p].at = "create" /\ op[p].new = 0 /\ rec' = rec /\ faults' = faults /\ crashes' = crashes
    BY <1>1, Zenon DEF Create, KeyBooks, NotMadeYet
  <2>5. \A j \in live' \ {k} : j \in live /\ (Fresh(j)' => Fresh(j))
    <3> SUFFICES ASSUME NEW j \in live', j # k PROVE j \in live /\ (Fresh(j)' => Fresh(j))
      OBVIOUS
    <3>1. j \in live /\ j \in Keys
      BY <2>1, <1>i DEF Created, IInv, TypeOK
    <3>2. born'[j] = born[j]
      BY <2>1, <3>1, <1>i DEF Created, IInv, TypeOK
    <3> QED BY <3>1, <3>2, <1>f DEF Fresh, Left
  <2>6. \A j \in Loose' : j # k => j \in Loose
    <3> SUFFICES ASSUME NEW j \in Loose', j # k PROVE j \in Loose
      OBVIOUS
    <3>1. j \in live /\ Fresh(j) /\ j # rec
      BY <2>5, <2>4, LooseNow
    <3>2. j # 0
      BY <3>1 DEF Fresh
    <3> QED BY <3>1, <3>2, <2>4, <1>q, WasLoose
  <2>7. CASE p = "cli"
    <3>1. Pending = 1 /\ Pending' = 0
      BY <2>3, <2>4, <2>7 DEF Pending
    <3>2. Spent' = Spent
      BY <2>4, <1>f DEF Spent
    <3>3. Spent \in Nat
      BY <1>i, SpentIsNat DEF IInv
    <3> QED BY <2>6, <3>1, <3>2, <3>3
  <2>8. CASE p # "cli"
    <3>1. k \notin Loose'
      BY <2>3, <2>8, LooseNow DEF Programs, Locked
    <3>2. Pending' = Pending
      BY <2>8, <1>q, <1>l DEF Pending
    <3>3. Spent' = Spent /\ Spent \in Nat /\ Pending \in Nat
      BY <2>4, <1>f, <1>i, SpentIsNat DEF Spent, IInv, Pending
    <3>4. Loose' \subseteq Loose
      BY <2>6, <3>1
    <3> QED BY <3>2, <3>3, <3>4
  <2> QED BY <2>7, <2>8
<1>s. Spent \in Nat /\ Pending \in Nat /\ Pending' \in Nat
  BY <1>i, SpentIsNat DEF IInv, Pending
<1>e. ASSUME born' = born, live' \subseteq live, NEW j \in Loose', j # rec,
             p \in Locked => op[p].new # j, op[p].at = "retire" => op[p].old # j
      PROVE j \in Loose
  <2>1. j \in live /\ Fresh(j)
    BY <1>e, <1>g, LooseNow
  <2> QED BY <1>e, <2>1, <1>q, WasLoose
<1>2. CASE CreateFails(p)
  <2>1. PICK latched \in BOOLEAN : op' = [op EXCEPT ![p] = Over(p, rec, latched)]
    BY <1>2 DEF CreateFails
  <2>2. op'[p] = Over(p, rec, latched)
    BY <2>1, <1>o, UpdateOne
  <2>3. op[p].at = "create" /\ rec' = rec /\ crashes' = crashes /\ faults' = faults + 1
    BY <1>2, Zenon DEF CreateFails, Fault
  <2>4. op[p].new = 0 /\ op'[p].new = 0 /\ (p = "cli" => op'[p].at = "idle")
    <3>1. op[p].new = 0
      BY <2>3, Zenon DEF KeyBooks, NotMadeYet
    <3> QED BY <3>1, <2>2, <2>3, <1>m, <1>o
  <2>5. PICK k : /\ live' \subseteq live \cup {k}
                 /\ \A j \in live' \ {k} : Fresh(j)' => Fresh(j)
    <3>1. CASE UNCHANGED <<born, live>>
      BY <3>1, <1>g
    <3>2. CASE \E k \in First(Unused) : Created(k)
      <4>1. PICK k \in Keys : Created(k)
        BY <3>2 DEF First, Unused
      <4>2. \A j \in live' \ {k} : j \in Keys /\ born'[j] = born[j]
        BY <4>1, <1>i DEF Created, IInv, TypeOK
      <4> QED BY <4>1, <4>2, <1>f DEF Created, Fresh, Left
    <3> QED BY <1>2, <3>1, <3>2 DEF CreateFails
  <2>6. \A j \in Loose' : j # k => j \in Loose
    <3> SUFFICES ASSUME NEW j \in Loose', j # k PROVE j \in Loose
      OBVIOUS
    <3>1. j \in live /\ Fresh(j) /\ j # rec
      BY <2>5, <2>3, LooseNow
    <3>2. j # 0
      BY <3>1 DEF Fresh
    <3> QED BY <3>1, <3>2, <2>3, <2>4, <1>q, WasLoose
  <2>7. Pending' <= Pending
    BY <2>3, <2>4, <1>q, <1>l DEF Pending
  <2>8. Spent' = Spent + 1
    BY <2>3, <1>f, <1>n DEF Spent
  <2>9. Pending' + 1 + Spent <= Pending + Spent'
    BY <2>7, <2>8, <1>s, PaidFor, Zenon
  <2> QED BY <2>6, <2>9
<1>3. CASE Seed(p) \/ SeedFails(p) \/ VerifyFails(p)
  <2>1. PICK stage : op' = [op EXCEPT ![p] = [op[p] EXCEPT !.at = stage]] /\ stage \in {"verify", "revoke"}
    <3>1. CASE Seed(p)
      BY <3>1, Zenon DEF Seed
    <3>2. CASE SeedFails(p)
      BY <3>2, Zenon DEF SeedFails, AfterFailedSeed
    <3>3. CASE VerifyFails(p)
      BY <3>3, Zenon DEF VerifyFails
    <3> QED BY <1>3, <3>1, <3>2, <3>3
  <2>2. op'[p].at = stage /\ op'[p].new = op[p].new
    BY <2>1, <1>o, UpdateOne, MoveOn
  <2>3. /\ op[p].at \in {"seed", "verify"} /\ rec' = rec /\ born' = born /\ live' = live
        /\ crashes' = crashes
    BY <1>3, Zenon DEF Seed, SeedFails, VerifyFails, RowAfterSeed
  <2>4. faults' \in Nat /\ faults <= faults'
    BY <1>3, <1>n DEF Seed, SeedFails, VerifyFails, Fault
  <2>5. Loose' \subseteq Loose
    <3> SUFFICES ASSUME NEW j \in Loose' PROVE j \in Loose
      OBVIOUS
    <3>1. j # rec /\ (p \in Locked => op[p].new # j)
      BY <2>2, <2>3, LooseNow
    <3> QED BY <3>1, <2>3, <1>e
  <2>6. Pending' = Pending
    BY <2>1, <2>2, <2>3, <1>q, <1>l DEF Pending
  <2>7. Spent' \in Nat /\ Spent <= Spent'
    BY <2>3, <2>4, <1>f, <1>n DEF Spent
  <2>8. Pending' + Spent <= Pending + Spent'
    <3>1. Pending + Spent <= Pending + Spent'
      BY <2>7, <1>s, MoreSpent, Zenon
    <3> QED BY <3>1, <2>6, Zenon
  <2> QED BY <2>5, <2>8
<1>4. CASE Verify(p)
  <2>1. op'[p] = AfterRecord(p, rec')
    BY <1>4, <1>o, UpdateOne DEF Verify
  <2>2. /\ op[p].at = "verify" /\ rec' = IF p \in Locked THEN op[p].new ELSE rec
        /\ live' = live /\ born' = born /\ crashes' = crashes /\ faults' = faults
    BY <1>4, Zenon DEF Verify
  <2>3. rec' \in Maybe
    BY <2>2, <1>x
  <2>4. /\ p = "cli" => op'[p].at = "idle"
        /\ op[p].old # 0 => op'[p].at = "retire" /\ op'[p].old = op[p].old
    <3>1. CASE op[p].old = 0
      BY <3>1, <2>1, <2>3, <1>m DEF AfterRecord
    <3>2. CASE op[p].old # 0
      BY <3>2, <2>1, <1>i DEF AfterRecord, Doing, IInv, CliReplacesNothing
    <3> QED BY <3>1, <3>2
  <2>5. Loose' \subseteq Loose
    <3> SUFFICES ASSUME NEW j \in Loose' PROVE j \in Loose
      OBVIOUS
    <3>1. CASE p \notin Locked
      BY <3>1, <2>2, <1>e, LooseNow
    <3>2. CASE p \in Locked
      <4>1. j # op[p].new
        BY <3>2, <2>2, LooseNow
      <4>2. rec \in {0, op[p].old} \/ ~Fresh(rec)
        BY <3>2, <2>2 DEF KeyBooks, RowCovered
      <4>3. Fresh(j) /\ j # 0
        BY <2>2, <1>g, LooseNow DEF Fresh
      <4>4. j # rec
        BY <4>2, <4>3, <2>4, LooseNow
      <4> QED BY <4>1, <4>4, <2>2, <1>e
    <3> QED BY <3>1, <3>2
  <2>6. Pending' = Pending
    BY <2>2, <2>4, <1>q, <1>l DEF Pending
  <2>7. Spent' = Spent
    BY <2>2, <1>f DEF Spent
  <2> QED BY <2>5, <2>6, <2>7, <1>s
<1>5. CASE Revoke(p) \/ RevokeFails(p)
  <2>1. PICK latched \in BOOLEAN : op' = [op EXCEPT ![p] = Over(p, rec, latched)]
    BY <1>5 DEF Revoke, RevokeFails
  <2>2. op'[p] = Over(p, rec, latched)
    BY <2>1, <1>o, UpdateOne
  <2>3. /\ op[p].at = "revoke" /\ rec' = rec /\ born' = born /\ crashes' = crashes
        /\ live' \subseteq live
    BY <1>5 DEF Revoke, RevokeFails
  <2>4. p = "cli" => op'[p].at = "idle"
    BY <2>2, <2>3, <1>m, <1>o
  <2>5. \A j \in Loose' : j # op[p].new => j \in Loose
    BY <2>3, <1>e, LooseNow
  <2>6. Pending' = Pending
    BY <2>3, <2>4, <1>q, <1>l DEF Pending
  <2>7. CASE Revoke(p)
    <3>1. op[p].new \notin live' /\ Spent' = Spent
      BY <2>7, <2>3, <1>f DEF Revoke, Spent
    <3>2. Loose' \subseteq Loose
      BY <3>1, <2>5, LooseNow
    <3> QED BY <3>1, <3>2, <2>6, <1>s
  <2>8. CASE RevokeFails(p)
    <3>1. Spent' = Spent + 1
      BY <2>8, <2>3, <1>f, <1>n DEF RevokeFails, Fault, Spent
    <3>2. Pending' + 1 + Spent <= Pending + Spent'
      BY <3>1, <2>6, <1>s
    <3> QED BY <3>2, <2>5
  <2> QED BY <1>5, <2>7, <2>8
<1>6. CASE RevokeOld(p)
  <2>1. op'[p] = Idle
    BY <1>6, <1>o, UpdateOne DEF RevokeOld
  <2>2. /\ op[p].at = "retire" /\ op[p].new = 0 /\ rec' = rec /\ born' = born
        /\ crashes' = crashes /\ live' \subseteq live
    BY <1>6, <1>x DEF RevokeOld
  <2>3. op'[p].at = "idle"
    BY <2>1 DEF Idle, Doing
  <2>4. \A j \in Loose' : j # op[p].old => j \in Loose
    <3> SUFFICES ASSUME NEW j \in Loose', j # op[p].old PROVE j \in Loose
      OBVIOUS
    <3>1. j # rec /\ j # 0
      BY <2>2, LooseNow DEF Fresh
    <3> QED BY <3>1, <2>2, <1>e
  <2>5. Pending' = Pending
    BY <2>2, <2>3, <1>q, <1>l DEF Pending
  <2>6. CASE live' = live \ {op[p].old} /\ UNCHANGED faults
    <3>1. Spent' = Spent
      BY <2>2, <2>6, <1>f DEF Spent
    <3>2. Loose' \subseteq Loose
      BY <2>4, <2>6, LooseNow
    <3> QED BY <3>1, <3>2, <2>5, <1>s
  <2>7. CASE live' = live /\ Fault
    <3>1. Spent' = Spent + 1
      BY <2>2, <2>7, <1>f, <1>n DEF Fault, Spent
    <3>2. Pending' + 1 + Spent <= Pending + Spent'
      BY <3>1, <2>5, <1>s
    <3> QED BY <3>2, <2>4
  <2> QED BY <1>6, <2>6, <2>7 DEF RevokeOld
<1>7. CASE Crash(p)
  <2>1. op'[p] = Idle
    BY <1>7, <1>o, UpdateOne DEF Crash
  <2>2. rec' = rec /\ born' = born /\ faults' = faults /\ crashes' = crashes + 1 /\ live' = live
    BY <1>7, Zenon DEF Crash
  <2>3. op'[p].at = "idle"
    BY <2>1 DEF Idle, Doing
  <2>4. PICK x : /\ p \in Locked /\ op[p].at # "retire" => x = op[p].new
                 /\ op[p].at = "retire" => x = op[p].old /\ op[p].new = 0
    <3> QED BY <1>x
  <2>5. \A j \in Loose' : j # x => j \in Loose
    <3> SUFFICES ASSUME NEW j \in Loose', j # x PROVE j \in Loose
      OBVIOUS
    <3>1. j # rec /\ j # 0
      BY <2>2, LooseNow DEF Fresh
    <3> QED BY <3>1, <2>2, <2>4, <1>e
  <2>6. Pending' <= Pending
    BY <2>3, <1>q, <1>l DEF Pending
  <2>7. Spent' = Spent + 1
    BY <2>2, <1>f, <1>n DEF Spent
  <2>8. Pending' + 1 + Spent <= Pending + Spent'
    BY <2>6, <2>7, <1>s, PaidFor, Zenon
  <2> QED BY <2>5, <2>8
<1> QED BY <1>1, <1>2, <1>3, <1>4, <1>5, <1>6, <1>7, Zenon DEF Step

LEMMA KeysKept ==
  ASSUME KeyBooks,
         \/ TickStart \/ ApiRotate \/ CliMint \/ NodeLost \/ Rejoin \/ Reimage
         \/ Rebind \/ ForgetKey \/ TimePasses \/ UNCHANGED vars
  PROVE /\ born' = born /\ live' = live /\ faults' = faults /\ crashes' = crashes
        /\ \A k \in live : Fresh(k)' => Fresh(k)
<1>i. IInv
  BY DEF KeyBooks
<1>b. born' = born /\ live' = live /\ faults' = faults /\ crashes' = crashes /\ clock <= clock'
  <2>1. clock \in Nat
    BY <1>i, KeyAssumption DEF IInv, TypeOK
  <2>2. clock' \in {clock, clock + 1}
    BY Zenon DEF TickStart, ApiRotate, CliMint, NodeLost, Rejoin, Reimage, Rebind,
         ForgetKey, TimePasses, vars
  <2>3. born' = born /\ live' = live /\ faults' = faults /\ crashes' = crashes
    BY Zenon DEF TickStart, ApiRotate, CliMint, NodeLost, Rejoin, Reimage, Rebind,
         ForgetKey, TimePasses, vars
  <2> QED BY <2>1, <2>2, <2>3
<1>g. \A k \in live : Fresh(k)' => Fresh(k)
  <2> SUFFICES ASSUME NEW k \in live, Fresh(k)' PROVE Fresh(k)
    OBVIOUS
  <2>1. born[k] \in Nat /\ clock \in Nat /\ clock' \in Nat /\ Life \in Nat /\ Window \in Nat
    <3>1. clock' \in {clock, clock + 1}
      BY Zenon DEF TickStart, ApiRotate, CliMint, NodeLost, Rejoin, Reimage, Rebind,
           ForgetKey, TimePasses, vars
    <3>2. clock \in Nat /\ born[k] \in Nat
      <4>1. born \in [Keys -> 0..MaxClock] /\ live \in SUBSET Keys /\ clock \in 0..MaxClock
        BY <1>i DEF IInv, TypeOK
      <4>2. born[k] \in 0..MaxClock
        BY <4>1
      <4> QED BY <4>1, <4>2
    <3> QED BY <3>1, <3>2, KeyAssumption
  <2>2. k # 0 /\ born[k] + Life - clock' > Window
    BY <1>b DEF Fresh, Left
  <2> QED BY <2>1, <2>2, <1>b DEF Fresh, Left
<1> QED BY <1>b, <1>g

\* A program that starts, a day that passes and an operator's step.
LEMMA OtherBooks ==
  ASSUME KeyBooks,
         \/ TickStart \/ ApiRotate \/ CliMint \/ NodeLost \/ Rejoin \/ Reimage
         \/ Rebind \/ ForgetKey \/ TimePasses \/ UNCHANGED vars
  PROVE \E x : \/ Loose' \subseteq Loose /\ Pending' + Spent <= Pending + Spent'
               \/ Loose' \subseteq Loose \cup {x} /\ Pending' + 1 + Spent <= Pending + Spent'
<1>i. IInv
  BY DEF KeyBooks
<1>o. op \in [Programs -> Ops] /\ {"tick", "api", "cli"} \subseteq Programs
  BY <1>i DEF IInv, TypeOK, Programs
<1>n. faults \in Nat /\ crashes \in Nat /\ letGo \in Nat
  BY <1>i DEF IInv, TypeOK
<1>s. Spent \in Nat /\ Pending \in Nat /\ Pending' \in Nat
  BY <1>i, SpentIsNat DEF IInv, Pending
<1>b. born' = born /\ live' = live /\ faults' = faults /\ crashes' = crashes
  BY KeysKept
<1>g. \A k \in live : Fresh(k)' => Fresh(k)
  BY KeysKept
<1>1. CASE TickStart \/ ApiRotate \/ CliMint
  <2>1. PICK p \in {"tick", "api", "cli"}, old \in Maybe, more \in BOOLEAN :
          /\ op' = [op EXCEPT ![p] = Doing("create", 0, old, more)] /\ op[p].at = "idle"
          /\ p = "cli" <=> CliMint
    <3>1. rec \in Maybe /\ 0 \in Maybe
      BY <1>i, Zero DEF IInv, TypeOK, Maybe
    <3>2. CASE TickStart
      BY <3>1, <3>2 DEF TickStart, LockFree, Locked, CliMint
    <3>3. CASE ApiRotate
      BY <3>1, <3>3 DEF ApiRotate, LockFree, Locked, CliMint
    <3>4. CASE CliMint
      BY <3>1, <3>4 DEF CliMint
    <3> QED BY <1>1, <3>2, <3>3, <3>4
  <2>2. /\ op'[p].at = "create" /\ op'[p].new = 0 /\ op[p].new = 0
        /\ \A q \in Programs \ {p} : op'[q] = op[q]
    <3>1. op'[p] = Doing("create", 0, old, more) /\ \A q \in Programs \ {p} : op'[q] = op[q]
      BY <2>1, <1>o, UpdateOne
    <3>2. op[p].new = 0
      BY <2>1, <1>o DEF KeyBooks, NotMadeYet
    <3> QED BY <3>1, <3>2 DEF Doing
  <2>3. rec' = rec
    BY <1>1, Zenon DEF TickStart, ApiRotate, CliMint
  <2>4. Loose' \subseteq Loose
    <3> SUFFICES ASSUME NEW j \in Loose' PROVE j \in Loose
      OBVIOUS
    <3>1. j \in live /\ Fresh(j) /\ j # rec /\ j # 0
      BY <1>b, <1>g, <2>3, LooseNow DEF Fresh
    <3> QED BY <3>1, <1>o, <2>1, <2>2, WasLoose
  <2>5. Pending' + Spent <= Pending + Spent'
    <3>1. CASE p = "cli"
      <4>1. Pending = 0 /\ Pending' = 1
        BY <3>1, <2>1, <2>2 DEF Pending
      <4>2. Spent' = Spent + 1
        BY <3>1, <2>1, <1>b, <1>n DEF CliMint, Spent
      <4> QED BY <4>1, <4>2, <1>s
    <3>2. CASE p # "cli"
      <4>1. Pending' = Pending
        BY <3>2, <2>2, <1>o DEF Pending
      <4>2. letGo' = letGo
        BY <3>2, <2>1, <1>1, Zenon DEF TickStart, ApiRotate
      <4>3. Spent' = Spent
        BY <4>2, <1>b DEF Spent
      <4> QED BY <4>1, <4>3, <1>s
    <3> QED BY <3>1, <3>2
  <2> QED BY <2>4, <2>5
<1>2. CASE NodeLost \/ Rejoin \/ Reimage \/ TimePasses \/ UNCHANGED vars
  <2>1. op' = op /\ rec' = rec /\ letGo' = letGo
    BY <1>2, Zenon DEF NodeLost, Rejoin, Reimage, TimePasses, vars
  <2>2. Loose' \subseteq Loose
    BY <2>1, <1>b, <1>g DEF Loose
  <2>3. Pending' = Pending /\ Spent' = Spent
    BY <2>1, <1>b DEF Pending, Spent
  <2> QED BY <2>2, <2>3, <1>s
<1>3. CASE Rebind \/ ForgetKey
  <2>1. op' = op /\ rec' = 0 /\ letGo' = letGo + 1
    BY <1>3, Zenon DEF Rebind, ForgetKey, Forgotten
  <2>2. Loose' \subseteq Loose \cup {rec}
    BY <2>1, <1>b, <1>g DEF Loose
  <2>3. Pending' <= Pending
    BY <2>1 DEF Pending
  <2>4. Spent' = Spent + 1
    BY <2>1, <1>b, <1>n DEF Spent
  <2>5. Pending' + 1 + Spent <= Pending + Spent'
    BY <2>3, <2>4, <1>s, PaidFor, Zenon
  <2> QED BY <2>2, <2>5
<1> QED BY <1>1, <1>2, <1>3

LEMMA OnlyOneMore ==
  ASSUME KeyBooks, [Next]_vars
  PROVE IsFiniteSet(live')
<1>1. \E k : live' \subseteq live \cup {k}
  BY Zenon DEF Next, Step, TickStart, ApiRotate, CliMint, NodeLost, Rejoin, Reimage, Rebind,
       ForgetKey, TimePasses, vars, Create, CreateFails, Created, Seed, SeedFails, Verify,
       VerifyFails, Revoke, RevokeFails, RevokeOld, Crash
<1>2. IsFiniteSet(live)
  BY DEF KeyBooks
<1> QED BY <1>1, <1>2, FS_AddElement, FS_Subset

\* What a step does to a mint in progress, as far as the row is concerned.
CoversRow(p) ==
  /\ \A q \in Programs \ {p} : op'[q] = op[q]
  /\ op'[p].at \in {"idle", "create"} => op'[p].new = 0
  /\ p \in Locked /\ op'[p].at \in {"create", "seed", "verify"} =>
       \/ op'[p].old = rec' \/ ~Fresh(rec)'
       \/ rec' = rec /\ op[p].at \in {"create", "seed", "verify"} /\ op'[p].old = op[p].old
  /\ rec' \notin {0, rec} => p \in Locked /\ op[p].at # "idle"
  /\ Fresh(rec)' => Fresh(rec) \/ rec' # rec

LEMMA StepCovers ==
  ASSUME KeyBooks, NEW p \in Programs, Step(p) \/ Crash(p)
  PROVE CoversRow(p)
<1>o. op \in [Programs -> Ops] /\ op[p] \in Ops /\ rec \in Maybe
  BY DEF KeyBooks, IInv, TypeOK, Maybe
<1>i. IInv
  BY DEF KeyBooks
<1>q. \A q \in Programs \ {p} : op'[q] = op[q]
  BY <1>i, StepMoves DEF MovesOp
<1>f. clock' = clock
  BY Zenon DEF Step, Create, CreateFails, Seed, SeedFails, Verify, VerifyFails, Revoke,
       RevokeFails, RevokeOld, Crash
<1>m. ASSUME NEW latched \in BOOLEAN, op'[p] = Over(p, rec', latched), rec' \in Maybe
      PROVE /\ op'[p].new = 0 /\ op'[p].at \in {"idle", "create"}
            /\ op'[p].at = "create" => op'[p].old = rec'
  <2>1. \/ Over(p, rec', latched) = Doing("create", 0, rec', FALSE) /\ p # "cli"
        \/ Over(p, rec', latched) = Doing("idle", 0, 0, FALSE)
    BY <1>i, <1>m, OverLeaves
  <2>2. \/ op'[p] = Doing("create", 0, rec', FALSE)
        \/ op'[p] = Doing("idle", 0, 0, FALSE)
    BY <2>1, <1>m, Zenon
  <2> QED BY <2>2 DEF Doing
<1>h. rec' = rec => (Fresh(rec)' => Fresh(rec))
  <2>1. CASE born' = born
    BY <2>1, <1>f, Zenon DEF Fresh, Left
  <2>2. CASE \E k \in Unused : Created(k)
    <3>1. PICK k \in Unused : Created(k)
      BY <2>2
    <3>2. rec # 0 => rec \in Keys /\ born'[rec] = born[rec]
      BY <3>1, <1>i DEF Unused, Created, IInv, TypeOK
    <3> QED BY <3>2, <1>f DEF Fresh, Left
  <2> QED
    BY <2>1, <2>2, Zenon DEF Step, Create, CreateFails, Seed, SeedFails, Verify, VerifyFails,
         Revoke, RevokeFails, RevokeOld, Crash, First
<1>1. CASE Create(p)
  <2>1. PICK k \in Unused : op' = [op EXCEPT ![p].at = "seed", ![p].new = k]
    BY <1>1 DEF Create, First
  <2>2. op' = [op EXCEPT ![p] = [op[p] EXCEPT !.at = "seed", !.new = k]]
    BY <2>1, <1>o
  <2>3. op'[p].at = "seed" /\ op'[p].old = op[p].old
    BY <2>2, <1>o, UpdateOne, StartSeed
  <2>4. op[p].at = "create" /\ rec' = rec
    BY <1>1, Zenon DEF Create
  <2> QED BY <2>3, <2>4, <1>q, <1>h DEF CoversRow
<1>2. CASE CreateFails(p) \/ Revoke(p) \/ RevokeFails(p)
  <2>1. PICK latched \in BOOLEAN : op' = [op EXCEPT ![p] = Over(p, rec, latched)]
    BY <1>2 DEF CreateFails, Revoke, RevokeFails
  <2>2. op'[p] = Over(p, rec, latched)
    BY <2>1, <1>o, UpdateOne
  <2>3. rec' = rec
    BY <1>2, Zenon DEF CreateFails, Revoke, RevokeFails
  <2> QED BY <2>2, <2>3, <1>m, <1>o, <1>q, <1>h DEF CoversRow
<1>3. CASE Seed(p) \/ SeedFails(p) \/ VerifyFails(p)
  <2>1. PICK stage : op' = [op EXCEPT ![p] = [op[p] EXCEPT !.at = stage]] /\ stage \in {"verify", "revoke"}
    <3>1. CASE Seed(p)
      BY <3>1, Zenon DEF Seed
    <3>2. CASE SeedFails(p)
      BY <3>2, Zenon DEF SeedFails, AfterFailedSeed
    <3>3. CASE VerifyFails(p)
      BY <3>3, Zenon DEF VerifyFails
    <3> QED BY <1>3, <3>1, <3>2, <3>3
  <2>2. op'[p].at = stage /\ op'[p].old = op[p].old
    BY <2>1, <1>o, UpdateOne, MoveOn
  <2>3. op[p].at \in {"seed", "verify"} /\ rec' = rec
    BY <1>3, Zenon DEF Seed, SeedFails, VerifyFails, RowAfterSeed
  <2> QED BY <2>1, <2>2, <2>3, <1>q, <1>h DEF CoversRow
<1>4. CASE Verify(p)
  <2>1. op'[p] = AfterRecord(p, rec')
    BY <1>4, <1>o, UpdateOne DEF Verify
  <2>2. op[p].at = "verify" /\ rec' = IF p \in Locked THEN op[p].new ELSE rec
    BY <1>4, Zenon DEF Verify
  <2>3. rec' \in Maybe
    BY <2>2, <1>o, NewAndOld, Zenon
  <2>4. CASE op[p].old = 0
    <3>1. /\ op'[p].new = 0 /\ op'[p].at \in {"idle", "create"}
          /\ op'[p].at = "create" => op'[p].old = rec'
      BY <2>1, <2>3, <2>4, <1>m DEF AfterRecord
    <3> QED BY <3>1, <2>2, <1>q, <1>h DEF CoversRow
  <2>5. CASE op[p].old # 0
    <3>1. op'[p].at = "retire"
      BY <2>1, <2>5 DEF AfterRecord, Doing
    <3> QED BY <3>1, <2>2, <1>q, <1>h DEF CoversRow
  <2> QED BY <2>4, <2>5
<1>5. CASE RevokeOld(p) \/ Crash(p)
  <2>1. op'[p] = Idle /\ rec' = rec
    BY <1>5, <1>o, UpdateOne DEF RevokeOld, Crash
  <2>2. op'[p].at = "idle" /\ op'[p].new = 0
    BY <2>1 DEF Idle, Doing
  <2> QED BY <2>1, <2>2, <1>q, <1>h DEF CoversRow
<1> QED BY <1>1, <1>2, <1>3, <1>4, <1>5, Zenon DEF Step

LEMMA CoversPreserve ==
  ASSUME KeyBooks, IInv', NEW p \in Programs, CoversRow(p)
  PROVE NotMadeYet' /\ RowCovered'
<1>1. NotMadeYet'
  <2> SUFFICES ASSUME NEW q \in Programs, op'[q].at \in {"idle", "create"} PROVE op'[q].new = 0
    BY DEF NotMadeYet
  <2> QED BY DEF CoversRow, KeyBooks, NotMadeYet
<1>2. RowCovered'
  <2> SUFFICES ASSUME NEW q \in Locked, op'[q].at \in {"create", "seed", "verify"}
               PROVE rec' \in {0, op'[q].old} \/ ~Fresh(rec)'
    BY DEF RowCovered
  <2>q. q \in Programs
    BY DEF Locked, Programs
  <2>0. rec' = 0 => ~Fresh(rec)'
    BY DEF Fresh
  <2>1. CASE q = p
    <3>1. \/ op'[q].old = rec' \/ ~Fresh(rec)'
          \/ /\ rec' = rec /\ op'[q].old = op[q].old
             /\ op[q].at \in {"create", "seed", "verify"}
      BY <2>1 DEF CoversRow
    <3>2. rec' = rec /\ op[q].at \in {"create", "seed", "verify"} =>
            rec \in {0, op[q].old} \/ ~Fresh(rec)'
      BY DEF CoversRow, KeyBooks, RowCovered
    <3> QED BY <3>1, <3>2
  <2>2. CASE q # p
    <3>1. op'[q] = op[q]
      BY <2>2, <2>q DEF CoversRow
    <3>2. rec' = 0 \/ rec' = rec
      <4>1. op[q].at # "idle"
        BY <3>1
      <4>2. p \in Locked => op[p].at = "idle"
        BY <4>1, <2>2 DEF KeyBooks, IInv, OneHolder, Locked
      <4> QED BY <4>2 DEF CoversRow
    <3>3. rec' = rec => rec \in {0, op[q].old} \/ ~Fresh(rec)'
      BY <3>1 DEF CoversRow, KeyBooks, RowCovered
    <3> QED BY <3>1, <3>2, <3>3
  <2> QED BY <2>1, <2>2
<1> QED BY <1>1, <1>2

LEMMA OtherCovers ==
  ASSUME KeyBooks,
         \/ TickStart \/ ApiRotate \/ CliMint \/ NodeLost \/ Rejoin \/ Reimage
         \/ Rebind \/ ForgetKey \/ TimePasses \/ UNCHANGED vars
  PROVE \E p \in Programs : CoversRow(p)
<1>i. IInv
  BY DEF KeyBooks
<1>o. op \in [Programs -> Ops] /\ {"tick", "api", "cli"} \subseteq Programs
  BY <1>i DEF IInv, TypeOK, Programs
<1>h. TickStart \/ ApiRotate \/ CliMint => rec' = rec /\ Fresh(rec)' = Fresh(rec)
  BY Zenon DEF TickStart, ApiRotate, CliMint, Fresh, Left
<1>1. CASE TickStart
  <2>1. PICK old \in {0, rec}, more \in BOOLEAN :
          /\ op' = [op EXCEPT !["tick"] = Doing("create", 0, old, more)]
          /\ old = rec \/ ~Fresh(rec)
    BY <1>1, <1>i DEF TickStart, WindowValid, IInv, TypeOK
  <2>2. /\ op'["tick"] = Doing("create", 0, old, more)
        /\ \A q \in Programs \ {"tick"} : op'[q] = op[q]
    BY <2>1, <1>o, UpdateOne
  <2>3. op'["tick"].at = "create" /\ op'["tick"].new = 0 /\ op'["tick"].old = old
    BY <2>2 DEF Doing
  <2>4. CoversRow("tick")
    BY <1>1, <1>h, <2>1, <2>2, <2>3 DEF CoversRow
  <2> QED BY <2>4, <1>o
<1>2. CASE ApiRotate
  <2>1. op'["api"] = Doing("create", 0, rec, FALSE) /\ \A q \in Programs \ {"api"} : op'[q] = op[q]
    BY <1>2, <1>o, UpdateOne DEF ApiRotate
  <2>2. op'["api"].at = "create" /\ op'["api"].new = 0 /\ op'["api"].old = rec
    BY <2>1 DEF Doing
  <2>3. CoversRow("api")
    BY <1>2, <1>h, <2>1, <2>2 DEF CoversRow
  <2> QED BY <2>3, <1>o
<1>3. CASE CliMint
  <2>1. op'["cli"] = Doing("create", 0, 0, FALSE) /\ \A q \in Programs \ {"cli"} : op'[q] = op[q]
    BY <1>3, <1>o, UpdateOne DEF CliMint
  <2>2. op'["cli"].at = "create" /\ op'["cli"].new = 0 /\ op'["cli"].old = 0
    BY <2>1 DEF Doing
  <2>3. CoversRow("cli")
    BY <1>3, <1>h, <2>1, <2>2 DEF CoversRow, Locked
  <2> QED BY <2>3, <1>o
<1>4. CASE \/ NodeLost \/ Rejoin \/ Reimage \/ Rebind \/ ForgetKey \/ TimePasses
           \/ UNCHANGED vars
  <2>1. op' = op /\ rec' \in {0, rec}
    BY <1>4, Zenon DEF NodeLost, Rejoin, Reimage, Rebind, ForgetKey, TimePasses, vars, Forgotten
  <2>2. op["cli"].at \in {"idle", "create"} => op["cli"].new = 0
    BY <1>o DEF KeyBooks, NotMadeYet
  <2>3. rec' = rec /\ rec # 0 => (Fresh(rec)' => Fresh(rec))
    <3>1. rec # 0 => rec \in live
      BY <1>i DEF IInv, RecordedKeyIsLive
    <3>2. rec # 0 => (Fresh(rec)' => Fresh(rec)) \/ rec' # rec
      BY <3>1, KeysKept DEF Fresh, Left
    <3> QED BY <3>2
  <2>4. rec' = 0 => ~Fresh(rec)'
    BY DEF Fresh
  <2>5. CoversRow("cli")
    BY <2>1, <2>2, <2>3, <2>4 DEF CoversRow
  <2> QED BY <2>5, <1>o
<1> QED BY <1>1, <1>2, <1>3, <1>4

LEMMA BooksPreserved == KeyBooks /\ [Next]_vars => KeyBooks'
<1> SUFFICES ASSUME KeyBooks, [Next]_vars PROVE KeyBooks'
  OBVIOUS
<1>1. IInv' /\ TypeOK' /\ IsFiniteSet(live')
  BY InvPreserved, OnlyOneMore DEF KeyBooks, IInv
<1>2. ASSUME NEW p \in Programs, Step(p) \/ Crash(p) PROVE KeyBooks'
  <2>1. NotMadeYet' /\ RowCovered'
    BY <1>1, <1>2, StepCovers, CoversPreserve
  <2>2. Ledger'
    BY <1>1, <1>2, StepBooks, BooksBalance
  <2> QED BY <1>1, <2>1, <2>2 DEF KeyBooks
<1>3. CASE \/ TickStart \/ ApiRotate \/ CliMint \/ NodeLost \/ Rejoin \/ Reimage
           \/ Rebind \/ ForgetKey \/ TimePasses \/ UNCHANGED vars
  <2>1. Ledger'
    BY <1>1, <1>3, OtherBooks, BooksBalance
  <2>2. PICK p \in Programs : CoversRow(p)
    BY <1>3, OtherCovers
  <2>3. NotMadeYet' /\ RowCovered'
    BY <1>1, <2>2, CoversPreserve
  <2> QED BY <1>1, <2>1, <2>3 DEF KeyBooks
<1> QED BY <1>2, <1>3, Zenon DEF Next

LEMMA BooksInit == Init => KeyBooks
<1> SUFFICES ASSUME Init PROVE KeyBooks
  OBVIOUS
<1>1. \A p \in Programs : op[p].at = "idle" /\ op[p].new = 0
  BY DEF Init, Idle, Doing
<1>2. NotMadeYet /\ RowCovered
  BY <1>1 DEF NotMadeYet, RowCovered, Locked, Programs
<1>3. live = {} /\ Loose = {} /\ faults = 0 /\ crashes = 0 /\ letGo = 0
  BY DEF Init, Loose
<1>4. Cardinality(Loose) = 0 /\ IsFiniteSet(live)
  BY <1>3, FS_EmptySet
<1>5. Pending = 0
  BY <1>1 DEF Pending, Programs
<1>6. Ledger
  BY <1>3, <1>4, <1>5 DEF Ledger, Spent
<1> QED BY <1>2, <1>4, <1>6, InvInit DEF KeyBooks

\* A key with more than a week to live that neither the store nor a running
\* program remembers is due to a fault, a crash or an operator's step, one each.
THEOREM LeaksAreAccounted == Spec => []LeaksAccounted
<1>1. KeyBooks => LeaksAccounted
  <2> SUFFICES ASSUME KeyBooks PROVE LeaksAccounted
    OBVIOUS
  <2>1. Unaccounted \subseteq Loose
    BY Zenon DEF Unaccounted, Loose, Held, Locked, Programs
  <2>2. IsFiniteSet(Loose)
    <3>1. Loose \subseteq live
      BY DEF Loose
    <3> QED BY <3>1, FS_Subset DEF KeyBooks
  <2>3. Cardinality(Unaccounted) <= Cardinality(Loose) /\ IsFiniteSet(Unaccounted)
    BY <2>1, <2>2, FS_Subset
  <2>4. Cardinality(Unaccounted) \in Nat /\ Cardinality(Loose) \in Nat
    BY <2>2, <2>3, FS_CardinalityType
  <2>5. Pending \in Nat /\ Spent \in Nat /\ Cardinality(Loose) + Pending <= Spent
    BY SpentIsNat DEF Pending, KeyBooks, IInv, Ledger
  <2>6. Cardinality(Unaccounted) <= Spent
    BY <2>3, <2>4, <2>5
  <2> QED BY <2>6 DEF LeaksAccounted, Spent
<1>2. Spec => []KeyBooks
  BY BooksInit, BooksPreserved, PTL DEF Spec
<1> QED BY <1>1, <1>2, PTL

-----------------------------------------------------------------------------
(* The terminal. *)

\* What a request, a row of a job, a view and a table can be.
JobStates == {"none", "running", "done"}
JobRows == [id : JobIds, state : JobStates]
Detached == {"detail", "check", "diff", "history", "leases", "joblog", "reconcile", "stop-job"} \cup BoxActions
Requests ==
  [type : {"fleet"}, about : Int,
   answer : {Unserved} \cup [got : {"fleet"}, boxes : SUBSET Boxes, free : SUBSET Boxes]]
  \cup [type : {"jobs"}, about : Int, answer : {Unserved} \cup [got : {"jobs"}, jobs : Seq(JobRows)]]
  \cup [type : Detached, about : Int, answer : {Unserved}]

Tables ==
  [boxes : SUBSET Boxes, free : SUBSET Boxes, selected : Nat, filter : SUBSET Boxes,
   filtering : BOOLEAN, freeOnly : BOOLEAN, admin : BOOLEAN]
Worlds == [enrolled : SUBSET Boxes, free : SUBSET Boxes, job : [JobIds -> JobStates], changes : Nat]
Modals ==
  {NoModal} \cup [kind : BoxActions \cup {"reconcile", "stop-job"}, about : Int, typed : Int,
                  field : {"confirm", "target"}]

ViewsUnder(parents) ==
  [kind : BoxViews \cup {"leases", "jobs", "joblog"}, about : Int, loading : BOOLEAN, shows : Int,
   jobs : Seq(JobRows), cursor : Nat, parent : parents]
\* The cursor is on a row, what is shown is about the title, and the jobs list is
\* the fleet's and has no parent.
InShape(v) ==
  /\ v.cursor <= Len(v.jobs) /\ v.shows \in {Nobody, v.about}
  /\ v.kind = "jobs" => v.about = Fleet /\ v.parent = NoView
Parents == {NoView} \cup {v \in ViewsUnder({NoView}) : InShape(v)}
Views == {NoView} \cup {v \in ViewsUnder(Parents) : InShape(v)}

TermTyped ==
  /\ world \in Worlds /\ net \in Seq(Requests) /\ tab \in Tables
  /\ view \in Views /\ modal \in Modals

Has(n, kind, about) == \E i \in DOMAIN n : n[i].type = kind /\ n[i].about = about

-----------------------------------------------------------------------------
(* The table.                                                               *)

\* The boxes are finitely many positive numbers.
LEMMA BoxesFinite == IsFiniteSet(Boxes) /\ \A b \in Boxes : b \in Nat /\ b # 0
  BY FS_Interval, TerminalAssumption DEF Boxes

\* Every listed box has a row of its own, and the rows are below their number.
LEMMA RowsCounted ==
  ASSUME NEW t \in Tables
  PROVE  /\ IsFiniteSet(Listed(t)) /\ Listed(t) \subseteq Boxes /\ Rows(t) \in Nat
         /\ \A b \in Listed(t) : Row(t, b) \in Nat /\ Row(t, b) < Rows(t)
         /\ \A b, c \in Listed(t) : Row(t, b) = Row(t, c) => b = c
<1>1. Listed(t) \subseteq Boxes
  BY DEF Listed, Tables
<1>2. IsFiniteSet(Listed(t))
  BY <1>1, BoxesFinite, FS_Subset
<1>3. Rows(t) \in Nat
  BY <1>2, FS_CardinalityType DEF Rows
<1>4. \A b : LET S == {c \in Listed(t) : c < b} IN IsFiniteSet(S) /\ S \subseteq Listed(t) /\ Row(t, b) \in Nat
  BY <1>2, FS_Subset, FS_CardinalityType DEF Row
<1>5. ASSUME NEW b \in Listed(t) PROVE Row(t, b) < Rows(t)
  <2> DEFINE S == {c \in Listed(t) : c < b}
  <2>0. ~(b < b)
    BY <1>1, BoxesFinite
  <2>1. S \subseteq Listed(t) /\ b \notin S
    BY <2>0
  <2>2. Cardinality(S) <= Cardinality(Listed(t)) /\ Cardinality(S) # Cardinality(Listed(t))
    BY <2>1, <1>2, <1>5, FS_Subset
  <2> QED
    BY <2>2, <1>3, <1>4 DEF Row, Rows
<1>6. ASSUME NEW b \in Listed(t), NEW c \in Listed(t), b < c PROVE Row(t, b) < Row(t, c)
  <2> DEFINE S == {x \in Listed(t) : x < b}
             T == {x \in Listed(t) : x < c}
  <2>0. b < c /\ ~(b < b) /\ \A x \in Listed(t) : x < b => x < c
    BY <1>1, <1>6, BoxesFinite
  <2>1. S \subseteq T /\ b \in T /\ b \notin S
    BY <2>0
  <2>2. IsFiniteSet(T)
    BY <1>4
  <2>3. Cardinality(S) <= Cardinality(T) /\ Cardinality(S) # Cardinality(T)
    BY <2>1, <2>2, FS_Subset
  <2>4. Row(t, b) = Cardinality(S) /\ Row(t, c) = Cardinality(T)
    BY DEF Row
  <2>5. Row(t, b) \in Nat /\ Row(t, c) \in Nat
    BY <1>4
  <2> QED
    BY <2>3, <2>4, <2>5
<1>7. ASSUME NEW b \in Listed(t), NEW c \in Listed(t), Row(t, b) = Row(t, c) PROVE b = c
  <2>1. b \in Nat /\ c \in Nat /\ Row(t, b) \in Nat
    BY <1>1, <1>4, BoxesFinite
  <2>2. ~(b < c) /\ ~(c < b)
    BY <1>6, <1>7, <2>1
  <2> QED
    BY <2>1, <2>2
<1> QED
  BY <1>1, <1>2, <1>3, <1>4, <1>5, <1>7

\* A key has a box exactly when the selected index is a row, and then that row's.
LEMMA ChosenRow ==
  ASSUME NEW t \in Tables
  PROVE  /\ Chosen(t) \in Int
         /\ Chosen(t) # Nobody => Chosen(t) \in Listed(t) /\ t.selected < Rows(t)
         /\ \A b \in Listed(t) : Row(t, b) = t.selected => Chosen(t) = b
<1>1. CASE \E b \in Listed(t) : Row(t, b) = t.selected
  <2>1. Chosen(t) = CHOOSE b \in Listed(t) : Row(t, b) = t.selected
    BY <1>1 DEF Chosen
  <2>2. Chosen(t) \in Listed(t) /\ Row(t, Chosen(t)) = t.selected
    BY <1>1, <2>1
  <2>3. Chosen(t) \in Int /\ t.selected < Rows(t)
    BY <2>2, RowsCounted, BoxesFinite
  <2>4. \A b \in Listed(t) : Row(t, b) = t.selected => Chosen(t) = b
    BY <2>2, RowsCounted
  <2> QED
    BY <2>2, <2>3, <2>4
<1>2. CASE ~\E b \in Listed(t) : Row(t, b) = t.selected
  BY <1>2 DEF Chosen, Nobody
<1> QED
  BY <1>1, <1>2

\* recoverSelection leaves a table.
LEMMA Recovered ==
  ASSUME NEW t \in Tables
  PROVE  RecoverSelection(t) \in Tables
  BY DEF RecoverSelection, Tables

\* applyFleet: a box that was within the filter and is still listed stays selected.
LEMMA FollowsName ==
  ASSUME NEW t \in Tables, NEW name \in t.filter, name \in Listed(Follow(t, name))
  PROVE  Chosen(Follow(t, name)) = name
<1>1. CASE name \in Listed(t)
  <2> DEFINE u == [t EXCEPT !.selected = Row(t, name)]
  <2>1. u \in Tables
    BY <1>1, RowsCounted DEF Tables
  <2>2. Listed(u) = Listed(t) /\ u.selected = Row(t, name)
    BY DEF Listed, Tables
  <2>3. Row(u, name) = Row(t, name) /\ Rows(u) = Rows(t)
    BY <2>2 DEF Row, Rows
  <2>4. ~(u.selected >= Rows(u))
    BY <1>1, <2>2, <2>3, RowsCounted
  <2>5. RecoverSelection(u) = [u EXCEPT !.filter = u.filter, !.selected = u.selected]
    BY <2>2, <2>4, <1>1 DEF RecoverSelection
  <2>6. RecoverSelection(u) = u
    BY <2>1, <2>5 DEF Tables
  <2>7. Follow(t, name) = u
    BY <1>1, <2>6 DEF Follow
  <2> QED
    BY <1>1, <2>1, <2>2, <2>3, <2>7, ChosenRow
<1>2. CASE name \notin Listed(t)
  <2>1. Follow(t, name) = RecoverSelection(t)
    BY <1>2 DEF Follow
  <2>2. LET u == RecoverSelection(t) IN u.boxes = t.boxes /\ u.free = t.free /\ u.freeOnly = t.freeOnly
    BY DEF RecoverSelection, Tables
  <2>3. name \in Listed(t)
    BY <2>1, <2>2 DEF Listed
  <2> QED
    BY <1>2, <2>3
<1> QED
  BY <1>1, <1>2

\* A poll's answer leaves a table, and the selection on its box.
LEMMA Applied ==
  ASSUME NEW t \in Tables, NEW a \in [got : {"fleet"}, boxes : SUBSET Boxes, free : SUBSET Boxes]
  PROVE  /\ ApplyFleet(t, a) \in Tables
         /\ Chosen(t) \in Listed(ApplyFleet(t, a)) => Chosen(ApplyFleet(t, a)) = Chosen(t)
<1> DEFINE u == [t EXCEPT !.boxes = a.boxes, !.free = a.free, !.admin = TRUE]
           name == Chosen(t)
<1>1. u \in Tables /\ u.filter = t.filter
  BY DEF Tables
<1>2. ApplyFleet(t, a) = Follow(u, name)
  BY DEF ApplyFleet
<1>3. Follow(u, name) \in Tables
  <2>1. CASE name \in Listed(u)
    <3>1. [u EXCEPT !.selected = Row(u, name)] \in Tables
      BY <1>1, <2>1, RowsCounted DEF Tables
    <3> QED
      BY <3>1, <2>1, Recovered DEF Follow
  <2>2. CASE name \notin Listed(u)
    BY <1>1, <2>2, Recovered DEF Follow
  <2> QED BY <2>1, <2>2
<1>4. ASSUME name \in Listed(Follow(u, name)) PROVE Chosen(Follow(u, name)) = name
  <2>1. name \in Boxes
    BY <1>3, <1>4, RowsCounted
  <2>2. name # Nobody
    BY <2>1, BoxesFinite DEF Nobody
  <2>3. name \in t.filter
    BY <2>2, ChosenRow DEF Listed
  <2> QED
    BY <1>1, <1>4, <2>3, FollowsName
<1> QED
  BY <1>2, <1>3, <1>4

\* The server's answers have the shape the terminal expects: in particular every
\* place of the jobs list has its job.
LEMMA JobsListed ==
  ASSUME NEW w \in Worlds
  PROVE  JobList(w) \in Seq(JobRows)
<1> DEFINE begun == {j \in JobIds : w.job[j] # "none"}
           Before(j) == {i \in begun : IF w.job[i] = w.job[j] THEN i > j ELSE w.job[i] = "running"}
           n == Cardinality(begun)
           place == [j \in begun |-> Cardinality(Before(j)) + 1]
           At(k) == CHOOSE j \in begun : Cardinality(Before(j)) = k - 1
<1>1. IsFiniteSet(JobIds) /\ \A j \in JobIds : j \in Nat /\ w.job[j] \in JobStates
  BY FS_Interval, TerminalAssumption DEF JobIds, Worlds
<1>2. IsFiniteSet(begun) /\ n \in Nat
  BY <1>1, FS_Subset, FS_CardinalityType
<1>3. \A j \in begun : j \in Nat /\ w.job[j] \in {"running", "done"}
  BY <1>1 DEF JobStates
<1>4. ASSUME NEW j \in begun PROVE Cardinality(Before(j)) \in Nat /\ Cardinality(Before(j)) < n
  <2>1. ~(j > j)
    BY <1>3
  <2>2. j \notin Before(j) /\ Before(j) \subseteq begun
    BY <2>1
  <2>3. IsFiniteSet(Before(j))
    BY <1>2, <2>2, FS_Subset
  <2>4. Cardinality(Before(j)) <= n /\ Cardinality(Before(j)) # n
    BY <1>2, <2>2, FS_Subset
  <2>5. Cardinality(Before(j)) \in Nat
    BY <2>3, FS_CardinalityType
  <2> HIDE DEF n, Before
  <2> QED
    BY <1>2, <2>4, <2>5
<1>5. ASSUME NEW i \in begun, NEW j \in begun, i \in Before(j)
      PROVE  Cardinality(Before(i)) < Cardinality(Before(j))
  <2>1. \A x \in begun : x \in Before(i) => x \in Before(j)
    BY <1>3, <1>5
  <2>2. ~(i > i)
    BY <1>3
  <2>3. Before(i) \subseteq Before(j) /\ i \notin Before(i)
    BY <2>1, <2>2
  <2>4. IsFiniteSet(Before(j))
    <3>1. Before(j) \subseteq begun
      OBVIOUS
    <3> QED
      BY <3>1, <1>2, FS_Subset
  <2>5. Cardinality(Before(i)) <= Cardinality(Before(j)) /\ Cardinality(Before(i)) # Cardinality(Before(j))
    BY <1>5, <2>3, <2>4, FS_Subset
  <2>6. Cardinality(Before(i)) \in Nat /\ Cardinality(Before(j)) \in Nat
    BY <1>4
  <2> HIDE DEF Before
  <2> QED
    BY <2>5, <2>6
<1>6. \A i, j \in begun : i = j \/ i \in Before(j) \/ j \in Before(i)
  BY <1>3
<1>7. \A i, j \in begun : i # j => Cardinality(Before(i)) # Cardinality(Before(j))
  <2> SUFFICES ASSUME NEW i \in begun, NEW j \in begun, i # j
               PROVE  Cardinality(Before(i)) # Cardinality(Before(j))
    OBVIOUS
  <2>1. Cardinality(Before(i)) \in Nat /\ Cardinality(Before(j)) \in Nat
    BY <1>4
  <2>2. Cardinality(Before(i)) < Cardinality(Before(j)) \/ Cardinality(Before(j)) < Cardinality(Before(i))
    BY <1>5, <1>6
  <2> HIDE DEF Before
  <2> QED
    BY <2>1, <2>2
<1> HIDE DEF Before, n
<1>8. place \in [begun -> 1..n]
  BY <1>2, <1>4
<1>9. \A i, j \in begun : i # j => place[i] # place[j]
  BY <1>4, <1>7
<1>10. place \in Injection(begun, 1..n)
  BY <1>8, <1>9 DEF Injection, IsInjective
<1>11. IsFiniteSet(1..n) /\ Cardinality(1..n) = n
  BY <1>2, FS_Interval
<1>12. place \in Surjection(begun, 1..n)
  BY <1>10, <1>11, FS_Injection DEF n
<1>13. ASSUME NEW k \in 1..n PROVE At(k) \in begun
  <2>1. \E j \in begun : place[j] = k
    BY <1>12 DEF Surjection
  <2>2. \E j \in begun : Cardinality(Before(j)) = k - 1
    BY <2>1, <1>2, <1>4
  <2> QED
    BY <2>2
<1> HIDE DEF At
<1>14. \A k \in 1..n : [id |-> At(k), state |-> w.job[At(k)]] \in JobRows
  <2>1. begun \subseteq JobIds
    OBVIOUS
  <2> QED
    BY <1>1, <1>13, <2>1 DEF JobRows
<1> HIDE DEF begun
<1>15. [k \in 1..n |-> [id |-> At(k), state |-> w.job[At(k)]]] \in Seq(JobRows)
  BY <1>2, <1>14, IsASeq
<1> QED
  BY <1>15 DEF JobList, n, begun, At, Before
-----------------------------------------------------------------------------
(* Requests.                                                                *)

\* Whatever is asked is a request, and has what it was asked with.
LEMMA Asked ==
  /\ \A kind \in Detached \cup {"fleet", "jobs"}, about \in Int :
       /\ Ask(kind, about) \in Requests
       /\ Ask(kind, about).type = kind /\ Ask(kind, about).about = about
  /\ \A r \in Requests : r.type \in Detached \cup {"fleet", "jobs"} /\ r.about \in Int
  BY DEF Ask, Requests

\* What is taken out of the requests in flight leaves the others.
LEMMA TakenOut ==
  ASSUME NEW n \in Seq(Requests), NEW i \in DOMAIN n
  PROVE  /\ RemoveAt(n, i) \in Seq(Requests)
         /\ \A kind, about : Has(n, kind, about) /\ ~(n[i].type = kind /\ n[i].about = about)
                               => Has(RemoveAt(n, i), kind, about)
         /\ \A r : Times(r, RemoveAt(n, i)) \in Nat /\ Times(r, n) \in Nat
                   /\ Times(r, RemoveAt(n, i)) <= Times(r, n)
<1> DEFINE m == RemoveAt(n, i)
           a == SubSeq(n, 1, i - 1)
           b == SubSeq(n, i + 1, Len(n))
<1>1. Len(n) \in Nat /\ DOMAIN n = 1..Len(n) /\ i \in 1..Len(n)
  OBVIOUS
<1>2. a \in Seq(Requests) /\ Len(a) = i - 1 /\ \A k \in 1..(i - 1) : a[k] = n[k]
  BY <1>1, SubSeqProperties
<1>3. b \in Seq(Requests) /\ Len(b) = Len(n) - i /\ \A k \in 1..(Len(n) - i) : b[k] = n[i + k]
  BY <1>1, SubSeqProperties
<1>4. m = a \o b
  BY DEF RemoveAt
<1> HIDE DEF a, b, m
<1>5. m \in Seq(Requests) /\ Len(m) = Len(n) - 1 /\ DOMAIN m = 1..(Len(n) - 1)
  <2>1. m \in Seq(Requests) /\ Len(m) = Len(a) + Len(b)
    BY <1>2, <1>3, <1>4, ConcatProperties
  <2> QED
    BY <1>1, <1>2, <1>3, <2>1
<1>6. \A k \in 1..(Len(n) - 1) : m[k] = n[IF k < i THEN k ELSE k + 1]
  <2>1. \A k \in 1..(Len(n) - 1) : m[k] = IF k <= i - 1 THEN a[k] ELSE b[k - (i - 1)]
    <3>1. \A k \in 1..(Len(a) + Len(b)) : m[k] = IF k <= Len(a) THEN a[k] ELSE b[k - Len(a)]
      BY <1>2, <1>3, <1>4, ConcatProperties
    <3>2. Len(a) + Len(b) = Len(n) - 1
      BY <1>1, <1>2, <1>3
    <3> QED
      BY <1>2, <3>1, <3>2
  <2>2. \A k \in 1..(Len(n) - 1) : k <= i - 1 => a[k] = n[k] /\ k < i
    BY <1>1, <1>2
  <2>3. \A k \in 1..(Len(n) - 1) : ~(k <= i - 1) => b[k - (i - 1)] = n[k + 1] /\ ~(k < i)
    <3> SUFFICES ASSUME NEW k \in 1..(Len(n) - 1), ~(k <= i - 1)
                 PROVE  b[k - (i - 1)] = n[k + 1] /\ ~(k < i)
      OBVIOUS
    <3>1. k - (i - 1) \in 1..(Len(n) - i) /\ i + (k - (i - 1)) = k + 1 /\ ~(k < i)
      BY <1>1
    <3> QED
      BY <1>3, <3>1
  <2> QED
    BY <2>1, <2>2, <2>3
<1>7. ASSUME NEW kind, NEW about, Has(n, kind, about), ~(n[i].type = kind /\ n[i].about = about)
      PROVE  Has(m, kind, about)
  <2>1. PICK j \in 1..Len(n) : n[j].type = kind /\ n[j].about = about
    BY <1>1, <1>7 DEF Has
  <2>2. j # i
    BY <1>7, <2>1
  <2> DEFINE k == IF j < i THEN j ELSE j - 1
  <2>3. k \in 1..(Len(n) - 1) /\ (IF k < i THEN k ELSE k + 1) = j
    BY <1>1, <2>2
  <2> HIDE DEF k
  <2>4. m[k] = n[j] /\ k \in DOMAIN m
    BY <1>5, <1>6, <2>3
  <2> QED
    BY <2>1, <2>4 DEF Has
<1>8. ASSUME NEW r PROVE Times(r, m) \in Nat /\ Times(r, n) \in Nat /\ Times(r, m) <= Times(r, n)
  <2> DEFINE S == {k \in DOMAIN m : m[k] = r}
             T == {k \in DOMAIN n : n[k] = r}
             f == [k \in S |-> IF k < i THEN k ELSE k + 1]
  <2>1. IsFiniteSet(DOMAIN n) /\ IsFiniteSet(DOMAIN m)
    <3>1. \A k \in Int : IsFiniteSet(1..k)
      BY FS_Interval
    <3>2. Len(n) \in Int /\ Len(n) - 1 \in Int
      BY <1>1
    <3> QED BY <1>1, <1>5, <3>1, <3>2
  <2>2. IsFiniteSet(T) /\ IsFiniteSet(S)
    BY <2>1, FS_Subset
  <2>3. f \in [S -> T]
    BY <1>1, <1>5, <1>6
  <2>4. \A j, k \in S : j # k => f[j] # f[k]
    <3>1. \A j, k \in 1..(Len(n) - 1) :
            j # k => (IF j < i THEN j ELSE j + 1) # (IF k < i THEN k ELSE k + 1)
      BY <1>1
    <3> QED BY <1>5, <3>1
  <2>5. f \in Injection(S, T)
    BY <2>3, <2>4 DEF Injection, IsInjective
  <2>6. Cardinality(S) <= Cardinality(T)
    BY <2>2, <2>5, FS_Injection
  <2>7. Cardinality(S) \in Nat /\ Cardinality(T) \in Nat
    BY <2>2, FS_CardinalityType
  <2> QED
    BY <2>6, <2>7 DEF Times
<1> QED
  BY <1>5, <1>7, <1>8 DEF m

\* A key or an answer adds its requests and perhaps the detail's to those in
\* flight, and loses none.
LEMMA Sent ==
  ASSUME NEW n \in Seq(Requests), NEW reqs \in Seq(Requests), NEW t \in Tables, NEW v \in Views,
         Becomes(n, t, v, reqs)
  PROVE  /\ net' \in Seq(Requests) /\ tab' = t /\ view' = v
         /\ IsPrefix(n, net')
         /\ \A kind, about : Has(n, kind, about) \/ Has(reqs, kind, about) => Has(net', kind, about)
         /\ \A r : r.type # "detail" /\ (\A k \in DOMAIN reqs : reqs[k] # r) => Times(r, net') = Times(r, n)
<1> DEFINE eff == DetailEffect(t, v)
           all == reqs \o eff
<1>1. eff \in Seq(Requests) /\ (\A k \in DOMAIN eff : eff[k].type = "detail")
  <2>1. Ask("detail", Chosen(t)) \in Requests /\ Ask("detail", Chosen(t)).type = "detail"
    BY ChosenRow, Asked DEF Detached
  <2>2. CASE v # NoView \/ Chosen(t) \in {Nobody, loaded}
    BY <2>2 DEF DetailEffect
  <2>3. CASE ~(v # NoView \/ Chosen(t) \in {Nobody, loaded})
    BY <2>1, <2>3 DEF DetailEffect
  <2> QED BY <2>2, <2>3
<1>2. net' = n \o all /\ tab' = t /\ view' = v
  BY DEF Becomes
<1> HIDE DEF eff
<1>3. all \in Seq(Requests) /\ Len(all) = Len(reqs) + Len(eff)
      /\ \A k \in 1..Len(reqs) + Len(eff) : all[k] = IF k <= Len(reqs) THEN reqs[k] ELSE eff[k - Len(reqs)]
  BY <1>1, ConcatProperties
<1> HIDE DEF all
<1>4. net' \in Seq(Requests) /\ Len(net') = Len(n) + Len(all)
      /\ \A k \in 1..Len(n) + Len(all) : net'[k] = IF k <= Len(n) THEN n[k] ELSE all[k - Len(n)]
  BY <1>2, <1>3, ConcatProperties
<1>5. /\ Len(n) \in Nat /\ Len(all) \in Nat /\ Len(reqs) \in Nat /\ Len(eff) \in Nat
      /\ DOMAIN n = 1..Len(n) /\ DOMAIN all = 1..Len(all) /\ DOMAIN reqs = 1..Len(reqs)
      /\ DOMAIN eff = 1..Len(eff) /\ DOMAIN net' = 1..(Len(n) + Len(all))
  BY <1>1, <1>3, <1>4
<1>6. \A k \in DOMAIN n : k \in DOMAIN net' /\ net'[k] = n[k]
  BY <1>4, <1>5
<1>7. \A k \in DOMAIN net' : k \notin DOMAIN n => k - Len(n) \in DOMAIN all /\ net'[k] = all[k - Len(n)]
  BY <1>4, <1>5
<1>8. \A k \in DOMAIN reqs : Len(n) + k \in DOMAIN net' /\ net'[Len(n) + k] = reqs[k]
  <2> SUFFICES ASSUME NEW k \in DOMAIN reqs
               PROVE  Len(n) + k \in DOMAIN net' /\ net'[Len(n) + k] = reqs[k]
    OBVIOUS
  <2>1. k \in 1..Len(reqs) + Len(eff) /\ all[k] = reqs[k]
    BY <1>3, <1>5
  <2>2. Len(n) + k \in 1..(Len(n) + Len(all)) /\ ~(Len(n) + k <= Len(n)) /\ Len(n) + k - Len(n) = k
    BY <1>3, <1>5, <2>1
  <2> QED
    BY <1>4, <1>5, <2>1, <2>2
<1>9. IsPrefix(n, net')
  <2>1. Len(n) <= Len(net')
    BY <1>4, <1>5
  <2>2. SubSeq(n, 1, Len(n)) = SubSeq(net', 1, Len(n))
    BY <1>2, <1>3, <1>4, <1>5, <1>6
  <2> QED
    BY <2>1, <2>2 DEF IsPrefix
<1>10. ASSUME NEW r, r.type # "detail", \A k \in DOMAIN reqs : reqs[k] # r
       PROVE  Times(r, net') = Times(r, n)
  <2>1. \A k \in DOMAIN all : all[k] # r
    <3> SUFFICES ASSUME NEW k \in DOMAIN all PROVE all[k] # r
      OBVIOUS
    <3>1. CASE k <= Len(reqs)
      BY <3>1, <1>3, <1>5, <1>10
    <3>2. CASE ~(k <= Len(reqs))
      <4>1. k - Len(reqs) \in DOMAIN eff /\ all[k] = eff[k - Len(reqs)]
        BY <3>2, <1>3, <1>5
      <4> QED
        BY <4>1, <1>1, <1>10
    <3> QED BY <3>1, <3>2
  <2>2. {k \in DOMAIN net' : net'[k] = r} = {k \in DOMAIN n : n[k] = r}
    BY <1>6, <1>7, <2>1
  <2> QED
    BY <2>2 DEF Times
<1>11. \A kind, about : Has(n, kind, about) \/ Has(reqs, kind, about) => Has(net', kind, about)
  BY <1>6, <1>8 DEF Has
<1> QED
  BY <1>2, <1>4, <1>9, <1>10, <1>11

-----------------------------------------------------------------------------
(* The screen.                                                              *)

ScreenInv == TermTyped /\ ViewIsServed

\* A view that says it is loading has a request among n or among those it sends.
Awaits(v, n, reqs) ==
  v # NoView => /\ v.loading => Has(n, v.kind, v.about) \/ Has(reqs, v.kind, v.about)
                /\ v.parent # NoView => ~v.parent.loading

\* An open view has the fields of one.
LEMMA NoViewIsNone == \A v \in Views : v # NoView => v \in ViewsUnder(Parents) /\ InShape(v)
  BY DEF Views

\* A step that leaves a view with a request to wait for keeps the screen true.
LEMMA SentKeeps ==
  ASSUME NEW n \in Seq(Requests), NEW reqs \in Seq(Requests), NEW t \in Tables, NEW v \in Views,
         Becomes(n, t, v, reqs), Awaits(v, n, reqs), world' \in Worlds, modal' \in Modals
  PROVE  ScreenInv'
<1>1. /\ net' \in Seq(Requests) /\ tab' = t /\ view' = v
      /\ \A kind, about : Has(n, kind, about) \/ Has(reqs, kind, about) => Has(net', kind, about)
  BY Sent
<1>2. TermTyped'
  BY <1>1 DEF TermTyped
<1>3. v # NoView => v.shows \in {Nobody, v.about}
  BY NoViewIsNone DEF InShape
<1>4. v # NoView /\ v.loading => \E i \in DOMAIN net' : net'[i].type = v.kind /\ net'[i].about = v.about
  <2> SUFFICES ASSUME v # NoView, v.loading PROVE Has(net', v.kind, v.about)
    BY DEF Has
  <2>1. Has(n, v.kind, v.about) \/ Has(reqs, v.kind, v.about)
    BY DEF Awaits
  <2> QED
    BY <1>1, <2>1
<1>5. ViewIsServed'
  BY <1>1, <1>3, <1>4 DEF ViewIsServed, Awaits
<1> QED
  BY <1>2, <1>5 DEF ScreenInv

\* The view as it is has its request.
LEMMA ServedAwaits == ViewIsServed => \A reqs : Awaits(view, net, reqs)
  BY DEF ViewIsServed, Awaits, Has

\* The fleet is asked about by a number, like a box.
LEMMA FleetIsInt == Fleet \in Int
  BY DEF Fleet

\* A single request is a list of requests, and is in it.
LEMMA OneRequest ==
  ASSUME NEW kind \in Detached \cup {"fleet", "jobs"}, NEW about \in Int
  PROVE  /\ <<Ask(kind, about)>> \in Seq(Requests) /\ Has(<<Ask(kind, about)>>, kind, about)
         /\ <<Load(kind, about)>> \in Seq(Requests) /\ Has(<<Load(kind, about)>>, kind, about)
<1>1. Ask(kind, about) \in Requests /\ Ask(kind, about).type = kind /\ Ask(kind, about).about = about
  BY Asked
<1>2. Load(kind, about) = Ask(kind, about)
  BY DEF Load
<1>3. <<Ask(kind, about)>> \in Seq(Requests)
  BY <1>1
<1>4. Has(<<Ask(kind, about)>>, kind, about)
  BY <1>1, 1 \in DOMAIN <<Ask(kind, about)>> DEF Has
<1> QED
  BY <1>2, <1>3, <1>4

\* What is opened, and what an answer leaves of a view.
LEMMA OpenedViews ==
  ASSUME NEW kind \in BoxViews \cup {"leases", "jobs", "joblog"}, NEW about \in Int, kind = "jobs" => about = Fleet
  PROVE  LET v == Opened(kind, about)
         IN  /\ v \in ViewsUnder({NoView}) /\ InShape(v) /\ v # NoView /\ v.kind = kind /\ v.about = about
             /\ v.parent = NoView /\ v.loading
<1> DEFINE v == Opened(kind, about)
<1>1. <<>> \in Seq(JobRows) /\ Len(<<>>) = 0
  OBVIOUS
<1>2. v \in ViewsUnder({NoView})
  BY <1>1 DEF Opened, ViewsUnder, Nobody
<1>3. InShape(v)
  BY <1>1 DEF Opened, InShape
<1>4. v # NoView /\ v.kind = kind /\ v.about = about /\ v.parent = NoView /\ v.loading
  BY DEF Opened, NoView, BoxViews
<1> QED
  BY <1>2, <1>3, <1>4

\* A view without a parent may be one.
LEMMA UnderNothing == \A v : v \in ViewsUnder({NoView}) /\ InShape(v) => v \in Parents /\ v \in Views
<1> SUFFICES ASSUME NEW v, v \in ViewsUnder({NoView}), InShape(v) PROVE v \in Parents /\ v \in Views
  OBVIOUS
<1>1. v \in Parents
  BY DEF Parents
<1>2. NoView \in Parents
  BY DEF Parents
<1>3. v \in ViewsUnder(Parents)
  BY <1>2 DEF ViewsUnder
<1> QED
  BY <1>1, <1>3 DEF Views

\* What a reload, an answer, an error and a cursor make of a view is a view.
LEMMA Changes ==
  ASSUME NEW v \in Views, v # NoView
  PROVE  /\ \A l \in BOOLEAN : /\ [v EXCEPT !.loading = l] \in Views \ {NoView}
                               /\ [v EXCEPT !.loading = l].loading = l
                               /\ [v EXCEPT !.loading = l].kind = v.kind
                               /\ [v EXCEPT !.loading = l].about = v.about
                               /\ [v EXCEPT !.loading = l].parent = v.parent
         /\ LET w == [v EXCEPT !.loading = FALSE, !.shows = v.about]
            IN  w \in Views /\ ~w.loading /\ w.parent = v.parent
         /\ LET w == [v EXCEPT !.loading = FALSE, !.jobs = <<>>, !.cursor = 0]
            IN  w \in Views /\ ~w.loading /\ w.parent = v.parent
         /\ \A c \in DOMAIN v.jobs :
              /\ [v EXCEPT !.cursor = c] \in Views
              /\ [v EXCEPT !.cursor = c].loading = v.loading /\ [v EXCEPT !.cursor = c].parent = v.parent
              /\ [v EXCEPT !.cursor = c].kind = v.kind /\ [v EXCEPT !.cursor = c].about = v.about
         /\ v.kind = "jobs" => \A jobs \in Seq(JobRows) :
              LET w == WithJobs(v, jobs) IN w \in Views /\ ~w.loading /\ w.parent = v.parent
<1>1. v \in ViewsUnder(Parents) /\ InShape(v)
  BY NoViewIsNone
<1>2. \A w : w \in ViewsUnder(Parents) => w # NoView
  BY DEF ViewsUnder, NoView, BoxViews
<1>3. ASSUME NEW l \in BOOLEAN
      PROVE  /\ [v EXCEPT !.loading = l] \in Views \ {NoView} /\ [v EXCEPT !.loading = l].loading = l
             /\ [v EXCEPT !.loading = l].kind = v.kind
             /\ [v EXCEPT !.loading = l].about = v.about
             /\ [v EXCEPT !.loading = l].parent = v.parent
  <2>1. [v EXCEPT !.loading = l] \in ViewsUnder(Parents) /\ [v EXCEPT !.loading = l].loading = l
    BY <1>1 DEF ViewsUnder
  <2>2. InShape([v EXCEPT !.loading = l])
    BY <1>1 DEF ViewsUnder, InShape
  <2>3. /\ [v EXCEPT !.loading = l].kind = v.kind /\ [v EXCEPT !.loading = l].about = v.about
        /\ [v EXCEPT !.loading = l].parent = v.parent
    BY <1>1 DEF ViewsUnder
  <2> QED BY <1>2, <2>1, <2>2, <2>3 DEF Views
<1>4. LET w == [v EXCEPT !.loading = FALSE, !.shows = v.about]
      IN  w \in Views /\ ~w.loading /\ w.parent = v.parent
  <2> DEFINE w == [v EXCEPT !.loading = FALSE, !.shows = v.about]
  <2>1. w \in ViewsUnder(Parents) /\ ~w.loading /\ w.parent = v.parent
    BY <1>1 DEF ViewsUnder
  <2>2. InShape(w)
    BY <1>1 DEF ViewsUnder, InShape
  <2> QED BY <2>1, <2>2 DEF Views
<1>5. LET w == [v EXCEPT !.loading = FALSE, !.jobs = <<>>, !.cursor = 0]
      IN  w \in Views /\ ~w.loading /\ w.parent = v.parent
  <2> DEFINE w == [v EXCEPT !.loading = FALSE, !.jobs = <<>>, !.cursor = 0]
  <2>0. <<>> \in Seq(JobRows) /\ Len(<<>>) = 0
    OBVIOUS
  <2>1. w \in ViewsUnder(Parents) /\ ~w.loading /\ w.parent = v.parent
    BY <1>1, <2>0 DEF ViewsUnder
  <2>2. w.cursor = 0 /\ w.jobs = <<>> /\ w.shows = v.shows /\ w.about = v.about /\ w.kind = v.kind
    BY <1>1 DEF ViewsUnder
  <2>3. InShape(w)
    BY <1>1, <2>0, <2>1, <2>2 DEF InShape
  <2> QED BY <2>1, <2>3 DEF Views
<1>6. ASSUME NEW c \in DOMAIN v.jobs
      PROVE  /\ [v EXCEPT !.cursor = c] \in Views
             /\ [v EXCEPT !.cursor = c].loading = v.loading /\ [v EXCEPT !.cursor = c].parent = v.parent
             /\ [v EXCEPT !.cursor = c].kind = v.kind /\ [v EXCEPT !.cursor = c].about = v.about
  <2> DEFINE w == [v EXCEPT !.cursor = c]
  <2>0. c \in Nat /\ c <= Len(v.jobs)
    BY <1>1 DEF ViewsUnder
  <2>1. w \in ViewsUnder(Parents)
    BY <1>1, <2>0 DEF ViewsUnder
  <2>2. w.cursor = c /\ w.jobs = v.jobs /\ w.shows = v.shows /\ w.about = v.about /\ w.kind = v.kind
        /\ w.loading = v.loading /\ w.parent = v.parent
    BY <1>1 DEF ViewsUnder
  <2>3. InShape(w)
    BY <1>1, <2>0, <2>2 DEF InShape
  <2> QED BY <2>1, <2>2, <2>3 DEF Views
<1>7. ASSUME v.kind = "jobs", NEW jobs \in Seq(JobRows)
      PROVE  LET w == WithJobs(v, jobs) IN w \in Views /\ ~w.loading /\ w.parent = v.parent
  <2> DEFINE w == WithJobs(v, jobs)
             c == IF v.cursor = 0 THEN (IF jobs = <<>> THEN 0 ELSE 1)
                  ELSE IF v.cursor > Len(jobs) THEN Len(jobs) ELSE v.cursor
  <2>1. w = [v EXCEPT !.loading = FALSE, !.shows = Fleet, !.jobs = jobs, !.cursor = c]
    BY <1>1 DEF WithJobs, ViewsUnder
  <2>2. Len(jobs) \in Nat /\ (jobs # <<>> => Len(jobs) >= 1)
    OBVIOUS
  <2>3. v.cursor \in Nat
    BY <1>1 DEF ViewsUnder
  <2>4. c \in Nat /\ c <= Len(jobs)
    BY <2>2, <2>3
  <2> HIDE DEF w, c
  <2>5. w \in ViewsUnder(Parents) /\ ~w.loading /\ w.parent = v.parent
    <3>1. [v EXCEPT !.loading = FALSE, !.shows = Fleet] \in ViewsUnder(Parents)
      BY <1>1, FleetIsInt DEF ViewsUnder
    <3>2. w = [[v EXCEPT !.loading = FALSE, !.shows = Fleet] EXCEPT !.jobs = jobs, !.cursor = c]
      BY <2>1
    <3>3. w \in ViewsUnder(Parents)
      BY <2>4, <3>1, <3>2 DEF ViewsUnder
    <3>4. ~w.loading /\ w.parent = v.parent
      BY <1>1, <2>1 DEF ViewsUnder
    <3> QED
      BY <3>3, <3>4
  <2>6. w.cursor = c /\ w.jobs = jobs /\ w.shows = Fleet /\ w.about = v.about /\ w.kind = v.kind
    BY <1>1, <2>1 DEF ViewsUnder
  <2>7. InShape(w)
    BY <1>1, <1>7, <2>4, <2>5, <2>6 DEF InShape
  <2> QED BY <2>5, <2>7 DEF Views, w
<1> QED
  BY <1>3, <1>4, <1>5, <1>6, <1>7

-----------------------------------------------------------------------------
\* The first frame: the poll is in flight and no view is open.
LEMMA ScreenInitially == TermInit => ScreenInv
<1> SUFFICES ASSUME TermInit PROVE ScreenInv
  OBVIOUS
<1>1. world \in Worlds
  BY DEF TermInit, Worlds, JobStates
<1>2. net \in Seq(Requests)
  <2>1. net = <<Ask("fleet", Fleet)>>
    BY DEF TermInit, Ask
  <2> QED BY <2>1, OneRequest, FleetIsInt
<1>3. tab \in Tables
  BY DEF TermInit, Tables
<1>4. view \in Views /\ modal \in Modals /\ view = NoView
  BY DEF TermInit, Views, Modals
<1> QED
  BY <1>1, <1>2, <1>3, <1>4 DEF ScreenInv, TermTyped, ViewIsServed

\* A key of the table: what it makes of the table and which view it opens.
LEMMA TableKeyKeeps ==
  ASSUME ScreenInv, NEW t \in Tables, NEW v \in Views, NEW reqs \in Seq(Requests), TableKey(t, v, reqs),
         v = view \/ (v # NoView => (v.loading => Has(reqs, v.kind, v.about)) /\ v.parent = NoView)
  PROVE  ScreenInv'
<1>1. Becomes(net, t, v, reqs) /\ world' = world /\ modal' = modal
  BY DEF TableKey
<1>2. net \in Seq(Requests) /\ world \in Worlds /\ modal \in Modals
  BY DEF ScreenInv, TermTyped
<1>3. Awaits(v, net, reqs)
  <2>1. CASE v = view
    BY <2>1, ServedAwaits DEF ScreenInv
  <2>2. CASE v # view
    BY <2>2 DEF Awaits
  <2> QED BY <2>1, <2>2
<1>4. world' \in Worlds /\ modal' \in Modals
  BY <1>1, <1>2
<1> QED
  BY <1>1, <1>2, <1>3, <1>4, SentKeeps

\* A key of a view, likewise.
LEMMA ViewKeyKeeps ==
  ASSUME ScreenInv, NEW v \in Views, NEW reqs \in Seq(Requests), ViewKey(v, reqs), Awaits(v, net, reqs)
  PROVE  ScreenInv'
<1>1. Becomes(net, tab, v, reqs) /\ world' = world /\ modal' = modal
  BY DEF ViewKey
<1>2. net \in Seq(Requests) /\ tab \in Tables /\ world \in Worlds /\ modal \in Modals
  BY DEF ScreenInv, TermTyped
<1>4. world' \in Worlds /\ modal' \in Modals
  BY <1>1, <1>2
<1> QED
  BY <1>1, <1>2, <1>4, SentKeeps

\* A key may send nothing.
LEMMA NothingSent == <<>> \in Seq(Requests)
  OBVIOUS

\* The keys of the table, one by one.
LEMMA TableKeys ==
  ASSUME ScreenInv, Move \/ Filter \/ ToggleFree \/ Refresh \/ OpenView \/ Check
  PROVE  ScreenInv'
<1>1. tab \in Tables /\ view \in Views
  BY DEF ScreenInv, TermTyped
<1>2. Chosen(tab) \in Int
  BY <1>1, ChosenRow
<1>3. CASE Move
  <2>1. \A s \in Nat : [tab EXCEPT !.selected = s] \in Tables
    BY <1>1 DEF Tables
  <2>2. tab.selected \in Nat
    BY <1>1 DEF Tables
  <2>3. CASE TableKey([tab EXCEPT !.selected = @ + 1], view, <<>>)
    <3>1. [tab EXCEPT !.selected = @ + 1] = [tab EXCEPT !.selected = tab.selected + 1]
      OBVIOUS
    <3>2. [tab EXCEPT !.selected = @ + 1] \in Tables
      BY <2>1, <2>2, <3>1
    <3> QED BY <1>1, <2>3, <3>2, NothingSent, TableKeyKeeps
  <2>4. CASE tab.selected > 0 /\ TableKey([tab EXCEPT !.selected = @ - 1], view, <<>>)
    <3>1. [tab EXCEPT !.selected = @ - 1] = [tab EXCEPT !.selected = tab.selected - 1]
      OBVIOUS
    <3>2. [tab EXCEPT !.selected = @ - 1] \in Tables
      BY <2>1, <2>2, <2>4, <3>1
    <3> QED BY <1>1, <2>4, <3>2, NothingSent, TableKeyKeeps
  <2> QED BY <1>3, <2>3, <2>4 DEF Move
<1>4. CASE Filter
  <2>1. [tab EXCEPT !.filtering = TRUE, !.filter = Boxes] \in Tables
    BY <1>1 DEF Tables
  <2>2. \A f \in SUBSET Boxes : /\ RecoverSelection([tab EXCEPT !.filtering = FALSE, !.filter = f]) \in Tables
                                /\ RecoverSelection([tab EXCEPT !.filter = f]) \in Tables
    <3> SUFFICES ASSUME NEW f \in SUBSET Boxes
                 PROVE  /\ RecoverSelection([tab EXCEPT !.filtering = FALSE, !.filter = f]) \in Tables
                        /\ RecoverSelection([tab EXCEPT !.filter = f]) \in Tables
      OBVIOUS
    <3>1. [tab EXCEPT !.filtering = FALSE, !.filter = f] \in Tables /\ [tab EXCEPT !.filter = f] \in Tables
      BY <1>1 DEF Tables
    <3> QED BY <3>1, Recovered
  <2>3. tab.filter \in SUBSET Boxes /\ Texts \subseteq SUBSET Boxes
    BY <1>1, TerminalAssumption DEF Tables
  <2>4. PICK t \in Tables : TableKey(t, view, <<>>)
    <3>1. CASE TableKey([tab EXCEPT !.filtering = TRUE, !.filter = Boxes], view, <<>>)
      BY <2>1, <3>1
    <3>2. CASE \E f \in {tab.filter, Boxes} :
                 TableKey(RecoverSelection([tab EXCEPT !.filtering = FALSE, !.filter = f]), view, <<>>)
      BY <2>2, <2>3, <3>2
    <3>3. CASE \E f \in Texts : TableKey(RecoverSelection([tab EXCEPT !.filter = f]), view, <<>>)
      BY <2>2, <2>3, <3>3
    <3> QED BY <1>4, <3>1, <3>2, <3>3 DEF Filter
  <2> QED BY <1>1, <2>4, NothingSent, TableKeyKeeps
<1>5. CASE ToggleFree
  <2>1. [tab EXCEPT !.freeOnly = ~@] \in Tables
    BY <1>1 DEF Tables
  <2>2. RecoverSelection([tab EXCEPT !.freeOnly = ~@]) \in Tables
    BY <2>1, Recovered
  <2> QED BY <1>1, <1>5, <2>2, NothingSent, TableKeyKeeps DEF ToggleFree
<1>6. CASE Refresh
  <2>1. <<Poll>> \in Seq(Requests)
    BY OneRequest, FleetIsInt DEF Poll
  <2> QED BY <1>1, <1>6, <2>1, TableKeyKeeps DEF Refresh
<1>7. CASE Check
  <2>1. <<Ask("check", Chosen(tab))>> \in Seq(Requests)
    BY <1>2, OneRequest DEF Detached
  <2> QED BY <1>1, <1>7, <2>1, TableKeyKeeps DEF Check
<1>8. CASE OpenView
  <2>1. ASSUME NEW kind \in {"leases", "jobs"}, TableKey(tab, Opened(kind, Fleet), <<Load(kind, Fleet)>>)
        PROVE  ScreenInv'
    <3>1. /\ <<Load(kind, Fleet)>> \in Seq(Requests) /\ Has(<<Load(kind, Fleet)>>, kind, Fleet)
      BY OneRequest, FleetIsInt DEF Detached
    <3>2. LET v == Opened(kind, Fleet) IN v \in Views /\ v.kind = kind /\ v.about = Fleet /\ v.parent = NoView
      BY OpenedViews, UnderNothing, FleetIsInt
    <3> QED BY <1>1, <2>1, <3>1, <3>2, TableKeyKeeps
  <2>2. ASSUME NEW kind \in BoxViews \ {"history"},
               TableKey(tab, Opened(kind, Chosen(tab)), <<Load(kind, Chosen(tab))>>)
        PROVE  ScreenInv'
    <3>1. <<Load(kind, Chosen(tab))>> \in Seq(Requests) /\ Has(<<Load(kind, Chosen(tab))>>, kind, Chosen(tab))
      BY <1>2, OneRequest DEF Detached, BoxViews
    <3>2. LET v == Opened(kind, Chosen(tab))
          IN  v \in Views /\ v.kind = kind /\ v.about = Chosen(tab) /\ v.parent = NoView
      BY <1>2, OpenedViews, UnderNothing DEF BoxViews
    <3> QED BY <1>1, <2>2, <3>1, <3>2, TableKeyKeeps
  <2>3. ASSUME TableKey(tab, [Opened("history", Chosen(tab)) EXCEPT !.loading = FALSE,
                                !.shows = IF pane = Chosen(tab) THEN Chosen(tab) ELSE Nobody], <<>>)
        PROVE  ScreenInv'
    <3> DEFINE o == Opened("history", Chosen(tab))
               x == IF pane = Chosen(tab) THEN Chosen(tab) ELSE Nobody
               v == [o EXCEPT !.loading = FALSE, !.shows = x]
    <3>1. o \in ViewsUnder({NoView}) /\ InShape(o) /\ o.about = Chosen(tab) /\ o.kind = "history" /\ o.parent = NoView
      BY <1>2, OpenedViews DEF BoxViews
    <3>2. x \in Int /\ x \in {Nobody, Chosen(tab)}
      BY <1>2 DEF Nobody
    <3> HIDE DEF o, x
    <3>3. v \in ViewsUnder({NoView}) /\ ~v.loading /\ v.parent = NoView
      BY <3>1, <3>2 DEF ViewsUnder
    <3>4. v.shows = x /\ v.about = o.about /\ v.kind = o.kind /\ v.jobs = o.jobs /\ v.cursor = o.cursor
      BY <3>1 DEF ViewsUnder
    <3>5. InShape(v)
      BY <3>1, <3>2, <3>3, <3>4 DEF InShape
    <3>6. v \in Views
      BY <3>3, <3>5, UnderNothing
    <3>7. TableKey(tab, v, <<>>)
      BY <2>3 DEF o, x
    <3> HIDE DEF v
    <3> QED BY <1>1, <3>3, <3>6, <3>7, NothingSent, TableKeyKeeps
  <2> QED BY <1>8, <2>1, <2>2, <2>3 DEF OpenView
<1> QED
  BY <1>3, <1>4, <1>5, <1>6, <1>7, <1>8

\* The keys of a view: the parent is never loading, the log waits for its own.
LEMMA ViewKeys ==
  ASSUME ScreenInv, CloseView \/ Reload \/ MoveCursor \/ OpenLog
  PROVE  ScreenInv'
<1>1. view \in Views /\ view # NoView /\ net \in Seq(Requests)
  BY DEF ScreenInv, TermTyped, CloseView, Reload, MoveCursor, OpenLog, InView
<1>2. view \in ViewsUnder(Parents) /\ InShape(view)
  BY <1>1, NoViewIsNone
<1>3. Awaits(view, net, <<>>)
  BY ServedAwaits DEF ScreenInv
<1>4. CASE CloseView
  <2>1. view.parent \in Parents
    BY <1>2 DEF ViewsUnder
  <2>2. view.parent # NoView => view.parent \in ViewsUnder({NoView}) /\ InShape(view.parent)
    BY <2>1 DEF Parents
  <2>3. view.parent # NoView => view.parent.parent = NoView /\ ~view.parent.loading
    BY <1>1, <1>3, <2>2 DEF ViewsUnder, Awaits
  <2>4. view.parent \in Views
    BY <2>2, UnderNothing DEF Views
  <2>5. Awaits(view.parent, net, <<>>)
    BY <2>3 DEF Awaits
  <2> QED BY <1>4, <2>4, <2>5, NothingSent, ViewKeyKeeps DEF CloseView
<1>5. CASE Reload
  <2> DEFINE v == [view EXCEPT !.loading = TRUE]
  <2>1. v \in Views /\ v.kind = view.kind /\ v.about = view.about /\ v.parent = view.parent
    BY <1>1, Changes
  <2>2. view.kind \in Detached \cup {"fleet", "jobs"} /\ view.about \in Int
    BY <1>2 DEF ViewsUnder, Detached, BoxViews
  <2>3. <<Load(view.kind, view.about)>> \in Seq(Requests)
        /\ Has(<<Load(view.kind, view.about)>>, view.kind, view.about)
    BY <2>2, OneRequest
  <2>4. Awaits(v, net, <<Load(view.kind, view.about)>>)
    BY <1>1, <1>3, <2>1, <2>3 DEF Awaits
  <2>5. ViewKey(v, <<Load(view.kind, view.about)>>)
    BY <1>5 DEF Reload
  <2> HIDE DEF v
  <2> QED BY <2>1, <2>3, <2>4, <2>5, ViewKeyKeeps
<1>6. CASE MoveCursor
  <2>1. PICK c \in DOMAIN view.jobs : ViewKey([view EXCEPT !.cursor = c], <<>>)
    BY <1>6 DEF MoveCursor
  <2> DEFINE v == [view EXCEPT !.cursor = c]
  <2>2. v \in Views /\ v.loading = view.loading /\ v.kind = view.kind /\ v.about = view.about /\ v.parent = view.parent
    <3>1. \A k \in DOMAIN view.jobs :
            /\ [view EXCEPT !.cursor = k] \in Views
            /\ [view EXCEPT !.cursor = k].loading = view.loading /\ [view EXCEPT !.cursor = k].parent = view.parent
            /\ [view EXCEPT !.cursor = k].kind = view.kind /\ [view EXCEPT !.cursor = k].about = view.about
      BY <1>1, Changes, Zenon
    <3> QED BY <3>1, Zenon
  <2>3. Awaits(v, net, <<>>)
    BY <1>1, <1>3, <2>2 DEF Awaits
  <2> HIDE DEF v
  <2>4. ViewKey(v, <<>>)
    BY <2>1 DEF v
  <2> QED BY <2>2, <2>3, <2>4, NothingSent, ViewKeyKeeps
<1>7. CASE OpenLog
  <2> DEFINE job == view.jobs[view.cursor].id
             o == Opened("joblog", job)
             v == [o EXCEPT !.parent = view]
  <2>1. view.kind = "jobs" /\ view.cursor > 0 /\ ~view.loading /\ ViewKey(v, <<Load("joblog", job)>>)
    BY <1>7 DEF OpenLog, Live
  <2>2. view.cursor \in 1..Len(view.jobs) /\ view.jobs \in Seq(JobRows)
    BY <1>2, <2>1 DEF ViewsUnder, InShape
  <2>3. job \in JobIds
    <3>1. view.jobs[view.cursor] \in JobRows
      BY <2>2
    <3> QED BY <3>1 DEF JobRows
  <2>4. job \in Int
    BY <2>3, TerminalAssumption DEF JobIds
  <2> HIDE DEF job
  <2>5. o \in ViewsUnder({NoView}) /\ InShape(o) /\ o.kind = "joblog" /\ o.about = job
    BY <2>4, OpenedViews
  <2> HIDE DEF o
  <2>6. view \in Parents
    <3>1. view.parent = NoView
      BY <1>2, <2>1 DEF InShape
    <3>2. view \in ViewsUnder({NoView})
      BY <1>2, <3>1 DEF ViewsUnder
    <3> QED BY <1>2, <3>2 DEF Parents
  <2>7. v \in ViewsUnder(Parents)
    BY <2>5, <2>6 DEF ViewsUnder
  <2>8. /\ v.parent = view /\ v.kind = o.kind /\ v.about = o.about /\ v.shows = o.shows
        /\ v.jobs = o.jobs /\ v.cursor = o.cursor
    BY <2>5 DEF ViewsUnder
  <2>9. InShape(v)
    BY <2>5, <2>8 DEF InShape
  <2>10. v \in Views
    BY <2>7, <2>9 DEF Views
  <2>11. <<Load("joblog", job)>> \in Seq(Requests) /\ Has(<<Load("joblog", job)>>, "joblog", job)
    BY <2>4, OneRequest DEF Detached
  <2>12. Awaits(v, net, <<Load("joblog", job)>>)
    BY <2>1, <2>5, <2>8, <2>11 DEF Awaits
  <2> HIDE DEF v
  <2> QED BY <2>1, <2>10, <2>11, <2>12, ViewKeyKeeps
<1> QED
  BY <1>4, <1>5, <1>6, <1>7

\* The keys of a modal: only the confirmation sends anything.
LEMMA ModalKeys ==
  ASSUME ScreenInv, OpenModal \/ StopJob \/ Cancel \/ Type \/ OtherField \/ Confirm
  PROVE  ScreenInv'
<1>1. TermTyped /\ ViewIsServed
  BY DEF ScreenInv
<1>2. view \in Views /\ net \in Seq(Requests) /\ tab \in Tables /\ world \in Worlds /\ modal \in Modals
  BY <1>1 DEF TermTyped
<1>3. Chosen(tab) \in Int
  BY <1>2, ChosenRow
<1>4. ASSUME modal' \in Modals, UNCHANGED <<world, net, tab, pane, loaded, view>> PROVE ScreenInv'
  BY <1>1, <1>4 DEF ScreenInv, TermTyped, ViewIsServed
<1>5. CASE OpenModal
  <2>1. modal' \in Modals
    BY <1>3, <1>5, FleetIsInt DEF OpenModal, Modals, Nobody
  <2> QED BY <1>4, <1>5, <2>1 DEF OpenModal
<1>6. CASE StopJob
  <2> DEFINE job == view.jobs[view.cursor].id
  <2>1. view # NoView /\ view.cursor > 0
    BY <1>6 DEF StopJob, InView
  <2>2. view.cursor \in 1..Len(view.jobs) /\ view.jobs \in Seq(JobRows)
    BY <1>2, <2>1, NoViewIsNone DEF ViewsUnder, InShape
  <2>3. view.jobs[view.cursor] \in JobRows
    BY <2>2
  <2>4. job \in Int
    BY <2>3, TerminalAssumption DEF JobRows, JobIds
  <2>5. modal' = [kind |-> "stop-job", about |-> job, typed |-> Nobody, field |-> "confirm"]
    BY <1>6 DEF StopJob
  <2> HIDE DEF job
  <2>6. modal' \in Modals
    BY <2>4, <2>5 DEF Modals, Nobody
  <2> QED BY <1>4, <1>6, <2>6 DEF StopJob
<1>7. CASE Cancel
  <2>1. modal' \in Modals
    BY <1>7 DEF Cancel, Modals
  <2> QED BY <1>4, <1>7, <2>1 DEF Cancel
<1>8. CASE Type
  <2>1. modal' \in Modals
    BY <1>2, <1>8 DEF Type, Modals
  <2> QED BY <1>4, <1>8, <2>1 DEF Type
<1>9. CASE OtherField
  <2>1. modal' \in Modals
    BY <1>2, <1>9 DEF OtherField, Modals
  <2> QED BY <1>4, <1>9, <2>1 DEF OtherField
<1>10. CASE Confirm
  <2>1. modal.kind \in Detached /\ modal.about \in Int
    BY <1>2, <1>10 DEF Confirm, Modals, Detached
  <2>2. Subject(modal) = modal.about
    BY DEF Subject
  <2>3. <<Ask(modal.kind, Subject(modal))>> \in Seq(Requests)
    BY <2>1, <2>2, OneRequest
  <2>4. modal' \in Modals /\ world' \in Worlds
    BY <1>2, <1>10 DEF Confirm, Modals
  <2>5. Awaits(view, net, <<Ask(modal.kind, Subject(modal))>>)
    BY <1>1, ServedAwaits
  <2> QED BY <1>2, <1>10, <2>3, <2>4, <2>5, SentKeeps DEF Confirm
<1> QED
  BY <1>5, <1>6, <1>7, <1>8, <1>9, <1>10

\* A change leaves a fleet.
LEMMA WorldMoves == ASSUME world \in Worlds, WorldNow PROVE world' \in Worlds
<1>1. ASSUME NEW w \in Changed(world) PROVE w \in Worlds
  <2>1. CASE \E b \in world.enrolled : w = [world EXCEPT !.enrolled = @ \ {b}]
    BY <2>1 DEF Worlds
  <2>2. CASE \E b \in Boxes \ world.enrolled : w = [world EXCEPT !.enrolled = @ \cup {b}]
    BY <2>2 DEF Worlds
  <2>3. CASE \E b \in Boxes : w = [world EXCEPT !.free = IF b \in @ THEN @ \ {b} ELSE @ \cup {b}]
    BY <2>3 DEF Worlds
  <2>4. CASE \E j \in JobIds : w = [world EXCEPT !.job[j] = IF @ = "none" THEN "running" ELSE "done"]
    <3>1. PICK j \in JobIds : w = [world EXCEPT !.job[j] = IF @ = "none" THEN "running" ELSE "done"]
      BY <2>4
    <3> DEFINE f == [world.job EXCEPT ![j] = IF @ = "none" THEN "running" ELSE "done"]
    <3>2. f \in [JobIds -> JobStates]
      BY DEF Worlds, JobStates
    <3>3. w = [world EXCEPT !.job = f]
      BY <3>1
    <3> HIDE DEF f
    <3> QED BY <3>2, <3>3 DEF Worlds
  <2> QED BY <1>1, <2>1, <2>2, <2>3, <2>4 DEF Changed
<1>2. CASE \E w \in Changed(world) : world' = [w EXCEPT !.changes = @ + 1]
  BY <1>1, <1>2 DEF Worlds
<1>3. CASE UNCHANGED world
  BY <1>3
<1> QED
  BY <1>2, <1>3 DEF WorldNow

\* The server answers a request and changes neither what it is nor what it is about.
LEMMA ServedKeeps ==
  ASSUME ScreenInv, NEW i \in DOMAIN net, Served(i)
  PROVE  /\ ScreenInv' /\ tab' = tab
         /\ DOMAIN net' = DOMAIN net
         /\ \A j \in DOMAIN net : net'[j].type = net[j].type /\ net'[j].about = net[j].about
         /\ \A j \in DOMAIN net : net[j].type \notin {"fleet", "jobs"} => net'[j] = net[j]
<1> DEFINE ans == IF net[i].type = "jobs" THEN [got |-> "jobs", jobs |-> JobList(world')]
                  ELSE [got |-> "fleet", boxes |-> world'.enrolled, free |-> world'.free \cap world'.enrolled]
<1>1. TermTyped /\ ViewIsServed
  BY DEF ScreenInv
<1>2. net \in Seq(Requests) /\ i \in 1..Len(net) /\ net[i] \in Requests
  BY <1>1 DEF TermTyped
<1>3. world' \in Worlds
  BY <1>1, WorldMoves DEF TermTyped, Served
<1>4. net' = [net EXCEPT ![i].answer = ans] /\ net[i].type \in {"fleet", "jobs"}
      /\ UNCHANGED <<tab, pane, loaded, view, modal>>
  BY DEF Served
<1>5. /\ net[i].type = "jobs" => ans \in [got : {"jobs"}, jobs : Seq(JobRows)]
      /\ net[i].type # "jobs" => ans \in [got : {"fleet"}, boxes : SUBSET Boxes, free : SUBSET Boxes]
  BY <1>3, JobsListed DEF Worlds
<1> HIDE DEF ans
<1>6. [net[i] EXCEPT !.answer = ans] \in Requests
      /\ [net[i] EXCEPT !.answer = ans].type = net[i].type /\ [net[i] EXCEPT !.answer = ans].about = net[i].about
  <2>1. CASE net[i].type = "jobs"
    <3>1. net[i] \in [type : {"jobs"}, about : Int, answer : {Unserved} \cup [got : {"jobs"}, jobs : Seq(JobRows)]]
      BY <1>2, <2>1 DEF Requests, Detached, BoxActions
    <3> QED BY <1>5, <2>1, <3>1 DEF Requests
  <2>2. CASE net[i].type = "fleet"
    <3>1. net[i] \in [type : {"fleet"}, about : Int,
                      answer : {Unserved} \cup [got : {"fleet"}, boxes : SUBSET Boxes, free : SUBSET Boxes]]
      BY <1>2, <2>2 DEF Requests, Detached, BoxActions
    <3> QED BY <1>5, <2>2, <3>1 DEF Requests
  <2> QED BY <1>4, <2>1, <2>2
<1> DEFINE r == [net[i] EXCEPT !.answer = ans]
<1>7. net' = [net EXCEPT ![i] = r]
  BY <1>4
<1> HIDE DEF r
<1>8. r \in Requests /\ r.type = net[i].type /\ r.about = net[i].about
  BY <1>6 DEF r
<1>9. net' \in Seq(Requests) /\ DOMAIN net' = DOMAIN net /\ \A j \in DOMAIN net : net'[j] = IF j = i THEN r ELSE net[j]
  BY <1>2, <1>7, <1>8
<1>10. TermTyped'
  BY <1>1, <1>3, <1>4, <1>9 DEF TermTyped
<1>11. \A j \in DOMAIN net : net'[j].type = net[j].type /\ net'[j].about = net[j].about
  BY <1>8, <1>9
<1>12. ViewIsServed'
  BY <1>1, <1>4, <1>9, <1>11 DEF ViewIsServed
<1>13. \A j \in DOMAIN net : net[j].type \notin {"fleet", "jobs"} => net'[j] = net[j]
  BY <1>4, <1>9
<1> QED
  BY <1>4, <1>9, <1>10, <1>11, <1>12, <1>13 DEF ScreenInv

\* An answer that is not the open view's leaves the view its request.
LEMMA OthersAnswer ==
  ASSUME ScreenInv, NEW i \in DOMAIN net, ~IsOpen(net[i].type, net[i].about)
  PROVE  \A reqs : Awaits(view, Without(i), reqs)
<1>1. net \in Seq(Requests)
  BY DEF ScreenInv, TermTyped
<1>2. view # NoView => ~(net[i].type = view.kind /\ net[i].about = view.about)
  BY DEF IsOpen
<1>3. view # NoView /\ view.loading => Has(net, view.kind, view.about)
  BY DEF ScreenInv, ViewIsServed, Has
<1>4. view # NoView /\ view.loading => Has(Without(i), view.kind, view.about)
  BY <1>1, <1>2, <1>3, TakenOut DEF Without
<1> QED
  BY <1>4 DEF Awaits, ScreenInv, ViewIsServed

\* An answer that lands: the open view's ends its loading, any other is dropped.
LEMMA Answers ==
  ASSUME ScreenInv, NEW i \in DOMAIN net,
         FleetAnswer(i) \/ DetailAnswer(i) \/ ViewAnswer(i) \/ ActionAnswer(i)
  PROVE  ScreenInv'
<1>1. TermTyped /\ ViewIsServed
  BY DEF ScreenInv
<1>2. view \in Views /\ net \in Seq(Requests) /\ tab \in Tables /\ world \in Worlds /\ modal \in Modals
  BY <1>1 DEF TermTyped
<1>3. Without(i) \in Seq(Requests) /\ net[i] \in Requests
  BY <1>2, TakenOut DEF Without
<1>4. world' \in Worlds /\ modal' \in Modals
  BY <1>2 DEF FleetAnswer, DetailAnswer, ViewAnswer, ActionAnswer
<1>5. view # NoView => view \in ViewsUnder(Parents) /\ InShape(view)
  BY <1>2, NoViewIsNone
<1>6. CASE net[i].type \notin BoxViews \cup {"leases", "jobs", "joblog"}
  <2>1. ~IsOpen(net[i].type, net[i].about)
    BY <1>5, <1>6 DEF IsOpen, ViewsUnder
  <2>2. \A reqs : Awaits(view, Without(i), reqs)
    BY <2>1, OthersAnswer
  <2>3. CASE FleetAnswer(i)
    <3>1. CASE net[i].answer # Unserved /\ Becomes(Without(i), ApplyFleet(tab, net[i].answer), view, <<>>)
      <4>1. net[i].answer \in [got : {"fleet"}, boxes : SUBSET Boxes, free : SUBSET Boxes]
        BY <1>3, <2>3, <3>1 DEF FleetAnswer, Requests, Detached, BoxActions
      <4>2. ApplyFleet(tab, net[i].answer) \in Tables
        BY <1>2, <4>1, Applied
      <4> QED BY <1>2, <1>3, <1>4, <2>2, <3>1, <4>2, NothingSent, SentKeeps
    <3>2. CASE Becomes(Without(i), tab, view, <<>>)
      BY <1>2, <1>3, <1>4, <2>2, <3>2, NothingSent, SentKeeps
    <3> QED BY <2>3, <3>1, <3>2 DEF FleetAnswer
  <2>4. CASE DetailAnswer(i)
    BY <1>2, <1>3, <1>4, <2>2, <2>4, NothingSent, SentKeeps DEF DetailAnswer
  <2>5. CASE ActionAnswer(i)
    <3>1. <<Poll>> \in Seq(Requests) /\ <<Load("jobs", Fleet)>> \in Seq(Requests)
      BY OneRequest, FleetIsInt DEF Poll
    <3>2. PICK reqs \in Seq(Requests) : Becomes(Without(i), tab, view, reqs)
      BY <2>5, <3>1, NothingSent DEF ActionAnswer
    <3> QED BY <1>2, <1>3, <1>4, <2>2, <3>2, SentKeeps
  <2> QED BY <1>6, <2>3, <2>4, <2>5 DEF ViewAnswer
<1>7. CASE net[i].type \in BoxViews \cup {"leases", "jobs", "joblog"}
  <2>1. ViewAnswer(i)
    BY <1>7 DEF FleetAnswer, DetailAnswer, ActionAnswer, BoxViews, BoxActions
  <2>2. CASE ~IsOpen(net[i].type, net[i].about)
    <3>1. Becomes(Without(i), tab, view, <<>>)
      BY <2>1, <2>2 DEF ViewAnswer
    <3> QED BY <1>2, <1>3, <1>4, <2>2, <3>1, OthersAnswer, NothingSent, SentKeeps
  <2>3. CASE IsOpen(net[i].type, net[i].about)
    <3>1. view # NoView /\ view.kind = net[i].type /\ view.about = net[i].about
      BY <2>3 DEF IsOpen
    <3>2. PICK v : Becomes(Without(i), tab, v, <<>>) /\ v \in Views /\ ~v.loading /\ v.parent = view.parent
      <4> DEFINE failed == IF net[i].type = "jobs" THEN [view EXCEPT !.loading = FALSE, !.jobs = <<>>, !.cursor = 0]
                           ELSE [view EXCEPT !.loading = FALSE]
                 shown == [view EXCEPT !.loading = FALSE, !.shows = net[i].about]
                 listed == WithJobs(view, net[i].answer.jobs)
      <4>1. failed \in Views /\ ~failed.loading /\ failed.parent = view.parent
        <5>1. LET w == [view EXCEPT !.loading = FALSE, !.jobs = <<>>, !.cursor = 0]
              IN  w \in Views /\ ~w.loading /\ w.parent = view.parent
          BY <1>2, <3>1, Changes, Zenon
        <5>2. LET w == [view EXCEPT !.loading = FALSE]
              IN  w \in Views /\ ~w.loading /\ w.parent = view.parent
          BY <1>2, <3>1, Changes
        <5> QED BY <5>1, <5>2
      <4>2. shown \in Views /\ ~shown.loading /\ shown.parent = view.parent
        <5>1. LET w == [view EXCEPT !.loading = FALSE, !.shows = view.about]
              IN  w \in Views /\ ~w.loading /\ w.parent = view.parent
          BY <1>2, <3>1, Changes, Zenon
        <5> QED BY <5>1, <3>1
      <4>3. net[i].answer # Unserved => listed \in Views /\ ~listed.loading /\ listed.parent = view.parent
        <5> SUFFICES ASSUME net[i].answer # Unserved
                     PROVE  listed \in Views /\ ~listed.loading /\ listed.parent = view.parent
          OBVIOUS
        <5>1. view.kind = "jobs" /\ net[i].answer \in [got : {"jobs"}, jobs : Seq(JobRows)]
          BY <1>3, <1>7, <3>1 DEF Requests, Detached, BoxActions, BoxViews
        <5>2. net[i].answer.jobs \in Seq(JobRows)
          BY <5>1
        <5>3. \A jobs \in Seq(JobRows) :
                LET w == WithJobs(view, jobs) IN w \in Views /\ ~w.loading /\ w.parent = view.parent
          BY <1>2, <3>1, <5>1, Changes, Zenon
        <5> QED BY <5>2, <5>3
      <4>4. \/ Becomes(Without(i), tab, failed, <<>>)
            \/ Becomes(Without(i), tab, shown, <<>>)
            \/ net[i].answer # Unserved /\ Becomes(Without(i), tab, listed, <<>>)
        BY <2>1, <2>3 DEF ViewAnswer
      <4> HIDE DEF failed, shown, listed
      <4> QED BY <4>1, <4>2, <4>3, <4>4
    <3>3. Awaits(v, Without(i), <<>>)
      BY <1>1, <3>1, <3>2 DEF Awaits, ViewIsServed
    <3> QED BY <1>2, <1>3, <1>4, <3>2, <3>3, NothingSent, SentKeeps
  <2> QED BY <2>2, <2>3
<1> QED
  BY <1>6, <1>7

\* The timer's poll only adds a request.
LEMMA Polled == ASSUME ScreenInv, IntervalPoll PROVE ScreenInv'
<1>1. TermTyped /\ ViewIsServed
  BY DEF ScreenInv
<1>2. view \in Views /\ net \in Seq(Requests) /\ tab \in Tables /\ world \in Worlds /\ modal \in Modals
  BY <1>1 DEF TermTyped
<1>3. <<Poll>> \in Seq(Requests)
  BY OneRequest, FleetIsInt DEF Poll
<1>4. Awaits(view, net, <<Poll>>)
  BY <1>1, ServedAwaits
<1>5. world' \in Worlds /\ modal' \in Modals
  BY <1>2 DEF IntervalPoll
<1> QED
  BY <1>2, <1>3, <1>4, <1>5, SentKeeps DEF IntervalPoll

\* Every step keeps the screen true.
LEMMA ScreenStep == ScreenInv /\ [TermNext]_termVars => ScreenInv'
<1> SUFFICES ASSUME ScreenInv, [TermNext]_termVars PROVE ScreenInv'
  OBVIOUS
<1>1. CASE Key
  BY <1>1, TableKeys, ViewKeys, ModalKeys DEF Key
<1>2. CASE IntervalPoll
  BY <1>2, Polled
<1>3. ASSUME NEW i \in DOMAIN net, Served(i) \/ FleetAnswer(i) \/ DetailAnswer(i) \/ ViewAnswer(i) \/ ActionAnswer(i)
      PROVE  ScreenInv'
  BY <1>3, ServedKeeps, Answers
<1>4. CASE UNCHANGED termVars
  BY <1>4 DEF termVars, ScreenInv, TermTyped, ViewIsServed
<1> QED
  BY <1>1, <1>2, <1>3, <1>4 DEF TermNext

\* It is an invariant of the terminal.
LEMMA ScreenInvariant == TermSpec => []ScreenInv
  BY ScreenInitially, ScreenStep, PTL DEF TermSpec

-----------------------------------------------------------------------------
(* What is painted.                                                         *)

\* A cursor that is on a row is within the bottom-anchored window, which is no
\* longer than the rows there are for it and holds the whole of a list that fits.
LEMMA WindowHolds ==
  ASSUME NEW total \in Nat, NEW cursor \in Nat, NEW rows \in Nat, rows > 0, cursor < total
  PROVE  LET win == Viewport(total, Anchor(cursor, rows), rows)
         IN  /\ win[1] <= cursor /\ cursor < win[2] /\ win[2] - win[1] <= rows
             /\ total <= rows => win[2] - win[1] = total
  BY DEF Viewport, Anchor

\* The selected row is painted, with its header and the indicator, from three rows on.
LEMMA TablePainted ==
  ASSUME TermTyped, NEW h \in Heights, Chosen(tab) # Nobody
  PROVE  LET win == TableWindow(tab, h)
             more == IF win[2] - win[1] < Rows(tab) THEN 1 ELSE 0
         IN  /\ win[1] <= tab.selected /\ tab.selected < win[2]
             /\ h >= 3 => 1 + (win[2] - win[1]) + more <= h
<1> DEFINE win == TableWindow(tab, h)
           rows == BoxRows(tab, h)
<1>1. h \in Nat /\ h # 0
  BY TerminalAssumption
<1>2. tab \in Tables /\ tab.selected \in Nat
  BY DEF TermTyped, Tables
<1>3. Rows(tab) \in Nat /\ tab.selected < Rows(tab)
  BY <1>2, RowsCounted, ChosenRow
<1>4. /\ rows \in Nat /\ rows > 0
      /\ h >= 3 => rows <= h - 1 /\ (Rows(tab) > rows => rows <= h - 2)
  BY <1>1, <1>3 DEF BoxRows
<1> HIDE DEF rows
<1>5. /\ win[1] <= tab.selected /\ tab.selected < win[2] /\ win[2] - win[1] <= rows
      /\ Rows(tab) <= rows => win[2] - win[1] = Rows(tab)
  BY <1>2, <1>3, <1>4, WindowHolds DEF TableWindow, rows
<1>6. win[1] \in Int /\ win[2] \in Int
  BY <1>2, <1>3, <1>4 DEF TableWindow, Viewport, Anchor, rows
<1> HIDE DEF win
<1>7. h >= 3 => 1 + (win[2] - win[1]) + (IF win[2] - win[1] < Rows(tab) THEN 1 ELSE 0) <= h
  BY <1>1, <1>3, <1>4, <1>5, <1>6
<1> QED
  BY <1>5, <1>7 DEF win

\* So is the job under the cursor, whose list counts its header.
LEMMA JobPainted ==
  ASSUME TermTyped, NEW h \in Heights, view # NoView, Live(view)
  PROVE  LET win == JobsWindow(view, h) IN win[1] <= view.cursor /\ view.cursor < win[2]
<1>1. h \in Nat /\ h > 0
  BY TerminalAssumption
<1>2. view \in ViewsUnder(Parents) /\ InShape(view)
  BY NoViewIsNone DEF TermTyped
<1>3. /\ view.cursor \in Nat /\ view.jobs \in Seq(JobRows) /\ Len(view.jobs) \in Nat
      /\ view.cursor > 0 /\ ~view.loading /\ view.cursor <= Len(view.jobs)
  BY <1>2 DEF ViewsUnder, InShape, Live
<1>4. view.jobs # <<>>
  BY <1>3
<1>5. Content(view) = 1 + Len(view.jobs)
  BY <1>3, <1>4 DEF Content
<1>6. Content(view) \in Nat /\ view.cursor < Content(view)
  BY <1>3, <1>5
<1> QED
  BY <1>1, <1>3, <1>6, WindowHolds DEF JobsWindow

\* An open view that loads has its own request in flight, its parent is never
\* loading, what it shows is about its title, and the row a key acts on is painted
\* at every height (applyViewResult, handleViewKey, tableWindow, viewLines).
THEOREM ScreenShowsTruth == TermSpec => []ScreenIsTrue
<1>1. ScreenInv => ScreenIsTrue
  BY TablePainted, JobPainted DEF ScreenInv, ScreenIsTrue, ActedRowPainted
<1> QED
  BY <1>1, ScreenInvariant, PTL

-----------------------------------------------------------------------------
(* What is acted on.                                                        *)

Dangerous == BoxActions \cup {"reconcile", "stop-job"}

\* The requests that a key other than the confirmation sends, or an answer.
Quiet(reqs) ==
  reqs = <<>> \/ \E kind \in (Detached \cup {"fleet", "jobs"}) \ Dangerous, about \in Int : reqs = <<Ask(kind, about)>>

\* Quiet requests are requests, and none is dangerous.
LEMMA QuietRequests ==
  ASSUME NEW reqs, Quiet(reqs)
  PROVE  reqs \in Seq(Requests) /\ \A k \in DOMAIN reqs : reqs[k].type \notin Dangerous
<1>1. CASE reqs = <<>>
  BY <1>1
<1>2. ASSUME NEW kind \in (Detached \cup {"fleet", "jobs"}) \ Dangerous, NEW about \in Int, reqs = <<Ask(kind, about)>>
      PROVE  reqs \in Seq(Requests) /\ \A k \in DOMAIN reqs : reqs[k].type \notin Dangerous
  <2>1. Ask(kind, about).type = kind /\ reqs \in Seq(Requests)
    BY <1>2, Asked, OneRequest
  <2>2. \A k \in DOMAIN reqs : reqs[k] = Ask(kind, about)
    BY <1>2
  <2> QED BY <2>1, <2>2
<1> QED
  BY <1>1, <1>2 DEF Quiet

\* A request is in flight a number of times.
LEMMA Counted == ASSUME NEW n \in Seq(Requests), NEW r PROVE Times(r, n) \in Nat
<1>1. IsFiniteSet(DOMAIN n)
  <2>1. Len(n) \in Nat /\ DOMAIN n = 1..Len(n)
    OBVIOUS
  <2> QED BY <2>1, FS_Interval
<1>2. IsFiniteSet({i \in DOMAIN n : n[i] = r})
  BY <1>1, FS_Subset
<1> QED
  BY <1>2, FS_CardinalityType DEF Times

\* No dangerous request is added by a step that sends quiet ones.
LEMMA QuietSteps ==
  ASSUME ScreenInv, ScreenInv', NEW n \in Seq(Requests), NEW reqs, NEW t, NEW v, Quiet(reqs), Becomes(n, t, v, reqs),
         \A r : Times(r, n) <= Times(r, net)
  PROVE  \A r : r.type \in Dangerous => ~(Times(r, net') > Times(r, net))
<1>1. reqs \in Seq(Requests) /\ \A k \in DOMAIN reqs : reqs[k].type \notin Dangerous
  BY QuietRequests
<1>2. t \in Tables /\ v \in Views
  BY DEF ScreenInv, TermTyped, Becomes
<1>3. net \in Seq(Requests)
  BY DEF ScreenInv, TermTyped
<1> SUFFICES ASSUME NEW r, r.type \in Dangerous PROVE ~(Times(r, net') > Times(r, net))
  OBVIOUS
<1>4. r.type # "detail" /\ \A k \in DOMAIN reqs : reqs[k] # r
  BY <1>1 DEF Dangerous, BoxActions
<1>5. Times(r, net') = Times(r, n)
  BY <1>1, <1>2, <1>4, Sent
<1> QED
  BY <1>3, <1>5, Counted

\* Every key but the confirmation.
LEMMA KeysAreQuiet ==
  ASSUME ScreenInv, Key, ~Confirm
  PROVE  UNCHANGED net \/ \E reqs : Quiet(reqs) /\ Becomes(net, tab', view', reqs)
<1>1. tab \in Tables /\ view \in Views /\ modal \in Modals
  BY DEF ScreenInv, TermTyped
<1>2. Chosen(tab) \in Int /\ Fleet \in Int
  BY <1>1, ChosenRow, FleetIsInt
<1>3. Quiet(<<>>)
  BY DEF Quiet
<1>4. ASSUME NEW t, NEW v, NEW reqs, Quiet(reqs), TableKey(t, v, reqs)
      PROVE  \E q : Quiet(q) /\ Becomes(net, tab', view', q)
  <2>1. Becomes(net, t, v, reqs) /\ tab' = t /\ view' = v
    BY <1>4 DEF TableKey, Becomes
  <2> QED BY <1>4, <2>1
<1>5. ASSUME NEW v, NEW reqs, Quiet(reqs), ViewKey(v, reqs)
      PROVE  \E q : Quiet(q) /\ Becomes(net, tab', view', q)
  <2>1. Becomes(net, tab, v, reqs) /\ tab' = tab /\ view' = v
    BY <1>5 DEF ViewKey, Becomes
  <2> QED BY <1>5, <2>1
<1>6. \A kind \in (Detached \cup {"fleet", "jobs"}) \ Dangerous, about \in Int :
        Quiet(<<Ask(kind, about)>>) /\ Quiet(<<Load(kind, about)>>)
  BY DEF Quiet, Load
<1>7. CASE OpenModal \/ StopJob \/ Cancel \/ Type \/ OtherField
  BY <1>7 DEF OpenModal, StopJob, Cancel, Type, OtherField
<1>8. CASE Move \/ Filter \/ ToggleFree
  BY <1>3, <1>4, <1>8 DEF Move, Filter, ToggleFree
<1>9. CASE Refresh
  <2>1. Quiet(<<Poll>>)
    BY <1>2, <1>6 DEF Poll, Dangerous, BoxActions
  <2> QED BY <1>4, <1>9, <2>1 DEF Refresh
<1>10. CASE Check
  <2>1. Quiet(<<Ask("check", Chosen(tab))>>)
    BY <1>2, <1>6 DEF Detached, Dangerous, BoxActions
  <2> QED BY <1>4, <1>10, <2>1 DEF Check
<1>11. CASE OpenView
  <2>1. \A kind \in {"leases", "jobs"} : Quiet(<<Load(kind, Fleet)>>)
    BY <1>2, <1>6 DEF Detached, Dangerous, BoxActions
  <2>2. \A kind \in BoxViews \ {"history"} : Quiet(<<Load(kind, Chosen(tab))>>)
    BY <1>2, <1>6 DEF Detached, Dangerous, BoxActions, BoxViews
  <2> QED BY <1>3, <1>4, <1>11, <2>1, <2>2 DEF OpenView
<1>12. CASE CloseView \/ MoveCursor
  BY <1>3, <1>5, <1>12 DEF CloseView, MoveCursor
<1>13. CASE Reload
  <2>1. view \in ViewsUnder(Parents)
    BY <1>1, <1>13, NoViewIsNone DEF Reload, InView
  <2>2. view.kind \in (Detached \cup {"fleet", "jobs"}) \ Dangerous /\ view.about \in Int
    BY <2>1 DEF ViewsUnder, Detached, Dangerous, BoxActions, BoxViews
  <2>3. Quiet(<<Load(view.kind, view.about)>>)
    BY <1>6, <2>2
  <2> QED BY <1>5, <1>13, <2>3 DEF Reload
<1>14. CASE OpenLog
  <2> DEFINE job == view.jobs[view.cursor].id
  <2>1. view # NoView /\ view.cursor > 0
    BY <1>14 DEF OpenLog, InView, Live
  <2>2. view.cursor \in 1..Len(view.jobs) /\ view.jobs \in Seq(JobRows)
    BY <1>1, <2>1, NoViewIsNone DEF ViewsUnder, InShape
  <2>3. view.jobs[view.cursor] \in JobRows
    BY <2>2
  <2>4. job \in Int
    BY <2>3, TerminalAssumption DEF JobRows, JobIds
  <2>5. ViewKey([Opened("joblog", job) EXCEPT !.parent = view], <<Load("joblog", job)>>)
    BY <1>14 DEF OpenLog
  <2> HIDE DEF job
  <2>6. Quiet(<<Load("joblog", job)>>)
    BY <1>6, <2>4 DEF Detached, Dangerous, BoxActions
  <2> QED BY <1>5, <2>5, <2>6
<1> QED
  BY <1>7, <1>8, <1>9, <1>10, <1>11, <1>12, <1>13, <1>14 DEF Key

\* An answer leaves the others in flight, and only a poll's moves the rows.
LEMMA AnswersAreQuiet ==
  ASSUME ScreenInv, NEW i \in DOMAIN net, FleetAnswer(i) \/ DetailAnswer(i) \/ ViewAnswer(i) \/ ActionAnswer(i)
  PROVE  /\ \E reqs : Quiet(reqs) /\ Becomes(Without(i), tab', view', reqs)
         /\ Chosen(tab) \in Listed(tab') => Chosen(tab') = Chosen(tab)
<1>1. Quiet(<<>>)
  BY DEF Quiet
<1>2. ASSUME NEW t, NEW v, NEW reqs, Quiet(reqs), Becomes(Without(i), t, v, reqs)
      PROVE  tab' = t /\ \E q : Quiet(q) /\ Becomes(Without(i), tab', view', q)
  <2>1. tab' = t /\ view' = v
    BY <1>2 DEF Becomes
  <2> QED BY <1>2, <2>1
<1>3. CASE FleetAnswer(i) /\ net[i].answer # Unserved /\ Becomes(Without(i), ApplyFleet(tab, net[i].answer), view, <<>>)
  <2>1. tab \in Tables /\ net[i] \in Requests
    BY DEF ScreenInv, TermTyped
  <2>2. net[i].answer \in [got : {"fleet"}, boxes : SUBSET Boxes, free : SUBSET Boxes]
    BY <1>3, <2>1 DEF FleetAnswer, Requests, Detached, BoxActions
  <2>3. tab' = ApplyFleet(tab, net[i].answer) /\ \E q : Quiet(q) /\ Becomes(Without(i), tab', view', q)
    BY <1>1, <1>2, <1>3
  <2> QED BY <2>1, <2>2, <2>3, Applied
<1>4. CASE FleetAnswer(i) /\ Becomes(Without(i), tab, view, <<>>)
  BY <1>1, <1>2, <1>4
<1>5. CASE DetailAnswer(i)
  BY <1>1, <1>2, <1>5 DEF DetailAnswer
<1>6. CASE ViewAnswer(i)
  <2>1. \E v : Becomes(Without(i), tab, v, <<>>)
    BY <1>6, Zenon DEF ViewAnswer
  <2> QED BY <1>1, <1>2, <2>1
<1>7. CASE ActionAnswer(i)
  <2>1. Quiet(<<Poll>>) /\ Quiet(<<Load("jobs", Fleet)>>)
    BY FleetIsInt DEF Quiet, Poll, Load, Dangerous, BoxActions
  <2>2. \E reqs : Quiet(reqs) /\ Becomes(Without(i), tab, view, reqs)
    BY <1>1, <1>7, <2>1 DEF ActionAnswer
  <2> QED BY <1>2, <2>2
<1> QED
  BY <1>3, <1>4, <1>5, <1>6, <1>7 DEF FleetAnswer

\* What a step must do: the two properties without their boxes.
OneTarget ==
  \A i \in DOMAIN net' :
    (Times(net'[i], net') > Times(net'[i], net) /\ net'[i].type \in BoxActions \cup {"reconcile", "stop-job"})
      => (modal # NoModal /\ net'[i].type = modal.kind /\ net'[i].about = modal.typed)
OneSelection == ~IsPrefix(net, net') => (Chosen(tab) \in Listed(tab') => Chosen(tab') = Chosen(tab))

\* Every step does.
LEMMA ActsStep == ScreenInv /\ [TermNext]_termVars => OneTarget /\ OneSelection
<1> SUFFICES ASSUME ScreenInv, [TermNext]_termVars PROVE OneTarget /\ OneSelection
  OBVIOUS
<1>1. ScreenInv'
  BY ScreenStep
<1>2. net \in Seq(Requests) /\ net' \in Seq(Requests) /\ tab' \in Tables /\ view' \in Views
  BY <1>1 DEF ScreenInv, TermTyped
<1>3. \A r : Times(r, net) \in Nat /\ Times(r, net') \in Nat
  BY <1>2, Counted
<1>4. ASSUME \A r : r.type \in Dangerous => ~(Times(r, net') > Times(r, net)) PROVE OneTarget
  BY <1>4 DEF OneTarget, Dangerous
<1>5. CASE UNCHANGED net
  <2>1. IsPrefix(net, net')
    BY <1>2, <1>5 DEF IsPrefix
  <2>2. \A r : ~(Times(r, net') > Times(r, net))
    BY <1>3, <1>5
  <2> QED BY <1>4, <2>1, <2>2 DEF OneSelection
<1>6. ASSUME NEW reqs, Quiet(reqs), Becomes(net, tab', view', reqs) PROVE OneTarget /\ OneSelection
  <2>1. IsPrefix(net, net')
    BY <1>2, <1>6, QuietRequests, Sent
  <2>2. \A r : Times(r, net) <= Times(r, net)
    BY <1>3
  <2>3. \A r : r.type \in Dangerous => ~(Times(r, net') > Times(r, net))
    BY <1>1, <1>2, <1>6, <2>2, QuietSteps
  <2> QED BY <1>4, <2>1, <2>3 DEF OneSelection
<1>7. CASE Confirm
  <2> DEFINE a == Ask(modal.kind, modal.about)
  <2>1. modal # NoModal /\ modal.typed = modal.about /\ Becomes(net, tab, view, <<a>>)
    BY <1>7 DEF Confirm, Subject
  <2>2. tab \in Tables /\ view \in Views /\ modal \in Modals
    BY DEF ScreenInv, TermTyped
  <2>3. modal.kind \in Detached /\ modal.about \in Int
    BY <2>1, <2>2 DEF Modals, Detached
  <2>4. a.type = modal.kind /\ a.about = modal.about /\ <<a>> \in Seq(Requests)
    BY <2>3, Asked, OneRequest
  <2> HIDE DEF a
  <2>5. /\ IsPrefix(net, net')
        /\ \A r : r.type # "detail" /\ (\A k \in DOMAIN <<a>> : <<a>>[k] # r) => Times(r, net') = Times(r, net)
    BY <1>2, <2>1, <2>2, <2>4, Sent
  <2>6. \A r : r # a => \A k \in DOMAIN <<a>> : <<a>>[k] # r
    OBVIOUS
  <2>7. OneTarget
    <3> SUFFICES ASSUME NEW i \in DOMAIN net', Times(net'[i], net') > Times(net'[i], net), net'[i].type \in Dangerous
                 PROVE  net'[i] = a
      BY <2>1, <2>4 DEF OneTarget, Dangerous
    <3>1. net'[i].type # "detail"
      BY DEF Dangerous, BoxActions
    <3>2. Times(net'[i], net') # Times(net'[i], net)
      BY <1>3
    <3> QED BY <2>5, <2>6, <3>1, <3>2
  <2> QED BY <2>5, <2>7 DEF OneSelection
<1>8. CASE Key
  BY <1>5, <1>6, <1>7, <1>8, KeysAreQuiet
<1>9. CASE IntervalPoll
  <2>1. Quiet(<<Poll>>)
    BY FleetIsInt DEF Quiet, Poll, Dangerous, BoxActions
  <2>2. Becomes(net, tab', view', <<Poll>>)
    BY <1>9 DEF IntervalPoll, Becomes
  <2> QED BY <1>6, <2>1, <2>2
<1>10. ASSUME NEW i \in DOMAIN net, Served(i) PROVE OneTarget /\ OneSelection
  <2>1. /\ tab' = tab /\ DOMAIN net' = DOMAIN net
        /\ \A j \in DOMAIN net : net'[j].type = net[j].type
        /\ \A j \in DOMAIN net : net[j].type \notin {"fleet", "jobs"} => net'[j] = net[j]
    BY <1>10, ServedKeeps
  <2>2. \A r : r.type \in Dangerous => {j \in DOMAIN net' : net'[j] = r} = {j \in DOMAIN net : net[j] = r}
    BY <2>1 DEF Dangerous, BoxActions
  <2>3. \A r : r.type \in Dangerous => Times(r, net') = Times(r, net)
    BY <2>2 DEF Times
  <2> QED BY <1>3, <1>4, <2>1, <2>3 DEF OneSelection
<1>11. ASSUME NEW i \in DOMAIN net, FleetAnswer(i) \/ DetailAnswer(i) \/ ViewAnswer(i) \/ ActionAnswer(i)
       PROVE  OneTarget /\ OneSelection
  <2>1. OneSelection
    BY <1>11, AnswersAreQuiet DEF OneSelection
  <2>2. PICK reqs : Quiet(reqs) /\ Becomes(Without(i), tab', view', reqs)
    BY <1>11, AnswersAreQuiet
  <2>3. Without(i) \in Seq(Requests) /\ \A r : Times(r, Without(i)) <= Times(r, net)
    BY <1>2, TakenOut DEF Without
  <2>4. \A r : r.type \in Dangerous => ~(Times(r, net') > Times(r, net))
    BY <1>1, <2>2, <2>3, QuietSteps
  <2> QED BY <1>4, <2>1, <2>4
<1>12. CASE UNCHANGED termVars
  BY <1>5, <1>12 DEF termVars
<1> QED
  BY <1>8, <1>9, <1>10, <1>11, <1>12 DEF TermNext

\* A dangerous request is for the name the operator typed, and no answer moves
\* the selection off a box that is still listed (handleModalKey, stopSelectedJob,
\* applyFleet).
THEOREM KeysActOnChoice == TermSpec => ActsOnChoice
<1>1. ScreenInv /\ [TermNext]_termVars
        => [\A i \in DOMAIN net' :
              (Times(net'[i], net') > Times(net'[i], net) /\ net'[i].type \in BoxActions \cup {"reconcile", "stop-job"})
                => (modal # NoModal /\ net'[i].type = modal.kind /\ net'[i].about = modal.typed)]_termVars
  BY ActsStep DEF OneTarget
<1>2. ScreenInv /\ [TermNext]_termVars
        => [~IsPrefix(net, net') => (Chosen(tab) \in Listed(tab') => Chosen(tab') = Chosen(tab))]_termVars
  BY ActsStep DEF OneSelection
<1> QED
  BY <1>1, <1>2, ScreenInvariant, PTL DEF TermSpec, ActsOnChoice, ConfirmedTarget, SelectionFollows

=============================================================================
