------------------------------ MODULE AuthKeys ------------------------------
(***************************************************************************)
(* One box's Tailscale auth key: the keys that exist at Tailscale, the one *)
(* in secrets/ts-authkey on the box and the one the store's box_keys row   *)
(* names.  The tick's mint and rotate, the API's rotate-key and the CLI's  *)
(* mint-key (actions/mint.ts, actions/rotate.ts) go through one sequence:  *)
(* create, seed over the tunnel, verify and record, revoke the key that    *)
(* failed or the one it replaces.  The box loses its node state, swaps its *)
(* image and is enrolled again in the meantime, and 90 days pass.          *)
(***************************************************************************)
EXTENDS Integers, FiniteSets

CONSTANTS
  Keys,        \* the keys Tailscale can make: numbers above 0, and 0 is no key
  Life,        \* a key's life, in units of time (FLEET_KEY_EXPIRY_SECS)
  Window,      \* what is left of it when the brain rotates (7 days)
  MaxClock,    \* bound: units of time that pass
  MaxAsks,     \* bound: rotate-key requests
  MaxLetGo,    \* bound: times a working key is left behind on purpose
  MaxFaults,   \* bound: calls that fail or whose answer is lost
  MaxCrashes,  \* bound: programs that die half way
  MaxEvents    \* bound: of the last four together

ASSUME KeyAssumption ==
  /\ Keys \subseteq Nat \ {0}
  /\ {Life, Window, MaxClock, MaxAsks, MaxLetGo, MaxFaults, MaxCrashes, MaxEvents}
       \subseteq Nat

VARIABLES
  born,     \* born[k]: when Tailscale created it
  live,     \* the keys nobody deleted at Tailscale
  boxKey,   \* secrets/ts-authkey on the box
  rec,      \* the key_id of the box_keys row
  bound,    \* the tunnel key on file is the box's: the tunnel is up
  online,   \* the box is on the tailnet
  op,       \* op[p]: the mint program p is in the middle of
  clock, asks, letGo, faults, crashes

vars == <<born, live, boxKey, rec, bound, online, op, clock, asks, letGo, faults, crashes>>
-----------------------------------------------------------------------------
Programs == {"tick", "api", "cli"}
Locked == {"tick", "api"}   \* they hold the reconcile lock; the CLI takes none

\* new: the key being minted.  old: the one to revoke afterwards (a rotation).
\* more: this is the tick's mint and its rotation is still to come.
Doing(at, new, old, more) == [at |-> at, new |-> new, old |-> old, more |-> more]
Idle == Doing("idle", 0, 0, FALSE)

AtRest == \A p \in Programs : op[p].at = "idle"
LockFree == \A p \in Locked : op[p].at = "idle"

Left(k) == born[k] + Life - clock
Fresh(k) == k # 0 /\ Left(k) > Window
Usable(k) == k \in live /\ Left(k) > 0

\* mintWindowValid: the row, never the box, says whether there is a key.  No row
\* is older than the binding: Rebind deletes the row it would find stale.
NoWindow == FALSE  \* mutant: every tick that sees the box offline mints
WindowValid == Fresh(rec)

Init ==
  /\ born = [k \in Keys |-> 0] /\ live = {}
  /\ boxKey = 0 /\ rec = 0 /\ bound = TRUE
  /\ online \in BOOLEAN
  /\ op = [p \in Programs |-> Idle]
  /\ clock = 0 /\ asks = 0 /\ letGo = 0 /\ faults = 0 /\ crashes = 0

Room == asks + letGo + faults + crashes < MaxEvents

Fault == faults < MaxFaults /\ Room /\ faults' = faults + 1
-----------------------------------------------------------------------------
\* Row a for a box that looks gone (seenOff: it is, or Tailscale has not heard
\* from it), unless the row says it has a key; row c for a row with little time
\* left.  Both are decided before either runs.
TickStart ==
  /\ LockFree /\ bound
  /\ \E seenOff \in {~online, TRUE} :
       LET mint == seenOff /\ ~WindowValid
           rotate == rec # 0 /\ ~Fresh(rec)
       IN /\ mint \/ rotate
          /\ op' = [op EXCEPT !["tick"] =
                      Doing("create", 0, IF mint THEN 0 ELSE rec, mint /\ rotate)]
  /\ UNCHANGED <<born, live, boxKey, rec, bound, online, clock, asks, letGo, faults, crashes>>

\* handleRotate asks neither the window nor whether the box answers.
ApiRotate ==
  /\ LockFree /\ asks < MaxAsks /\ Room /\ asks' = asks + 1
  /\ op' = [op EXCEPT !["api"] = Doing("create", 0, rec, FALSE)]
  /\ UNCHANGED <<born, live, boxKey, rec, bound, online, clock, letGo, faults, crashes>>

\* grokfleet mint-key: no lock, and what it records is not the store's row.
CliMint ==
  /\ op["cli"].at = "idle" /\ letGo < MaxLetGo /\ Room /\ letGo' = letGo + 1
  /\ op' = [op EXCEPT !["cli"] = Doing("create", 0, 0, FALSE)]
  /\ UNCHANGED <<born, live, boxKey, rec, bound, online, clock, asks, faults, crashes>>

\* The mint is over; the tick goes on to its rotation unless a failed call has
\* made the run read-only.  row is the recorded key by then.
Over(p, row, latched) ==
  IF op[p].more /\ ~latched THEN Doing("create", 0, row, FALSE) ELSE Idle

Held(k) == \E p \in Programs : k \in {op[p].new, op[p].old}

\* A key nothing refers to any more may as well be the next one created.
Unused == {k \in Keys : k \notin {rec, boxKey} /\ ~Usable(k) /\ ~Held(k)}

First(ks) == {k \in ks : \A j \in ks : k <= j}

Created(k) ==
  /\ born' = [born EXCEPT ![k] = clock]
  /\ live' = live \cup {k}

Create(p) ==
  /\ op[p].at = "create"
  /\ \E k \in First(Unused) :
       /\ Created(k)
       /\ op' = [op EXCEPT ![p].at = "seed", ![p].new = k]
  /\ UNCHANGED <<boxKey, rec, bound, online, clock, asks, letGo, faults, crashes>>

\* No 2xx makes the run read-only; an answer without a key or an id does not.  In
\* either case Tailscale may have created one.
CreateFails(p) ==
  /\ op[p].at = "create" /\ Fault
  /\ \E latched \in BOOLEAN :
       /\ \/ \E k \in First(Unused) : Created(k)
          \/ latched /\ UNCHANGED <<born, live>>
       /\ op' = [op EXCEPT ![p] = Over(p, rec, latched)]
  /\ UNCHANGED <<boxKey, rec, bound, online, clock, asks, letGo, crashes>>

\* What the row says once the seed has answered and is not verified yet.
RowAfterSeed(p) == rec

\* The remote script checks the hash and moves the key into place.
Seed(p) ==
  /\ op[p].at = "seed" /\ bound
  /\ boxKey' = op[p].new /\ rec' = RowAfterSeed(p)
  /\ op' = [op EXCEPT ![p].at = "verify"]
  /\ UNCHANGED <<born, live, bound, online, clock, asks, letGo, faults, crashes>>

AfterFailedSeed == "revoke"

\* The ssh fails or times out, before or after the move; it fails for certain
\* while the box's tunnel key is not the one on file.
SeedFails(p) ==
  /\ op[p].at = "seed"
  /\ \/ ~bound /\ UNCHANGED <<boxKey, faults>>
     \/ bound /\ Fault /\ boxKey' \in {boxKey, op[p].new}
  /\ op' = [op EXCEPT ![p].at = AfterFailedSeed]
  /\ UNCHANGED <<born, live, rec, bound, online, clock, asks, letGo, crashes>>

\* The read-back compares the day of expiry, not the key.
ReadsBack(p) == bound /\ boxKey # 0 /\ born[boxKey] = born[op[p].new]

\* A rotation goes on to revoke the key it replaced, if the row named one before.
AfterRecord(p, row) ==
  IF op[p].old = 0 THEN Over(p, row, FALSE) ELSE Doing("retire", 0, op[p].old, FALSE)

\* Verified, and recorded by the statement after it.
Verify(p) ==
  /\ op[p].at = "verify" /\ ReadsBack(p)
  /\ rec' = IF p \in Locked THEN op[p].new ELSE rec
  /\ op' = [op EXCEPT ![p] = AfterRecord(p, rec')]
  /\ UNCHANGED <<born, live, boxKey, bound, online, clock, asks, letGo, faults, crashes>>

\* Also when the row cannot be written.
VerifyFails(p) ==
  /\ op[p].at = "verify"
  /\ \/ ~ReadsBack(p) /\ UNCHANGED faults
     \/ ReadsBack(p) /\ Fault
  /\ op' = [op EXCEPT ![p].at = "revoke"]
  /\ UNCHANGED <<born, live, boxKey, rec, bound, online, clock, asks, letGo, crashes>>

\* revokeMintedKey; a failed delete latches the run.
Revoke(p) ==
  /\ op[p].at = "revoke"
  /\ live' = live \ {op[p].new}
  /\ op' = [op EXCEPT ![p] = Over(p, rec, FALSE)]
  /\ UNCHANGED <<born, boxKey, rec, bound, online, clock, asks, letGo, faults, crashes>>

RevokeFails(p) ==
  /\ op[p].at = "revoke" /\ Fault
  /\ live' \in {live, live \ {op[p].new}}
  /\ op' = [op EXCEPT ![p] = Over(p, rec, TRUE)]
  /\ UNCHANGED <<born, boxKey, rec, bound, online, clock, asks, letGo, crashes>>

\* A rotation's last call; a miss is not a failure.
RevokeOld(p) ==
  /\ op[p].at = "retire"
  /\ \/ live' = live \ {op[p].old} /\ UNCHANGED faults
     \/ live' = live /\ Fault
  /\ op' = [op EXCEPT ![p] = Idle]
  /\ UNCHANGED <<born, boxKey, rec, bound, online, clock, asks, letGo, crashes>>

Crash(p) ==
  /\ op[p].at # "idle" /\ crashes < MaxCrashes /\ Room /\ crashes' = crashes + 1
  /\ op' = [op EXCEPT ![p] = Idle]
  /\ UNCHANGED <<born, live, boxKey, rec, bound, online, clock, asks, letGo, faults>>
-----------------------------------------------------------------------------
\* The box loses its node state, or rejoins with the key it holds.
NodeLost ==
  /\ online /\ online' = FALSE
  /\ UNCHANGED <<born, live, boxKey, rec, bound, op, clock, asks, letGo, faults, crashes>>

Rejoin ==
  /\ ~online /\ Usable(boxKey) /\ online' = TRUE
  /\ UNCHANGED <<born, live, boxKey, rec, bound, op, clock, asks, letGo, faults, crashes>>

\* A new image has no key, no node state and a new tunnel key.
Reimage ==
  /\ bound /\ letGo < MaxLetGo /\ Room
  /\ bound' = FALSE /\ boxKey' = 0 /\ online' = FALSE
  /\ UNCHANGED <<born, live, rec, op, clock, asks, letGo, faults, crashes>>

\* rebindIfNewKeypair: whatever key the row names went with the old image.
RowKept == rec  \* mutant: a new binding keeps the old key's row (before 5.12.1)
Forgotten == 0

Rebind ==
  /\ ~bound /\ bound' = TRUE /\ rec' = Forgotten
  /\ letGo' = letGo + 1
  /\ UNCHANGED <<born, live, boxKey, online, op, clock, asks, faults, crashes>>

\* grokfleet state forget-key, the operator's repair.
ForgetKey ==
  /\ rec # 0 /\ rec' = 0
  /\ letGo < MaxLetGo /\ Room /\ letGo' = letGo + 1
  /\ UNCHANGED <<born, live, boxKey, bound, online, op, clock, asks, faults, crashes>>

\* Weeks against the minutes a mint takes.
TimePasses ==
  /\ AtRest /\ clock < MaxClock /\ clock' = clock + 1
  /\ UNCHANGED <<born, live, boxKey, rec, bound, online, op, asks, letGo, faults, crashes>>

Step(p) == \/ Create(p) \/ CreateFails(p) \/ Seed(p) \/ SeedFails(p) \/ Verify(p)
           \/ VerifyFails(p) \/ Revoke(p) \/ RevokeFails(p) \/ RevokeOld(p)

Next == \/ TickStart \/ ApiRotate \/ CliMint
        \/ \E p \in Programs : Step(p) \/ Crash(p)
        \/ NodeLost \/ Rejoin \/ Reimage \/ Rebind \/ ForgetKey \/ TimePasses

Spec == Init /\ [][Next]_vars

\* The timer starts ticks, a call ends by its answer or its timeout, and the box's
\* own passes try to join every minute.
FairSpec == /\ Spec /\ WF_vars(TickStart) /\ WF_vars(Rejoin)
            /\ \A p \in Programs : WF_vars(Step(p))
-----------------------------------------------------------------------------
Ops ==
  [at : {"idle", "create", "seed", "verify", "revoke"}, new : Keys \cup {0},
   old : Keys \cup {0}, more : BOOLEAN]
  \cup [at : {"retire"}, new : {0}, old : Keys, more : {FALSE}]

TypeOK ==
  /\ born \in [Keys -> 0..MaxClock]
  /\ live \in SUBSET Keys
  /\ boxKey \in Keys \cup {0} /\ rec \in Keys \cup {0}
  /\ bound \in BOOLEAN /\ online \in BOOLEAN
  /\ op \in [Programs -> Ops]
  /\ clock \in 0..MaxClock
  /\ asks \in Nat /\ letGo \in Nat /\ faults \in Nat /\ crashes \in Nat

\* A rotation that fails leaves the recorded key alone at Tailscale, and one that
\* succeeds deletes the other one: the key the store names is never a deleted one,
\* whichever programs interleave, fail or die (rotate.ts, steps 1 to 3).
RecordedKeyIsLive == rec # 0 => rec \in live

\* "Verified": when a rotation comes to delete the old key, the box no longer
\* holds it.
OldKeyLeftBox == \A p \in Programs : op[p].at = "retire" => op[p].old # boxKey

\* A working key nobody remembers is the worse failure: every one that has more
\* than a week to live is due to a fault, a crash, or an operator's step.
Unaccounted == {k \in live : Fresh(k) /\ k # rec /\ ~Held(k)}

LeaksAccounted == Cardinality(Unaccounted) <= faults + crashes + letGo

\* A box the tunnel reaches gets back on the tailnet, through failed calls, dead
\* ticks, new images and expiries; the one that does not holds a key the brain has
\* revoked while the row names a fresh one.
HoldsRevokedKey == boxKey # 0 /\ boxKey \notin live /\ WindowValid

KeyComesBack == bound /\ ~online ~> online \/ ~bound \/ HoldsRevokedKey

\* "on verify-fail, do NOT advance the guard (retry next tick)": the tick skips the
\* mint of an offline box only when the box has a key to rejoin with.
SkipMeansKey == AtRest /\ bound /\ ~online /\ WindowValid => Usable(boxKey)
=============================================================================
