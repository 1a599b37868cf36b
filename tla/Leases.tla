------------------------------- MODULE Leases -------------------------------
(***************************************************************************)
(* The `leases' table of the state store and the two programs that write   *)
(* it: the API server (serve/lease-handlers.ts), which acquires, renews    *)
(* and releases, and the reconcile tick (reconcile/lease-tick.ts), which   *)
(* expires, sweeps graces and declares losses.  They are separate          *)
(* processes on one SQLite file and neither takes the other's lock, so     *)
(* every read that is followed by a write is two steps here, and the       *)
(* UPDATE is as unconditional as the SQL is.                               *)
(***************************************************************************)
EXTENDS Integers, FiniteSets

CONSTANTS
  Boxes,         \* enrolled boxes
  LeaseIds,      \* lease ids (16 random bytes: never drawn twice)
  Apis,          \* requests the API side can have open at once
  Kinds,         \* the kinds of lease an instance asks for
  Ttls,          \* the TTLs an acquire or a renew may ask for, clamped
  MaxLife,       \* [leases].ephemeral_max_life_s
  ExpiredGrace,  \* [leases].expired_grace_s
  LostGrace,     \* [leases].lost_grace_s
  Retention,     \* LEASE_RETENTION_DAYS
  Labels,        \* the liveness labels an instance lets a tick observe
  MaxClock,      \* bound: the clock stops here
  MaxFaults,     \* bound: ticks that die, or whose snapshot is not written
  Null,          \* SQL NULL, and "no such row"
  Pruned         \* a row the retention pass deleted

ASSUME LeaseAssumption ==
  /\ Ttls \subseteq Nat \ {0}
  /\ {MaxLife, ExpiredGrace, LostGrace, Retention, MaxClock, MaxFaults} \subseteq Nat
  /\ Kinds \subseteq {"ephemeral", "service"}
  /\ Labels \subseteq {"healthy", "unhealthy", "asleep", "api_unknown"}
  /\ Null \notin Nat \cup LeaseIds
  /\ Pruned # Null

VARIABLES
  clock,       \* epoch seconds, in units longer than any store call
  rows,        \* rows[l]: the row of lease l; Null before its INSERT
  snap,        \* snap[b]: the two newest snapshot_boxes labels of box b
  snapAge,     \* ticks since the newest snapshot was written (2 = two or more)
  api,         \* api[a]: the request a is serving, between its read and its write
  pc,          \* where the tick is
  tickNow,     \* the `nowS' the tick took at its start
  todo,        \* leases the tick selected and has not written yet
  deferring,   \* the boxes of the map LeaseTick.begin returned
  observed,    \* this tick's liveness label per box
  written,     \* boxes rollout or config push has written to in this tick
  startLeases, \* history: the leases that deferred when this tick started
  faults       \* ticks that died or lost their snapshot so far

tickVars == <<pc, tickNow, todo, deferring, observed, written, startLeases>>
vars == <<clock, rows, snap, snapAge, api, tickVars, faults>>
-----------------------------------------------------------------------------
States == {"active", "released", "expired", "lost"}

\* Of Labels, `healthy' stands for drifted too, `asleep' for incoherent and
\* hostkey_mismatch; "none" is a label that was never observed.
SnapLabel == Labels \cup {"none"}

Time == Nat \cup {Null}

Row == [box: Boxes, kind: Kinds, state: States, createdAt: Nat, expiresAt: Time,
        releasedAt: Time, expiredAt: Time, lostAt: Time]

Exists(l) == rows[l] \notin {Null, Pruned}

ASSUME NullAssumption == Null \notin Row /\ Pruned \notin Row

\* The one predicate (L3): released_at IS NULL.
Deferring(l) == Exists(l) /\ rows[l].releasedAt = Null

DeferringOn(b) == {l \in LeaseIds : Deferring(l) /\ rows[l].box = b}

Active(l) == Exists(l) /\ rows[l].state = "active"

Least(m, n) == IF m <= n THEN m ELSE n
-----------------------------------------------------------------------------
(* The two predicates over consecutive ticks.                              *)

\* snap[b].prev is the row at exactly one tick before snap[b].cur, or "none".

\* twoConsecutiveTicks(lastTwoObserved(box), isBackHealthy).
HealthyTwoTicks(b) == snap[b].cur = "healthy" /\ snap[b].prev = "healthy"

LossWithoutOrdinal(b) ==  \* mutant l11: the previous row may be any older one
  observed[b] = "asleep" \/ (observed[b] = "unhealthy" /\ snap[b].cur = "unhealthy")
\* detectLoss: at once for LOSE_AT_ONCE; unhealthy only after an unhealthy row
\* at exactly tick - 1.
LossObserved(b) ==
  \/ observed[b] = "asleep"
  \/ observed[b] = "unhealthy" /\ snapAge = 1 /\ snap[b].cur = "unhealthy"

OnlyLostGraceOver(l) ==  \* mutant l9: the expired arm is dropped
  /\ rows[l].state = "lost"
  /\ \/ tickNow >= rows[l].lostAt + LostGrace
     \/ HealthyTwoTicks(rows[l].box)
\* sweepGraces: has the grace of the expired or lost row l ended?
GraceOver(l) ==
  \/ /\ rows[l].state = "expired"
     /\ tickNow >= rows[l].expiredAt + ExpiredGrace
  \/ /\ rows[l].state = "lost"
     /\ \/ tickNow >= rows[l].lostAt + LostGrace
        \/ HealthyTwoTicks(rows[l].box)
-----------------------------------------------------------------------------
TickPcs == {"idle", "started", "expire", "sweep", "begun", "act", "loss", "snapshot"}

NoRequest == [op |-> "none"]

Requests ==
  {NoRequest}
  \cup [op: {"acquire"}, box: Boxes, kind: Kinds, ttl: Ttls]
  \cup [op: {"renew"}, lease: LeaseIds, ttl: Ttls]
  \cup [op: {"release"}, lease: LeaseIds, was: States]

Init ==
  /\ clock = 0
  /\ rows = [l \in LeaseIds |-> Null]
  /\ snap = [b \in Boxes |-> [cur |-> "none", prev |-> "none"]]
  /\ snapAge = 2
  /\ api = [a \in Apis |-> NoRequest]
  /\ pc = "idle" /\ tickNow = 0 /\ todo = {} /\ deferring = {}
  /\ observed = [b \in Boxes |-> "none"] /\ written = {} /\ startLeases = {}
  /\ faults = 0

\* Time passes.  A handler is synchronous and far shorter than a unit, so it
\* reads and writes under one `now'; a tick may span many units.
Advance ==
  /\ clock < MaxClock
  /\ \A a \in Apis : api[a] = NoRequest
  /\ clock' = clock + 1
  /\ UNCHANGED <<rows, snap, snapAge, api, tickVars, faults>>
-----------------------------------------------------------------------------
(* The API server: POST /v1/leases, renew, DELETE.                         *)

apiFrame == UNCHANGED <<clock, snap, snapAge, tickVars, faults>>

\* The handler reads the deferring leases and the snapshot facts, and chooses.
\* The request's own requirements can only narrow the choice further.
AcquireRead(a, b, kind, ttl) ==
  /\ api[a] = NoRequest
  /\ DeferringOn(b) = {}
  /\ snap[b].cur = "healthy"
  /\ api' = [api EXCEPT ![a] = [op |-> "acquire", box |-> b, kind |-> kind, ttl |-> ttl]]
  /\ UNCHANGED rows /\ apiFrame

NewRow(r) ==
  [box |-> r.box, kind |-> r.kind, state |-> "active", createdAt |-> clock,
   expiresAt |-> IF r.kind = "ephemeral" THEN clock + r.ttl ELSE Null,
   releasedAt |-> Null, expiredAt |-> Null, lostAt |-> Null]

\* The partial unique index leases_box_open refuses a second deferring row.
IndexAdmits(b) == DeferringOn(b) = {}

\* Ids not drawn yet are all alike: one stands for the others.
NextIds == {l \in LeaseIds : rows[l] = Null /\ l = CHOOSE k \in LeaseIds : rows[k] = Null}

\* acquireLease: the INSERT, or the constraint error answered with 409.
AcquireInsert(a) ==
  /\ api[a].op = "acquire"
  /\ \/ /\ IndexAdmits(api[a].box)
        /\ \E l \in NextIds :
             /\ rows' = [rows EXCEPT ![l] = NewRow(api[a])]
     \/ /\ ~IndexAdmits(api[a].box)
        /\ UNCHANGED rows
  /\ api' = [api EXCEPT ![a] = NoRequest]
  /\ apiFrame

\* renewLease reads the row and refuses one that is not active, and an
\* ephemeral one at or past its lifetime cap.
RenewRead(a, l, ttl) ==
  /\ api[a] = NoRequest
  /\ Active(l)
  /\ rows[l].kind = "ephemeral" => clock < rows[l].createdAt + MaxLife
  /\ api' = [api EXCEPT ![a] = [op |-> "renew", lease |-> l, ttl |-> ttl]]
  /\ UNCHANGED rows /\ apiFrame

UnclampedExpiry(row, ttl) ==  \* mutant: the renew is a sliding window
  IF row.kind = "service" THEN Null ELSE clock + ttl
RenewedExpiry(row, ttl) ==
  IF row.kind = "service" THEN Null ELSE Least(clock + ttl, row.createdAt + MaxLife)

\* renewLease writes expires_at, whatever became of the row since it was read
\* (of what it read, it uses only the kind and created_at, which never change).
RenewWrite(a) ==
  /\ api[a].op = "renew"
  /\ LET l == api[a].lease IN
     rows' = IF Exists(l)
             THEN [rows EXCEPT ![l].expiresAt = RenewedExpiry(rows[l], api[a].ttl)]
             ELSE rows
  /\ api' = [api EXCEPT ![a] = NoRequest]
  /\ apiFrame

\* releaseLease reads the row; one already released is answered as it is.
ReleaseRead(a, l) ==
  /\ api[a] = NoRequest
  /\ Deferring(l)
  /\ api' = [api EXCEPT ![a] = [op |-> "release", lease |-> l, was |-> rows[l].state]]
  /\ UNCHANGED rows /\ apiFrame

\* An active row becomes released; an expired or lost one keeps its state and
\* only its grace ends.  Which of the two it was is what was read before.
Released(row, was) ==
  IF was = "active" THEN [row EXCEPT !.state = "released", !.releasedAt = clock]
                    ELSE [row EXCEPT !.releasedAt = clock]

ReleaseWrite(a) ==
  /\ api[a].op = "release"
  /\ LET l == api[a].lease IN
     rows' = IF Exists(l) THEN [rows EXCEPT ![l] = Released(@, api[a].was)] ELSE rows
  /\ api' = [api EXCEPT ![a] = NoRequest]
  /\ apiFrame

Api(a) ==
  \/ \E b \in Boxes, k \in Kinds, t \in Ttls : AcquireRead(a, b, k, t)
  \/ AcquireInsert(a)
  \/ \E l \in LeaseIds, t \in Ttls : RenewRead(a, l, t)
  \/ RenewWrite(a)
  \/ \E l \in LeaseIds : ReleaseRead(a, l)
  \/ ReleaseWrite(a)
-----------------------------------------------------------------------------
(* The reconcile tick, in run.ts order.                                    *)

tickFrame == UNCHANGED <<clock, api>>

Prunable(l) == Exists(l) /\ ~Deferring(l) /\ rows[l].releasedAt < clock - Retention

\* bumpTick, pruneLeases, and the one `nowS' of the run.
StartTick ==
  /\ pc = "idle"
  /\ pc' = "started"
  /\ snapAge' = Least(snapAge + 1, 2)
  /\ rows' = [l \in LeaseIds |-> IF Prunable(l) THEN Pruned ELSE rows[l]]
  /\ tickNow' = clock
  /\ startLeases' = {l \in LeaseIds : Deferring(l)}
  /\ written' = {}
  /\ UNCHANGED <<snap, todo, deferring, observed, faults>> /\ tickFrame

\* expireDue: SELECT the active rows whose expires_at has passed ...
ExpireSelect ==
  /\ pc = "started"
  /\ pc' = "expire"
  /\ todo' = {l \in LeaseIds : /\ Active(l)
                               /\ rows[l].expiresAt # Null
                               /\ rows[l].expiresAt < tickNow}
  /\ UNCHANGED <<rows, snap, snapAge, tickNow, deferring, observed, written, startLeases, faults>>
  /\ tickFrame

ExpiredFreed(row) ==  \* mutant l19: expiry frees the box at once
  [row EXCEPT !.state = "expired", !.expiredAt = tickNow, !.releasedAt = tickNow]
Expired(row) == [row EXCEPT !.state = "expired", !.expiredAt = tickNow]

\* ... then one UPDATE per row; released_at stays NULL.
ExpireOne(l) ==
  /\ pc = "expire" /\ l \in todo
  /\ rows' = [rows EXCEPT ![l] = Expired(@)]
  /\ todo' = todo \ {l}
  /\ UNCHANGED <<snap, snapAge, pc, tickNow, deferring, observed, written, startLeases, faults>>
  /\ tickFrame

\* sweepGraces: SELECT the expired and lost rows that still defer ...
SweepSelect ==
  /\ pc = "expire" /\ todo = {}
  /\ pc' = "sweep"
  /\ todo' = {l \in LeaseIds : /\ Deferring(l)
                               /\ rows[l].state \in {"expired", "lost"}
                               /\ GraceOver(l)}
  /\ UNCHANGED <<rows, snap, snapAge, tickNow, deferring, observed, written, startLeases, faults>>
  /\ tickFrame

Swept(row) == [row EXCEPT !.releasedAt = tickNow]

\* ... then end the grace of each.
SweepOne(l) ==
  /\ pc = "sweep" /\ l \in todo
  /\ rows' = [rows EXCEPT ![l] = Swept(@)]
  /\ todo' = todo \ {l}
  /\ UNCHANGED <<snap, snapAge, pc, tickNow, deferring, observed, written, startLeases, faults>>
  /\ tickFrame

\* The map LeaseTick.begin returns: read once, used by the whole tick.
ActiveBoxes ==  \* mutant l7: only active rows defer
  {b \in Boxes : \E l \in DeferringOn(b) : rows[l].state = "active"}
DeferringBoxes == {b \in Boxes : DeferringOn(b) # {}}

ReadDeferring ==
  /\ pc = "sweep" /\ todo = {}
  /\ pc' = "begun"
  /\ deferring' = DeferringBoxes
  /\ UNCHANGED <<rows, snap, snapAge, tickNow, todo, observed, written, startLeases, faults>>
  /\ tickFrame

\* The per-box loop names one label per box.
Observe(label) ==
  /\ pc = "begun"
  /\ pc' = "act"
  /\ observed' = label
  /\ UNCHANGED <<rows, snap, snapAge, tickNow, todo, deferring, written, startLeases, faults>>
  /\ tickFrame

\* Rollout and config push write to a box the map does not defer.
WriteBox(b) ==
  /\ pc = "act"
  /\ b \notin deferring \cup written
  /\ written' = written \cup {b}
  /\ UNCHANGED <<rows, snap, snapAge, pc, tickNow, todo, deferring, observed, startLeases, faults>>
  /\ tickFrame

\* detectLoss: SELECT the active rows, keep those whose box reads as lost ...
LossSelect ==
  /\ pc = "act"
  /\ pc' = "loss"
  /\ todo' = {l \in LeaseIds : Active(l) /\ LossObserved(rows[l].box)}
  /\ UNCHANGED <<rows, snap, snapAge, tickNow, deferring, observed, written, startLeases, faults>>
  /\ tickFrame

LostReopened(row) ==  \* mutant: the lost grace reopens the row
  [row EXCEPT !.state = "lost", !.lostAt = tickNow, !.releasedAt = Null]
Lost(row) == [row EXCEPT !.state = "lost", !.lostAt = tickNow]

\* ... and mark each, awaiting a notification between two rows.
LossOne(l) ==
  /\ pc = "loss" /\ l \in todo
  /\ rows' = [rows EXCEPT ![l] = Lost(@)]
  /\ todo' = todo \ {l}
  /\ UNCHANGED <<snap, snapAge, pc, tickNow, deferring, observed, written, startLeases, faults>>
  /\ tickFrame

LossDone ==
  /\ pc = "loss" /\ todo = {}
  /\ pc' = "snapshot"
  /\ UNCHANGED <<rows, snap, snapAge, tickNow, todo, deferring, observed, written, startLeases, faults>>
  /\ tickFrame

\* The oneshot process ends and its memory with it.
TickExits ==
  /\ pc' = "idle" /\ tickNow' = 0 /\ todo' = {} /\ deferring' = {}
  /\ observed' = [b \in Boxes |-> "none"] /\ written' = {} /\ startLeases' = {}

\* The snapshot: one row per box at this tick's ordinal.
Recorded(b) == [cur |-> observed[b], prev |-> IF snapAge = 1 THEN snap[b].cur ELSE "none"]

EndTick ==
  /\ pc = "snapshot"
  /\ snap' = [b \in Boxes |-> Recorded(b)]
  /\ snapAge' = 0
  /\ TickExits
  /\ UNCHANGED <<rows, faults>> /\ tickFrame

\* The tick dies, or its best-effort snapshot write fails: what it committed
\* stays, what it selected is forgotten, and this ordinal has no snapshot row.
TickFails ==
  /\ pc # "idle" /\ faults < MaxFaults
  /\ faults' = faults + 1
  /\ TickExits
  /\ UNCHANGED <<rows, snap, snapAge>> /\ tickFrame

TickStep ==
  \/ StartTick
  \/ ExpireSelect \/ \E l \in LeaseIds : ExpireOne(l)
  \/ SweepSelect \/ \E l \in LeaseIds : SweepOne(l)
  \/ ReadDeferring
  \/ \E label \in [Boxes -> Labels] : Observe(label)
  \/ \E b \in Boxes : WriteBox(b)
  \/ LossSelect \/ \E l \in LeaseIds : LossOne(l)
  \/ LossDone
  \/ EndTick

Next == Advance \/ (\E a \in Apis : Api(a)) \/ TickStep \/ TickFails

Spec == Init /\ [][Next]_vars

\* The systemd timer keeps starting ticks and a tick keeps going; a handler that
\* has read goes on to write; time passes whatever the callers do.
Fairness ==
  /\ SF_vars(Advance)
  /\ WF_vars(TickStep)
  /\ \A a \in Apis : WF_vars(AcquireInsert(a) \/ RenewWrite(a) \/ ReleaseWrite(a))

FairSpec == Spec /\ Fairness
-----------------------------------------------------------------------------
(* Properties.                                                             *)

\* Every variable holds a value of its type, and only a running tick has
\* selected rows.
TypeOK ==
  /\ clock \in Nat
  /\ rows \in [LeaseIds -> Row \cup {Null, Pruned}]
  /\ snap \in [Boxes -> [cur : SnapLabel, prev : SnapLabel]]
  /\ snapAge \in 0..2
  /\ api \in [Apis -> Requests]
  /\ pc \in TickPcs
  /\ tickNow \in Nat
  /\ todo \in SUBSET LeaseIds
  /\ deferring \in SUBSET Boxes
  /\ observed \in [Boxes -> SnapLabel]
  /\ written \in SUBSET Boxes
  /\ startLeases \in SUBSET LeaseIds
  /\ faults \in Nat

\* One box holds at most one deferring lease, whatever the acquires, the sweeps
\* and the losses interleave to (store/leases.ts: the partial unique index).
OneDeferringLease ==
  \A k, l \in LeaseIds :
    Deferring(k) /\ Deferring(l) /\ rows[k].box = rows[l].box => k = l

\* Who holds each box, and the leases that are over.
Slot == [b \in Boxes |-> IF DeferringOn(b) = {} THEN Null ELSE CHOOSE l \in DeferringOn(b) : TRUE]
Over == {l \in LeaseIds : rows[l] # Null /\ ~Deferring(l)}

Reservation == INSTANCE BoxReservation WITH Free <- Null, slot <- Slot, over <- Over

\* A lease implements the reservation it promises: a row that stopped deferring
\* never defers again, even when a tick writes a row released under its hands.
ReservationSpec == Reservation!Spec

\* Only its holder ends an active lease: a step that is not an answered request
\* frees a box only past the grace of an expired lease, or out of a lost one
\* whose grace is over or whose box reads healthy on two consecutive ticks.
TickFreesOnlyAfterGrace ==
  [][\A l \in LeaseIds :
       /\ api' = api /\ Deferring(l) /\ Exists(l)'
       /\ rows'[l].releasedAt # Null
       => \/ /\ rows[l].state = "expired"
             /\ clock >= rows[l].expiredAt + ExpiredGrace
          \/ /\ rows[l].state = "lost"
             /\ clock >= rows[l].lostAt + LostGrace \/ HealthyTwoTicks(rows[l].box)]_vars

\* A box in use is not written to: rollout and config push leave alone every box
\* whose lease was deferring when the tick started and still is, whatever state
\* the lease went through meanwhile (FLEET-BRAIN: "A lease is honoured by the
\* first tick that STARTS after the INSERT commits").
HonouredByNextTick ==
  [][\A b \in written' \ written :
       ~\E l \in startLeases : Deferring(l) /\ rows[l].box = b]_vars

\* An ephemeral lease, however often it is renewed, ends within MaxLife of its
\* creation (LEASE_EPHEMERAL_MAX_LIFE_S is a HARD bound, not a sliding window).
HardLifetime ==
  \A l \in LeaseIds :
    Exists(l) /\ rows[l].kind = "ephemeral" => rows[l].expiresAt <= rows[l].createdAt + MaxLife

\* An expired lease does not defer forever: the box is free again once its grace
\* is over, if the clock's bound leaves room for that.
ExpiredEventuallyFree ==
  \A l \in LeaseIds :
    (/\ Deferring(l) /\ rows[l].state = "expired"
     /\ rows[l].expiredAt + ExpiredGrace <= MaxClock) ~> ~Deferring(l)
-----------------------------------------------------------------------------
(* Statements of the code's comments that its own races refute; the README *)
(* tells how each fails.                                                    *)

\* markLost "mark[s] an active lease lost": a lease becomes lost out of active.
LostOnlyFromActive ==
  [][\A l \in LeaseIds :
       (Exists(l) /\ Exists(l)' /\ rows'[l].state = "lost" /\ rows[l].state # "lost")
       => rows[l].state = "active"]_vars

\* expireDue: a lease is expired only when its expires_at has passed.
ExpiredIsDue ==
  \A l \in LeaseIds :
    Exists(l) /\ rows[l].state = "expired" => rows[l].expiresAt < rows[l].expiredAt
=============================================================================
