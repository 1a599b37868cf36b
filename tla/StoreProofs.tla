----------------------------- MODULE StoreProofs -----------------------------
(***************************************************************************)
(* Proofs about the state store.  Of its table of leases (Leases,          *)
(* LeaseEvidence), for every number of boxes, leases and requests, every   *)
(* TTL and grace, and every interleaving of the API and the tick.  Of its  *)
(* files and backups (StoreFiles), for any boxes, days, kept backups and   *)
(* number of changes.                                                      *)
(***************************************************************************)
EXTENDS LeaseEvidence, StoreFiles, FiniteSetTheorems, WellFoundedInduction, TLAPS

\* The numbers among the constants.
LEMMA NumberFacts ==
  /\ Ttls \subseteq Nat \ {0}
  /\ MaxLife \in Nat /\ ExpiredGrace \in Nat /\ LostGrace \in Nat /\ Retention \in Nat
BY LeaseAssumption DEF LeaseAssumption

\* NULL and a deleted row are no rows, and NULL is no lease.
LEMMA NullFacts ==
  Null \notin LeaseIds /\ Null \notin Nat /\ Pruned # Null /\ Null \notin Row /\ Pruned \notin Row
BY LeaseAssumption, NullAssumption DEF LeaseAssumption, NullAssumption

\* A row that exists is a record of type Row.
LEMMA ExistsRow ==
  ASSUME TypeOK, NEW l \in LeaseIds, Exists(l)
  PROVE  rows[l] \in Row
BY DEF TypeOK, Exists

\* What each UPDATE makes of a row: a row, on the same box, and released_at is
\* never cleared.
LEMMA UpdatedRow ==
  ASSUME TypeOK, NEW r \in Row, NEW was
  PROVE  /\ Released(r, was) \in Row /\ Released(r, was).box = r.box /\ Released(r, was).releasedAt # Null
         /\ Expired(r) \in Row /\ Expired(r).box = r.box /\ Expired(r).releasedAt = r.releasedAt
         /\ Swept(r) \in Row /\ Swept(r).box = r.box /\ Swept(r).releasedAt # Null
         /\ Lost(r) \in Row /\ Lost(r).box = r.box /\ Lost(r).releasedAt = r.releasedAt
<1>1. clock \in Time /\ tickNow \in Time /\ clock # Null /\ tickNow # Null
  BY NullFacts DEF TypeOK, Time
<1>2. Released(r, was) \in Row /\ Released(r, was).box = r.box /\ Released(r, was).releasedAt # Null
  <2>1. CASE was = "active"
    BY <1>1, <2>1 DEF Released, Row, States
  <2>2. CASE was # "active"
    BY <1>1, <2>2 DEF Released, Row
  <2>. QED  BY <2>1, <2>2
<1>3. Expired(r) \in Row /\ Expired(r).box = r.box /\ Expired(r).releasedAt = r.releasedAt
  BY <1>1 DEF Expired, Row, States
<1>4. Swept(r) \in Row /\ Swept(r).box = r.box /\ Swept(r).releasedAt # Null
  BY <1>1 DEF Swept, Row
<1>5. Lost(r) \in Row /\ Lost(r).box = r.box /\ Lost(r).releasedAt = r.releasedAt
  BY <1>1 DEF Lost, Row, States
<1>. QED  BY <1>2, <1>3, <1>4, <1>5

LEMMA LeastFacts ==
  ASSUME NEW m \in Nat, NEW n \in Nat
  PROVE  Least(m, n) \in Nat /\ Least(m, n) <= m /\ Least(m, n) <= n
BY DEF Least

\* A renew leaves a row, on the same box, with released_at as it was.
LEMMA RenewedRow ==
  ASSUME TypeOK, NEW r \in Row, NEW ttl \in Ttls
  PROVE  LET n == [r EXCEPT !.expiresAt = RenewedExpiry(r, ttl)]
         IN  n \in Row /\ n.box = r.box /\ n.releasedAt = r.releasedAt
<1>1. clock \in Nat /\ ttl \in Nat /\ MaxLife \in Nat
  BY NumberFacts DEF TypeOK
<1>2. r.createdAt \in Nat
  BY DEF Row
<1>3. clock + ttl \in Nat /\ r.createdAt + MaxLife \in Nat
  BY <1>1, <1>2
<1>4. RenewedExpiry(r, ttl) \in Time
  BY <1>3 DEF RenewedExpiry, Least, Time
<1>. QED  BY <1>4 DEF Row

-----------------------------------------------------------------------------
(* The inductive invariant.                                                *)

\* What the tick has selected are rows of the table, and only while it writes.
TodoInv == /\ \A l \in todo : Exists(l)
           /\ pc \notin {"expire", "sweep", "loss"} => todo = {}

LEMMA InitType == Init => TypeOK /\ TodoInv
BY NullFacts DEF Init, TypeOK, TodoInv, TickPcs, Requests, NoRequest, SnapLabel

LEMMA NewRowType ==
  ASSUME TypeOK, NEW r, r \in [op: {"acquire"}, box: Boxes, kind: Kinds, ttl: Ttls]
  PROVE  NewRow(r) \in Row
<1>1. r.box \in Boxes /\ r.kind \in Kinds /\ r.ttl \in Nat /\ clock \in Nat
  BY NumberFacts DEF TypeOK
<1>2. (IF r.kind = "ephemeral" THEN clock + r.ttl ELSE Null) \in Time
  BY <1>1 DEF Time
<1>. QED  BY <1>1, <1>2 DEF NewRow, Row, Time, States

\* A pending request has the shape of its operation.
LEMMA RequestShape ==
  ASSUME TypeOK, NEW a \in Apis
  PROVE  /\ api[a].op = "acquire" => api[a] \in [op: {"acquire"}, box: Boxes, kind: Kinds, ttl: Ttls]
         /\ api[a].op = "renew" => api[a] \in [op: {"renew"}, lease: LeaseIds, ttl: Ttls]
         /\ api[a].op = "release" => api[a] \in [op: {"release"}, lease: LeaseIds, was: States]
BY DEF TypeOK, Requests, NoRequest

\* Every step of a request keeps the types.
LEMMA ApiType ==
  ASSUME TypeOK, TodoInv, NEW a \in Apis, Api(a)
  PROVE  TypeOK' /\ TodoInv'
<1> USE DEF apiFrame, tickVars
<1>1. ASSUME NEW b \in Boxes, NEW k \in Kinds, NEW t \in Ttls, AcquireRead(a, b, k, t)
      PROVE  TypeOK' /\ TodoInv'
  <2>1. [op |-> "acquire", box |-> b, kind |-> k, ttl |-> t] \in Requests
    BY DEF Requests
  <2>2. api' \in [Apis -> Requests]
    BY <1>1, <2>1 DEF AcquireRead, TypeOK
  <2>. QED  BY <1>1, <2>2 DEF AcquireRead, TypeOK, TodoInv, Exists
<1>2. CASE AcquireInsert(a)
  <2>1. api' \in [Apis -> Requests]
    BY <1>2 DEF NextIds, AcquireInsert, TypeOK, Requests
  <2>2. CASE UNCHANGED rows
    BY <1>2, <2>1, <2>2 DEF NextIds, AcquireInsert, TypeOK, TodoInv, Exists
  <2>3. CASE \E l \in LeaseIds : rows[l] = Null /\ rows' = [rows EXCEPT ![l] = NewRow(api[a])]
    <3>1. PICK l \in LeaseIds : rows[l] = Null /\ rows' = [rows EXCEPT ![l] = NewRow(api[a])]
      BY <2>3
    <3>2. NewRow(api[a]) \in Row
      BY <1>2, RequestShape, NewRowType DEF NextIds, AcquireInsert
    <3>3. rows' \in [LeaseIds -> Row \cup {Null, Pruned}]
      BY <3>1, <3>2 DEF TypeOK
    <3>4. \A k \in todo : Exists(k)'
      BY <1>2, <3>1 DEF TodoInv, Exists, TypeOK
    <3>. QED  BY <1>2, <2>1, <3>3, <3>4 DEF NextIds, AcquireInsert, TypeOK, TodoInv
  <2>. QED  BY <1>2, <2>2, <2>3 DEF NextIds, AcquireInsert
<1>3. ASSUME NEW l \in LeaseIds, NEW t \in Ttls, RenewRead(a, l, t)
      PROVE  TypeOK' /\ TodoInv'
  <2>1. [op |-> "renew", lease |-> l, ttl |-> t] \in Requests
    BY DEF Requests
  <2>2. api' \in [Apis -> Requests]
    BY <1>3, <2>1 DEF RenewRead, TypeOK
  <2>. QED  BY <1>3, <2>2 DEF RenewRead, TypeOK, TodoInv, Exists
<1>4. CASE RenewWrite(a)
  <2> DEFINE l == api[a].lease
  <2>1. api' \in [Apis -> Requests]
    BY <1>4 DEF RenewWrite, TypeOK, Requests
  <2>2. l \in LeaseIds /\ api[a].ttl \in Ttls
    BY <1>4, RequestShape DEF RenewWrite
  <2>3. CASE ~Exists(l)
    BY <1>4, <2>1, <2>3 DEF RenewWrite, TypeOK, TodoInv, Exists
  <2>4. CASE Exists(l)
    <3>1. rows[l] \in Row
      BY <2>2, <2>4, ExistsRow
    <3>3. [rows[l] EXCEPT !.expiresAt = RenewedExpiry(rows[l], api[a].ttl)] \in Row
      BY <2>2, <3>1, RenewedRow
    <3>4. rows' = [rows EXCEPT ![l] = [rows[l] EXCEPT !.expiresAt = RenewedExpiry(rows[l], api[a].ttl)]]
      BY <1>4, <2>4 DEF RenewWrite
    <3>5. rows' \in [LeaseIds -> Row \cup {Null, Pruned}]
      BY <2>2, <3>3, <3>4 DEF TypeOK
    <3>6. \A k \in todo : Exists(k)'
      BY <2>2, <3>3, <3>4, NullFacts DEF TodoInv, Exists, TypeOK
    <3>. QED  BY <1>4, <2>1, <3>5, <3>6 DEF RenewWrite, TypeOK, TodoInv
  <2>. QED  BY <2>3, <2>4
<1>5. ASSUME NEW l \in LeaseIds, ReleaseRead(a, l)
      PROVE  TypeOK' /\ TodoInv'
  <2>1. rows[l].state \in States
    BY <1>5, ExistsRow DEF ReleaseRead, Deferring, Row
  <2>2. [op |-> "release", lease |-> l, was |-> rows[l].state] \in Requests
    BY <2>1 DEF Requests
  <2>3. api' \in [Apis -> Requests]
    BY <1>5, <2>2 DEF ReleaseRead, TypeOK
  <2>. QED  BY <1>5, <2>3 DEF ReleaseRead, TypeOK, TodoInv, Exists
<1>6. CASE ReleaseWrite(a)
  <2> DEFINE l == api[a].lease
  <2>1. api' \in [Apis -> Requests]
    BY <1>6 DEF ReleaseWrite, TypeOK, Requests
  <2>2. l \in LeaseIds
    BY <1>6, RequestShape DEF ReleaseWrite
  <2>3. CASE ~Exists(l)
    BY <1>6, <2>1, <2>3 DEF ReleaseWrite, TypeOK, TodoInv, Exists
  <2>4. CASE Exists(l)
    <3>1. rows[l] \in Row
      BY <2>2, <2>4, ExistsRow
    <3> DEFINE r == Released(rows[l], api[a].was)
    <3>2. r \in Row /\ rows' = [rows EXCEPT ![l] = r]
      <4>1. r \in Row
        BY <3>1, UpdatedRow
      <4>. QED  BY <1>6, <2>4, <4>1 DEF ReleaseWrite
    <3> HIDE DEF r
    <3>3. rows' \in [LeaseIds -> Row \cup {Null, Pruned}]
      BY <2>2, <3>2 DEF TypeOK
    <3>4. \A k \in todo : Exists(k)'
      BY <2>2, <3>2, NullFacts DEF TodoInv, Exists, TypeOK
    <3>. QED  BY <1>6, <2>1, <3>3, <3>4 DEF ReleaseWrite, TypeOK, TodoInv
  <2>. QED  BY <2>3, <2>4
<1>. QED  BY <1>1, <1>2, <1>3, <1>4, <1>5, <1>6 DEF Api

\* An UPDATE of one selected row keeps the table and what is selected.
LEMMA RowWrite ==
  ASSUME TypeOK, TodoInv, NEW l \in todo, NEW r \in Row,
         rows' = [rows EXCEPT ![l] = r], todo' = todo \ {l}
  PROVE  /\ rows' \in [LeaseIds -> Row \cup {Null, Pruned}]
         /\ todo' \in SUBSET LeaseIds
         /\ \A k \in todo' : Exists(k)'
BY NullFacts DEF TypeOK, TodoInv, Exists

\* Every step of the tick keeps the types.
LEMMA TickType ==
  ASSUME TypeOK, TodoInv, TickStep
  PROVE  TypeOK' /\ TodoInv'
<1> USE DEF tickFrame
<1>1. CASE StartTick
  <2>1. rows' \in [LeaseIds -> Row \cup {Null, Pruned}]
    BY <1>1 DEF StartTick, TypeOK
  <2>2. snapAge' \in 0..2
    BY <1>1 DEF StartTick, TypeOK, Least
  <2>. QED  BY <1>1, <2>1, <2>2 DEF StartTick, TypeOK, TodoInv, TickPcs
<1>2. CASE ExpireSelect
  BY <1>2 DEF ExpireSelect, TypeOK, TodoInv, TickPcs, Exists, Active
<1>3. ASSUME NEW l \in LeaseIds, ExpireOne(l)
      PROVE  TypeOK' /\ TodoInv'
  <2>1. rows[l] \in Row /\ l \in todo
    BY <1>3, ExistsRow DEF ExpireOne, TodoInv
  <2>2. Expired(rows[l]) \in Row
    BY <2>1, UpdatedRow
  <2>3. rows' = [rows EXCEPT ![l] = Expired(rows[l])] /\ todo' = todo \ {l}
    BY <1>3 DEF ExpireOne
  <2>. QED  BY <1>3, <2>1, <2>2, <2>3, RowWrite DEF ExpireOne, TypeOK, TodoInv
<1>4. CASE SweepSelect
  BY <1>4 DEF SweepSelect, TypeOK, TodoInv, TickPcs, Exists, Deferring
<1>5. ASSUME NEW l \in LeaseIds, SweepOne(l)
      PROVE  TypeOK' /\ TodoInv'
  <2>1. rows[l] \in Row /\ l \in todo
    BY <1>5, ExistsRow DEF SweepOne, TodoInv
  <2>2. Swept(rows[l]) \in Row
    BY <2>1, UpdatedRow
  <2>3. rows' = [rows EXCEPT ![l] = Swept(rows[l])] /\ todo' = todo \ {l}
    BY <1>5 DEF SweepOne
  <2>. QED  BY <1>5, <2>1, <2>2, <2>3, RowWrite DEF SweepOne, TypeOK, TodoInv
<1>6. CASE ReadDeferring
  BY <1>6 DEF ReadDeferring, DeferringBoxes, TypeOK, TodoInv, TickPcs, Exists
<1>7. ASSUME NEW label \in [Boxes -> Labels], Observe(label)
      PROVE  TypeOK' /\ TodoInv'
  BY <1>7 DEF Observe, TypeOK, TodoInv, TickPcs, Exists, SnapLabel
<1>8. ASSUME NEW b \in Boxes, WriteBox(b)
      PROVE  TypeOK' /\ TodoInv'
  BY <1>8 DEF WriteBox, TypeOK, TodoInv, Exists
<1>9. CASE LossSelect
  BY <1>9 DEF LossSelect, TypeOK, TodoInv, TickPcs, Exists, Active
<1>10. ASSUME NEW l \in LeaseIds, LossOne(l)
       PROVE  TypeOK' /\ TodoInv'
  <2>1. rows[l] \in Row /\ l \in todo
    BY <1>10, ExistsRow DEF LossOne, TodoInv
  <2>2. Lost(rows[l]) \in Row
    BY <2>1, UpdatedRow
  <2>3. rows' = [rows EXCEPT ![l] = Lost(rows[l])] /\ todo' = todo \ {l}
    BY <1>10 DEF LossOne
  <2>. QED  BY <1>10, <2>1, <2>2, <2>3, RowWrite DEF LossOne, TypeOK, TodoInv
<1>11. CASE LossDone
  BY <1>11 DEF LossDone, TypeOK, TodoInv, TickPcs, Exists
<1>12. CASE EndTick
  <2>1. \A b \in Boxes : Recorded(b) \in [cur : SnapLabel, prev : SnapLabel]
    BY DEF Recorded, TypeOK, SnapLabel
  <2>2. snap' \in [Boxes -> [cur : SnapLabel, prev : SnapLabel]]
    BY <1>12, <2>1 DEF EndTick
  <2>. QED  BY <1>12, <2>2 DEF EndTick, TickExits, TypeOK, TodoInv, TickPcs, SnapLabel
<1>. QED  BY <1>1, <1>2, <1>3, <1>4, <1>5, <1>6, <1>7, <1>8, <1>9, <1>10, <1>11, <1>12 DEF TickStep

\* Every step keeps the types.
LEMMA TypeStep == TypeOK /\ TodoInv /\ [Next]_vars => TypeOK' /\ TodoInv'
<1> SUFFICES ASSUME TypeOK, TodoInv, [Next]_vars
             PROVE  TypeOK' /\ TodoInv'
  OBVIOUS
<1>1. CASE Advance
  BY <1>1 DEF Advance, tickVars, TypeOK, TodoInv, Exists
<1>2. CASE \E a \in Apis : Api(a)
  BY <1>2, ApiType
<1>3. CASE TickStep
  BY <1>3, TickType
<1>4. CASE TickFails
  BY <1>4 DEF TickFails, TickExits, tickFrame, TypeOK, TodoInv, TickPcs, SnapLabel
<1>5. CASE UNCHANGED vars
  BY <1>5 DEF vars, tickVars, TypeOK, TodoInv, Exists
<1>. QED  BY <1>1, <1>2, <1>3, <1>4, <1>5 DEF Next

\* Every variable keeps its type, and only a writing tick has rows selected.
THEOREM TypeCorrect == Spec => [](TypeOK /\ TodoInv)
BY InitType, TypeStep, PTL DEF Spec

-----------------------------------------------------------------------------
(* What a step does to the set of deferring rows.                          *)

\* Row k, if it defers after the step, deferred before it, on the same box.
StartsNothing(k) == /\ rows'[k] = Null <=> rows[k] = Null
                    /\ Deferring(k)' => Deferring(k) /\ rows'[k].box = rows[k].box

Freed(k) == Deferring(k) /\ ~Deferring(k)'

\* No row starts to defer, rows stay on their box, and at most one is freed.
Quiet == /\ \A k \in LeaseIds : StartsNothing(k)
         /\ \A j, k \in LeaseIds : Freed(j) /\ Freed(k) => j = k

LEMMA SameRowsQuiet == rows' = rows => Quiet
BY DEF Quiet, StartsNothing, Freed, Deferring, Exists

\* An UPDATE of one row that leaves the box alone and never clears released_at.
LEMMA OneRowQuiet ==
  ASSUME TypeOK, NEW l \in LeaseIds, Exists(l), NEW r \in Row,
         rows' = [rows EXCEPT ![l] = r],
         r.box = rows[l].box,
         r.releasedAt = Null => rows[l].releasedAt = Null
  PROVE  Quiet
<1>1. \A k \in LeaseIds : k # l => rows'[k] = rows[k]
  BY DEF TypeOK
<1>2. rows'[l] = r /\ Exists(l)' /\ rows[l] # Null /\ rows'[l] # Null
  BY NullFacts DEF TypeOK, Exists
<1>3. ASSUME NEW k \in LeaseIds
      PROVE  StartsNothing(k) /\ (Freed(k) => k = l)
  <2>1. CASE k = l
    BY <1>2, <2>1 DEF StartsNothing, Deferring, Exists
  <2>2. CASE k # l
    BY <1>1, <2>2 DEF StartsNothing, Freed, Deferring, Exists
  <2>. QED  BY <2>1, <2>2
<1>4. \A j, k \in LeaseIds : Freed(j) /\ Freed(k) => j = k
  BY <1>3
<1>. QED  BY <1>3, <1>4 DEF Quiet

\* What an INSERT does: a fresh row, alone on its box.
Inserts(b, l) ==
  /\ rows[l] = Null /\ DeferringOn(b) = {}
  /\ \E r \in Row : /\ r.box = b /\ r.releasedAt = Null
                    /\ rows' = [rows EXCEPT ![l] = r]

\* Every step either inserts one row on a box with no deferring row, or is quiet.
LEMMA StepShape ==
  ASSUME TypeOK, TodoInv, [Next]_vars
  PROVE  Quiet \/ \E b \in Boxes, l \in LeaseIds : Inserts(b, l)
<1>1. CASE rows' = rows
  BY <1>1, SameRowsQuiet
<1>2. ASSUME NEW a \in Apis, AcquireInsert(a)
      PROVE  Quiet \/ \E b \in Boxes, l \in LeaseIds : Inserts(b, l)
  <2> DEFINE b == api[a].box
  <2>1. api[a] \in [op: {"acquire"}, box: Boxes, kind: Kinds, ttl: Ttls]
    BY <1>2, RequestShape DEF NextIds, AcquireInsert
  <2>2. NewRow(api[a]) \in Row /\ b \in Boxes
    BY <2>1, NewRowType
  <2>3. NewRow(api[a]).box = b /\ NewRow(api[a]).releasedAt = Null
    BY DEF NewRow
  <2>4. ASSUME IndexAdmits(b), NEW l \in LeaseIds, rows[l] = Null,
               rows' = [rows EXCEPT ![l] = NewRow(api[a])]
        PROVE  Inserts(b, l)
    BY <2>2, <2>3, <2>4 DEF Inserts, IndexAdmits
  <2>. QED  BY <1>1, <1>2, <2>2, <2>4 DEF NextIds, AcquireInsert
<1>3. ASSUME NEW a \in Apis, RenewWrite(a), rows' # rows
      PROVE  Quiet
  <2> DEFINE l == api[a].lease
             r == [rows[l] EXCEPT !.expiresAt = RenewedExpiry(rows[l], api[a].ttl)]
  <2>1. l \in LeaseIds /\ api[a].ttl \in Ttls
    BY <1>3, RequestShape DEF RenewWrite
  <2>2. Exists(l) /\ rows' = [rows EXCEPT ![l] = r]
    BY <1>3 DEF RenewWrite
  <2>3. r \in Row /\ r.box = rows[l].box /\ r.releasedAt = rows[l].releasedAt
    BY <2>1, <2>2, ExistsRow, RenewedRow
  <2> HIDE DEF l, r
  <2>. QED  BY <2>1, <2>2, <2>3, OneRowQuiet
<1>4. ASSUME NEW a \in Apis, ReleaseWrite(a), rows' # rows
      PROVE  Quiet
  <2> DEFINE l == api[a].lease
             r == Released(rows[l], api[a].was)
  <2>1. l \in LeaseIds
    BY <1>4, RequestShape DEF ReleaseWrite
  <2>2. Exists(l) /\ rows' = [rows EXCEPT ![l] = r]
    BY <1>4 DEF ReleaseWrite
  <2>3. r \in Row /\ r.box = rows[l].box /\ r.releasedAt # Null
    BY <2>1, <2>2, ExistsRow, UpdatedRow
  <2> HIDE DEF l, r
  <2>. QED  BY <2>1, <2>2, <2>3, OneRowQuiet
<1>5. CASE StartTick
  <2>1. \A l \in LeaseIds : IF Prunable(l) THEN rows'[l] = Pruned ELSE rows'[l] = rows[l]
    BY <1>5 DEF StartTick
  <2>3. ASSUME NEW l \in LeaseIds
        PROVE  /\ rows'[l] = Null <=> rows[l] = Null
               /\ Deferring(l)' <=> Deferring(l)
               /\ Deferring(l)' => rows'[l].box = rows[l].box
    <3>1. CASE Prunable(l)
      <4>1. rows'[l] = Pruned /\ Exists(l) /\ ~Deferring(l)
        BY <2>1, <3>1 DEF Prunable
      <4>. QED  BY <4>1, NullFacts DEF Deferring, Exists
    <3>2. CASE ~Prunable(l)
      <4>1. rows'[l] = rows[l]
        BY <2>1, <3>2
      <4>. QED  BY <4>1 DEF Deferring, Exists
    <3>. QED  BY <3>1, <3>2
  <2>. QED  BY <2>3 DEF Quiet, StartsNothing, Freed
<1>6. ASSUME NEW l \in todo, rows' = [rows EXCEPT ![l] = Expired(rows[l])]
      PROVE  Quiet
  <2>1. l \in LeaseIds /\ Exists(l)
    BY DEF TypeOK, TodoInv
  <2>. QED  BY <1>6, <2>1, ExistsRow, UpdatedRow, OneRowQuiet
<1>7. ASSUME NEW l \in todo, rows' = [rows EXCEPT ![l] = Swept(rows[l])]
      PROVE  Quiet
  <2>1. l \in LeaseIds /\ Exists(l)
    BY DEF TypeOK, TodoInv
  <2>. QED  BY <1>7, <2>1, ExistsRow, UpdatedRow, OneRowQuiet
<1>8. ASSUME NEW l \in todo, rows' = [rows EXCEPT ![l] = Lost(rows[l])]
      PROVE  Quiet
  <2>1. l \in LeaseIds /\ Exists(l)
    BY DEF TypeOK, TodoInv
  <2>. QED  BY <1>8, <2>1, ExistsRow, UpdatedRow, OneRowQuiet
<1>9. ASSUME NEW a \in Apis, Api(a)
      PROVE  Quiet \/ \E b \in Boxes, l \in LeaseIds : Inserts(b, l)
  BY <1>1, <1>2, <1>3, <1>4, <1>9 DEF Api, AcquireRead, RenewRead, ReleaseRead
<1>10. CASE TickStep
  BY <1>1, <1>5, <1>6, <1>7, <1>8, <1>10
     DEF TickStep, ExpireSelect, ExpireOne, SweepSelect, SweepOne, ReadDeferring, Observe,
         WriteBox, LossSelect, LossOne, LossDone, EndTick
<1>. QED  BY <1>1, <1>9, <1>10 DEF Next, Advance, TickFails, vars

\* The partial unique index is enough: no interleaving of acquires, renews,
\* releases, expiries, sweeps and losses leaves two deferring rows on one box.
LEMMA OneDeferringStep ==
  TypeOK /\ TodoInv /\ OneDeferringLease /\ [Next]_vars => OneDeferringLease'
<1> SUFFICES ASSUME TypeOK, TodoInv, OneDeferringLease, [Next]_vars
             PROVE  OneDeferringLease'
  OBVIOUS
<1>1. CASE Quiet
  BY <1>1 DEF Quiet, StartsNothing, OneDeferringLease
<1>2. ASSUME NEW b \in Boxes, NEW n \in LeaseIds, Inserts(b, n)
      PROVE  OneDeferringLease'
  <2>1. PICK r \in Row : r.box = b /\ rows' = [rows EXCEPT ![n] = r]
    BY <1>2 DEF Inserts
  <2>2. rows'[n] = r /\ \A l \in LeaseIds : l # n => rows'[l] = rows[l]
    BY <2>1 DEF TypeOK
  <2>3. \A l \in LeaseIds : l # n /\ Deferring(l)' => Deferring(l) /\ rows[l].box # b
    BY <1>2, <2>2 DEF Inserts, DeferringOn, Deferring, Exists
  <2>4. ASSUME NEW k \in LeaseIds, NEW l \in LeaseIds,
               Deferring(k)', Deferring(l)', rows'[k].box = rows'[l].box
        PROVE  k = l
    BY <2>1, <2>2, <2>3, <2>4 DEF OneDeferringLease
  <2>. QED  BY <2>4 DEF OneDeferringLease
<1>. QED  BY <1>1, <1>2, StepShape

\* The partial unique index keeps a box to one deferring lease in every reachable state.
THEOREM OneDeferring == Spec => []OneDeferringLease
<1>1. Init => OneDeferringLease
  BY DEF Init, OneDeferringLease, Deferring, Exists
<1>. QED  BY <1>1, TypeCorrect, OneDeferringStep, PTL DEF Spec

-----------------------------------------------------------------------------
(* Leases implements BoxReservation.                                       *)

\* The slots as operators of a table, so that a step relates the two tables.
Uses(t, l) == t[l] \notin {Null, Pruned} /\ t[l].releasedAt = Null
UsersOn(t, b) == {l \in LeaseIds : Uses(t, l) /\ t[l].box = b}
HolderIn(users) == IF users = {} THEN Null ELSE CHOOSE l \in users : TRUE
SlotOf(t) == [b \in Boxes |-> HolderIn(UsersOn(t, b))]
OverOf(t) == {l \in LeaseIds : t[l] # Null /\ ~Uses(t, l)}

LEMMA TableView ==
  /\ Slot = SlotOf(rows) /\ Slot' = SlotOf(rows')
  /\ Over = OverOf(rows) /\ Over' = OverOf(rows')
BY DEF Slot, SlotOf, HolderIn, UsersOn, Uses, Over, OverOf, DeferringOn, Deferring, Exists

\* What a quiet step says of the two tables.
LEMMA QuietTables ==
  ASSUME Quiet, NEW k \in LeaseIds
  PROVE  /\ rows'[k] = Null <=> rows[k] = Null
         /\ Uses(rows', k) => Uses(rows, k) /\ rows'[k].box = rows[k].box
         /\ Freed(k) <=> Uses(rows, k) /\ ~Uses(rows', k)
BY DEF Quiet, StartsNothing, Freed, Uses, Deferring, Exists

LEMMA OneHolder == HolderIn({}) = Null /\ \A l : HolderIn({l}) = l
BY DEF HolderIn

\* With one deferring lease per box, the slot of a box is that lease, or Null.
LEMMA SlotFacts ==
  ASSUME OneDeferringLease, NEW b \in Boxes
  PROVE  /\ UsersOn(rows, b) = {} => SlotOf(rows)[b] = Null
         /\ \A l \in UsersOn(rows, b) : SlotOf(rows)[b] = l /\ UsersOn(rows, b) = {l}
<1>1. \A k, l \in UsersOn(rows, b) : k = l
  BY DEF UsersOn, Uses, OneDeferringLease, Deferring, Exists
<1>2. \A l \in UsersOn(rows, b) : UsersOn(rows, b) = {l}
  BY <1>1
<1>. QED  BY <1>2, OneHolder DEF SlotOf

\* Two tables with the same users of every box have the same slots.
LEMMA SameSlot ==
  ASSUME NEW s, NEW t, \A b \in Boxes : UsersOn(s, b) = UsersOn(t, b)
  PROVE  SlotOf(s) = SlotOf(t)
BY DEF SlotOf

\* A quiet step that frees nothing leaves every slot as it is.
LEMMA NothingFreed ==
  ASSUME Quiet, \A k \in LeaseIds : ~Freed(k)
  PROVE  SlotOf(rows') = SlotOf(rows) /\ OverOf(rows') = OverOf(rows)
<1>1. ASSUME NEW k \in LeaseIds
      PROVE  /\ rows'[k] = Null <=> rows[k] = Null
             /\ Uses(rows', k) <=> Uses(rows, k)
             /\ Uses(rows', k) => rows'[k].box = rows[k].box
  BY QuietTables
<1>2. \A b \in Boxes : UsersOn(rows', b) = UsersOn(rows, b)
  BY <1>1 DEF UsersOn
<1>3. OverOf(rows') = OverOf(rows)
  BY <1>1 DEF OverOf
<1>. QED  BY <1>2, <1>3, SameSlot

\* A quiet step that frees k gives the slot of its box back.
LEMMA OneFreed ==
  ASSUME TypeOK, OneDeferringLease, Quiet, NEW k \in LeaseIds, Freed(k)
  PROVE  Reservation!Next
<1> DEFINE b == rows[k].box
<1>1. b \in Boxes /\ Uses(rows, k) /\ ~Uses(rows', k) /\ rows[k] # Null /\ rows'[k] # Null
  BY QuietTables, ExistsRow DEF Uses, Exists, Row
<1>2. SlotOf(rows)[b] = k /\ UsersOn(rows, b) = {k}
  BY <1>1, SlotFacts DEF UsersOn
<1>3. ASSUME NEW l \in LeaseIds, l # k
      PROVE  /\ rows'[l] = Null <=> rows[l] = Null
             /\ Uses(rows', l) <=> Uses(rows, l)
             /\ Uses(rows', l) => rows'[l].box = rows[l].box
  BY <1>3, QuietTables DEF Quiet
<1> HIDE DEF b
<1>4. UsersOn(rows', b) = {}
  BY <1>1, <1>2, <1>3 DEF UsersOn
<1>5. ASSUME NEW c \in Boxes, c # b
      PROVE  UsersOn(rows', c) = UsersOn(rows, c)
  BY <1>1, <1>3, <1>5 DEF UsersOn, b
<1>6. SlotOf(rows') = [SlotOf(rows) EXCEPT ![b] = Null]
  BY <1>1, <1>4, <1>5, OneHolder DEF SlotOf
<1>7. OverOf(rows') = OverOf(rows) \cup {k}
  BY <1>1, <1>3 DEF OverOf
<1>. QED  BY <1>1, <1>2, <1>6, <1>7, NullFacts, TableView DEF Reservation!Next, Reservation!GiveBack

\* An INSERT takes a free slot for a lease that never held one.
LEMMA InsertTakes ==
  ASSUME TypeOK, OneDeferringLease, NEW b \in Boxes, NEW l \in LeaseIds, Inserts(b, l)
  PROVE  Reservation!Next
<1>1. PICK r \in Row : r.box = b /\ r.releasedAt = Null /\ rows' = [rows EXCEPT ![l] = r]
  BY DEF Inserts
<1>2. rows'[l] = r /\ \A k \in LeaseIds : k # l => rows'[k] = rows[k]
  BY <1>1 DEF TypeOK
<1>3. /\ rows[l] = Null /\ rows'[l] # Null
      /\ UsersOn(rows, b) = {} /\ ~Uses(rows, l) /\ Uses(rows', l)
  BY <1>1, <1>2, NullFacts DEF Inserts, DeferringOn, Deferring, Exists, Uses, UsersOn
<1>4. \A k \in LeaseIds : k # l => (Uses(rows', k) <=> Uses(rows, k))
  BY <1>2 DEF Uses
<1>5. UsersOn(rows', b) = {l}
  BY <1>1, <1>2, <1>3, <1>4 DEF UsersOn
<1>6. ASSUME NEW c \in Boxes, c # b
      PROVE  UsersOn(rows', c) = UsersOn(rows, c)
  BY <1>1, <1>2, <1>3, <1>4, <1>6 DEF UsersOn
<1>7. SlotOf(rows') = [SlotOf(rows) EXCEPT ![b] = l]
  BY <1>5, <1>6, OneHolder DEF SlotOf
<1>8. OverOf(rows') = OverOf(rows)
  BY <1>2, <1>3, <1>4 DEF OverOf
<1>9. SlotOf(rows)[b] = Null
  BY <1>3, SlotFacts
<1>10. l \notin Reservation!Held /\ l \notin Over
  <2>1. ASSUME NEW c \in Boxes
        PROVE  SlotOf(rows)[c] # l
    <3>1. CASE UsersOn(rows, c) = {}
      BY <3>1, SlotFacts, NullFacts
    <3>2. CASE UsersOn(rows, c) # {}
      BY <1>3, <3>2, SlotFacts DEF UsersOn
    <3>. QED  BY <3>1, <3>2
  <2>. QED  BY <1>3, <2>1, TableView DEF Reservation!Held, OverOf
<1>. QED  BY <1>7, <1>8, <1>9, <1>10, TableView DEF Reservation!Next, Reservation!Take

LEMMA ReservationStep ==
  TypeOK /\ TodoInv /\ OneDeferringLease /\ [Next]_vars => [Reservation!Next]_(Reservation!vars)
<1> SUFFICES ASSUME TypeOK, TodoInv, OneDeferringLease, [Next]_vars
             PROVE  [Reservation!Next]_(Reservation!vars)
  OBVIOUS
<1>1. CASE Quiet /\ \A k \in LeaseIds : ~Freed(k)
  BY <1>1, NothingFreed, TableView DEF Reservation!vars
<1>2. CASE Quiet /\ \E k \in LeaseIds : Freed(k)
  BY <1>2, OneFreed
<1>3. CASE \E b \in Boxes, l \in LeaseIds : Inserts(b, l)
  BY <1>3, InsertTakes
<1>. QED  BY <1>1, <1>2, <1>3, StepShape

\* The lease table implements the reservation: a box has one holder, a holder
\* that gave the box back never has it again, and a box is free in between.
THEOREM ImplementsReservation == Spec => ReservationSpec
<1>1. Init => Reservation!Init
  <2> SUFFICES ASSUME Init PROVE Reservation!Init
    OBVIOUS
  <2>1. \A l \in LeaseIds : rows[l] = Null /\ ~Deferring(l)
    BY DEF Init, Deferring, Exists
  <2>2. Slot = [b \in Boxes |-> Null]
    BY <2>1 DEF Slot, DeferringOn
  <2>3. Over = {}
    BY <2>1 DEF Over
  <2>. QED  BY <2>2, <2>3 DEF Reservation!Init
<1>. QED  BY <1>1, TypeCorrect, OneDeferring, ReservationStep, PTL
          DEF Spec, ReservationSpec, Reservation!Spec
-----------------------------------------------------------------------------
(* What a tick may write, and on which evidence.                           *)

\* What the current step may have done to row l.
RowMoves(l) ==
  \/ rows'[l] = rows[l]
  \/ rows[l] = Null /\ rows'[l] \in Row /\ rows'[l].state = "active"
  \/ /\ Exists(l)
     /\ \E t \in Ttls : rows'[l] = [rows[l] EXCEPT !.expiresAt = RenewedExpiry(rows[l], t)]
  \/ /\ Exists(l) /\ api' # api
     /\ \E was \in States : rows'[l] = Released(rows[l], was)
  \/ pc = "idle" /\ ~Deferring(l) /\ Exists(l) /\ rows'[l] = Pruned
  \/ pc = "expire" /\ l \in todo /\ Exists(l) /\ rows'[l] = Expired(rows[l])
  \/ pc = "sweep" /\ l \in todo /\ Exists(l) /\ rows'[l] = Swept(rows[l])
  \/ pc = "loss" /\ l \in todo /\ Exists(l) /\ rows'[l] = Lost(rows[l])

\* An UPDATE by id leaves every other row as it was.
LEMMA OneRowMoves ==
  ASSUME TypeOK, NEW k, NEW r, rows' = [rows EXCEPT ![k] = r], NEW l \in LeaseIds
  PROVE  rows'[l] = IF l = k THEN r ELSE rows[l]
BY DEF TypeOK

LEMMA RequestRowMoves ==
  ASSUME TypeOK, TodoInv, NEW a \in Apis, Api(a), NEW l \in LeaseIds
  PROVE  RowMoves(l)
<1>1. CASE rows' = rows
  BY <1>1 DEF RowMoves
<1>2. CASE AcquireInsert(a) /\ rows' # rows
  <2>1. NewRow(api[a]) \in Row /\ NewRow(api[a]).state = "active"
    BY <1>2, RequestShape, NewRowType DEF AcquireInsert, NewRow
  <2>2. PICK k \in LeaseIds : rows[k] = Null /\ rows' = [rows EXCEPT ![k] = NewRow(api[a])]
    BY <1>2 DEF AcquireInsert, NextIds
  <2>3. rows'[l] = rows[l] \/ (rows[l] = Null /\ rows'[l] = NewRow(api[a]))
    BY <2>2, OneRowMoves
  <2>. QED  BY <2>1, <2>3 DEF RowMoves
<1>3. CASE RenewWrite(a) /\ rows' # rows
  <2> DEFINE k == api[a].lease
             r == [rows[k] EXCEPT !.expiresAt = RenewedExpiry(rows[k], api[a].ttl)]
  <2>1. k \in LeaseIds /\ api[a].ttl \in Ttls
    BY <1>3, RequestShape DEF RenewWrite
  <2>2. Exists(k) /\ rows' = [rows EXCEPT ![k] = r]
    BY <1>3 DEF RenewWrite
  <2>3. rows'[l] = rows[l] \/ (l = k /\ rows'[l] = r)
    BY <2>2, OneRowMoves
  <2>. QED  BY <2>1, <2>2, <2>3 DEF RowMoves
<1>4. CASE ReleaseWrite(a) /\ rows' # rows
  <2> DEFINE k == api[a].lease
             r == Released(rows[k], api[a].was)
  <2>1. k \in LeaseIds /\ api[a].was \in States
    BY <1>4, RequestShape DEF ReleaseWrite
  <2>2. Exists(k) /\ rows' = [rows EXCEPT ![k] = r]
    BY <1>4 DEF ReleaseWrite
  <2>3. api' # api
    BY <1>4 DEF ReleaseWrite, NoRequest, TypeOK
  <2>4. rows'[l] = rows[l] \/ (l = k /\ rows'[l] = r)
    BY <2>2, OneRowMoves
  <2>. QED  BY <2>1, <2>2, <2>3, <2>4 DEF RowMoves
<1>. QED  BY <1>1, <1>2, <1>3, <1>4 DEF Api, AcquireRead, RenewRead, ReleaseRead

LEMMA TickRowMoves ==
  ASSUME TypeOK, TodoInv, TickStep, NEW l \in LeaseIds
  PROVE  RowMoves(l)
<1>1. CASE rows' = rows
  BY <1>1 DEF RowMoves
<1>2. CASE StartTick
  BY <1>2 DEF StartTick, Prunable, RowMoves
<1>3. ASSUME NEW k \in LeaseIds, ExpireOne(k)
      PROVE  RowMoves(l)
  BY <1>3, OneRowMoves DEF ExpireOne, RowMoves, TodoInv
<1>4. ASSUME NEW k \in LeaseIds, SweepOne(k)
      PROVE  RowMoves(l)
  BY <1>4, OneRowMoves DEF SweepOne, RowMoves, TodoInv
<1>5. ASSUME NEW k \in LeaseIds, LossOne(k)
      PROVE  RowMoves(l)
  BY <1>5, OneRowMoves DEF LossOne, RowMoves, TodoInv
<1>. QED  BY <1>1, <1>2, <1>3, <1>4, <1>5
          DEF TickStep, ExpireSelect, SweepSelect, ReadDeferring, Observe, WriteBox, LossSelect,
              LossDone, EndTick

LEMMA RowsMove ==
  ASSUME TypeOK, TodoInv, [Next]_vars, NEW l \in LeaseIds
  PROVE  RowMoves(l)
<1>1. CASE rows' = rows
  BY <1>1 DEF RowMoves
<1>. QED  BY <1>1, RequestRowMoves, TickRowMoves DEF Next, Advance, TickFails, vars

\* Outside the tick's own steps the tick stands still, and only time moves the clock.
LEMMA TickStands ==
  ASSUME TypeOK, [Next]_vars
  PROVE  TickStep \/ TickFails \/ UNCHANGED <<tickVars, snap, snapAge>>
BY DEF Next, Advance, Api, AcquireRead, AcquireInsert, RenewRead, RenewWrite, ReleaseRead,
       ReleaseWrite, apiFrame, vars

LEMMA ClockRises ==
  ASSUME TypeOK, [Next]_vars
  PROVE  clock' \in Nat /\ clock' >= clock
<1>1. CASE Advance
  BY <1>1 DEF Advance, TypeOK
<1>2. CASE UNCHANGED clock
  BY <1>2 DEF TypeOK
<1>. QED
  BY <1>1, <1>2
     DEF Next, Api, AcquireRead, AcquireInsert, RenewRead, RenewWrite, ReleaseRead, ReleaseWrite,
         apiFrame, vars, TickStep, TickFails, tickFrame, StartTick, ExpireSelect, ExpireOne,
         SweepSelect, SweepOne, ReadDeferring, Observe, WriteBox, LossSelect, LossOne, LossDone,
         EndTick

\* A row that is there stays, on its box, and does not begin to defer again.
LEMMA DeferringKept ==
  ASSUME TypeOK, TodoInv, [Next]_vars, NEW l \in LeaseIds, rows[l] # Null
  PROVE  rows'[l] # Null /\ (Deferring(l)' => Deferring(l) /\ rows'[l].box = rows[l].box)
<1>1. CASE Quiet
  BY <1>1 DEF Quiet, StartsNothing
<1>2. ASSUME NEW b \in Boxes, NEW n \in LeaseIds, Inserts(b, n)
      PROVE  rows'[l] = rows[l]
  BY <1>2 DEF Inserts, TypeOK
<1>. QED  BY <1>1, <1>2, StepShape DEF Deferring, Exists

\* A row that ended says when.
Dated == \A l \in LeaseIds : Exists(l) =>
  /\ rows[l].state = "expired" => rows[l].expiredAt \in Nat
  /\ rows[l].state = "lost" => rows[l].lostAt \in Nat

\* What a sweep has selected and still defers has had its grace.
SweepJustified == pc = "sweep" => \A l \in todo : Deferring(l) => GraceOver(l)

\* The map of a tick names every box that a lease it started with still defers.
MapHonours ==
  /\ \A l \in startLeases : rows[l] # Null
  /\ pc \in {"begun", "act", "loss", "snapshot"} =>
       \A l \in startLeases : Deferring(l) => rows[l].box \in deferring

TickInv == Dated /\ tickNow <= clock /\ SweepJustified /\ MapHonours

LEMMA DatedStep ==
  ASSUME TypeOK, TodoInv, Dated, [Next]_vars
  PROVE  Dated'
<1> SUFFICES ASSUME NEW l \in LeaseIds, Exists(l)'
             PROVE  /\ rows'[l].state = "expired" => rows'[l].expiredAt \in Nat
                    /\ rows'[l].state = "lost" => rows'[l].lostAt \in Nat
  BY DEF Dated
<1>1. CASE rows'[l] = rows[l]
  BY <1>1 DEF Dated, Exists
<1>2. CASE rows[l] = Null /\ rows'[l] \in Row /\ rows'[l].state = "active"
  BY <1>2
<1>3. ASSUME Exists(l), NEW t \in Ttls,
             rows'[l] = [rows[l] EXCEPT !.expiresAt = RenewedExpiry(rows[l], t)]
      PROVE  /\ rows'[l].state = rows[l].state
             /\ rows'[l].expiredAt = rows[l].expiredAt /\ rows'[l].lostAt = rows[l].lostAt
  BY <1>3, ExistsRow DEF Row
<1>4. ASSUME Exists(l), NEW was \in States, rows'[l] = Released(rows[l], was)
      PROVE  /\ rows'[l].state \in {rows[l].state, "released"}
             /\ rows'[l].expiredAt = rows[l].expiredAt /\ rows'[l].lostAt = rows[l].lostAt
  BY <1>4, ExistsRow DEF Row, Released
<1>5. CASE rows'[l] = Pruned
  BY <1>5 DEF Exists
<1>6. ASSUME Exists(l), rows'[l] = Expired(rows[l])
      PROVE  rows'[l].state = "expired" /\ rows'[l].expiredAt \in Nat
  BY <1>6, ExistsRow DEF Row, Expired, TypeOK
<1>7. ASSUME Exists(l), rows'[l] = Swept(rows[l])
      PROVE  /\ rows'[l].state = rows[l].state
             /\ rows'[l].expiredAt = rows[l].expiredAt /\ rows'[l].lostAt = rows[l].lostAt
  BY <1>7, ExistsRow DEF Row, Swept
<1>8. ASSUME Exists(l), rows'[l] = Lost(rows[l])
      PROVE  rows'[l].state = "lost" /\ rows'[l].lostAt \in Nat
  BY <1>8, ExistsRow DEF Row, Lost, TypeOK
<1>9. RowMoves(l)
  BY RowsMove
<1>. QED  BY <1>1, <1>2, <1>3, <1>4, <1>5, <1>6, <1>7, <1>8, <1>9 DEF RowMoves, Dated

\* While the tick stands, a row it selected for the sweep changes only in ways
\* that leave its grace over, or stops deferring.
LEMMA SelectedRow ==
  ASSUME TypeOK, TodoInv, [Next]_vars, UNCHANGED <<tickVars, snap>>, pc = "sweep",
         NEW l \in todo, Deferring(l)', GraceOver(l), Exists(l)
  PROVE  GraceOver(l)'
<1>1. l \in LeaseIds /\ rows[l] \in Row
  BY ExistsRow DEF TypeOK
<1>2. CASE rows'[l] = rows[l]
  BY <1>2 DEF GraceOver, HealthyTwoTicks, tickVars
<1>3. ASSUME NEW t \in Ttls,
             rows'[l] = [rows[l] EXCEPT !.expiresAt = RenewedExpiry(rows[l], t)]
      PROVE  GraceOver(l)'
  <2>1. /\ rows'[l].state = rows[l].state /\ rows'[l].box = rows[l].box
        /\ rows'[l].expiredAt = rows[l].expiredAt /\ rows'[l].lostAt = rows[l].lostAt
    BY <1>1, <1>3 DEF Row
  <2>. QED  BY <2>1 DEF GraceOver, HealthyTwoTicks, tickVars
<1>4. ASSUME NEW was \in States, rows'[l] = Released(rows[l], was)
      PROVE  ~Deferring(l)'
  <2>1. Released(rows[l], was).releasedAt # Null
    BY <1>1, UpdatedRow
  <2>. QED  BY <1>4, <2>1 DEF Deferring
<1>5. CASE rows'[l] = Swept(rows[l])
  <2>1. Swept(rows[l]).releasedAt # Null
    BY <1>1, UpdatedRow
  <2>. QED  BY <1>5, <2>1 DEF Deferring
<1>6. RowMoves(l)
  BY <1>1, RowsMove
<1>. QED  BY <1>2, <1>3, <1>4, <1>5, <1>6, NullFacts DEF RowMoves, Exists

LEMMA SweepJustifiedStep ==
  ASSUME TypeOK, TodoInv, SweepJustified, [Next]_vars
  PROVE  SweepJustified'
<1>1. CASE UNCHANGED <<tickVars, snap>>
  <2> SUFFICES ASSUME pc = "sweep", NEW l \in todo, Deferring(l)'
               PROVE  GraceOver(l)'
    BY <1>1 DEF SweepJustified, tickVars
  <2>1. l \in LeaseIds /\ Exists(l) /\ rows[l] # Null
    BY DEF TypeOK, TodoInv, Exists
  <2>2. Deferring(l)
    BY <2>1, DeferringKept
  <2>. QED  BY <1>1, <2>1, <2>2, SelectedRow DEF SweepJustified
<1>2. CASE SweepSelect
  BY <1>2 DEF SweepSelect, SweepJustified, GraceOver, HealthyTwoTicks
<1>3. ASSUME NEW k \in LeaseIds, SweepOne(k)
      PROVE  SweepJustified'
  <2> SUFFICES ASSUME NEW l \in todo \ {k}, Deferring(l)'
               PROVE  GraceOver(l)'
    BY <1>3 DEF SweepOne, SweepJustified
  <2>1. l \in LeaseIds /\ rows'[l] = rows[l]
    BY <1>3 DEF SweepOne, TypeOK
  <2>. QED  BY <1>3, <2>1 DEF SweepOne, SweepJustified, Deferring, Exists, GraceOver, HealthyTwoTicks
<1>4. ASSUME NEW b \in Boxes, WriteBox(b)
      PROVE  pc' # "sweep"
  BY <1>4 DEF WriteBox
<1>5. ASSUME NEW l \in LeaseIds, ExpireOne(l) \/ LossOne(l)
      PROVE  pc' # "sweep"
  BY <1>5 DEF ExpireOne, LossOne
<1>6. ASSUME StartTick \/ ExpireSelect \/ ReadDeferring \/ LossSelect \/ LossDone \/ EndTick \/ TickFails
      PROVE  pc' # "sweep"
  BY <1>6 DEF StartTick, ExpireSelect, ReadDeferring, LossSelect, LossDone, EndTick, TickFails, TickExits
<1>7. ASSUME NEW label \in [Boxes -> Labels], Observe(label)
      PROVE  pc' # "sweep"
  BY <1>7 DEF Observe
<1>. QED  BY <1>1, <1>2, <1>3, <1>4, <1>5, <1>6, <1>7, TickStands DEF TickStep, SweepJustified

LEMMA MapHonoursStep ==
  ASSUME TypeOK, TodoInv, MapHonours, [Next]_vars
  PROVE  MapHonours'
<1>1. ASSUME UNCHANGED <<startLeases, deferring>>,
             pc' \in {"begun", "act", "loss", "snapshot"} => pc \in {"begun", "act", "loss", "snapshot"}
      PROVE  MapHonours'
  <2>1. \A l \in startLeases : l \in LeaseIds /\ rows[l] # Null
    BY DEF TypeOK, MapHonours
  <2>2. \A l \in startLeases :
          rows'[l] # Null /\ (Deferring(l)' => Deferring(l) /\ rows'[l].box = rows[l].box)
    BY <2>1, DeferringKept
  <2>. QED  BY <1>1, <2>2 DEF MapHonours
<1>2. CASE StartTick
  <2>1. \A l \in startLeases' : l \in LeaseIds /\ rows[l] # Null
    BY <1>2 DEF StartTick, Deferring, Exists
  <2>2. \A l \in startLeases' : rows'[l] # Null
    BY <2>1, DeferringKept
  <2>. QED  BY <1>2, <2>2 DEF StartTick, MapHonours
<1>3. CASE ReadDeferring
  <2>1. \A l \in startLeases : l \in LeaseIds /\ (Deferring(l) => rows[l].box \in Boxes)
    BY ExistsRow DEF TypeOK, Deferring, Row
  <2>2. \A l \in startLeases : Deferring(l) => rows[l].box \in DeferringBoxes
    BY <2>1 DEF DeferringBoxes, DeferringOn
  <2>. QED  BY <1>3, <2>2 DEF ReadDeferring, MapHonours, Deferring, Exists
<1>4. CASE startLeases' = {} /\ pc' = "idle"
  BY <1>4 DEF MapHonours
<1>5. ASSUME NEW l \in LeaseIds, ExpireOne(l) \/ SweepOne(l) \/ LossOne(l)
      PROVE  MapHonours'
  BY <1>1, <1>5 DEF ExpireOne, SweepOne, LossOne
<1>6. ASSUME NEW label \in [Boxes -> Labels], Observe(label)
      PROVE  MapHonours'
  BY <1>1, <1>6 DEF Observe
<1>7. ASSUME NEW b \in Boxes, WriteBox(b)
      PROVE  MapHonours'
  BY <1>1, <1>7 DEF WriteBox
<1>8. ASSUME ExpireSelect \/ SweepSelect \/ LossSelect \/ LossDone
      PROVE  MapHonours'
  BY <1>1, <1>8 DEF ExpireSelect, SweepSelect, LossSelect, LossDone
<1>9. CASE UNCHANGED tickVars
  BY <1>1, <1>9 DEF tickVars
<1>. QED  BY <1>2, <1>3, <1>4, <1>5, <1>6, <1>7, <1>8, <1>9, TickStands
          DEF TickStep, EndTick, TickFails, TickExits

LEMMA TickInvStep == TypeOK /\ TodoInv /\ TickInv /\ [Next]_vars => TickInv'
<1> SUFFICES ASSUME TypeOK, TodoInv, TickInv, [Next]_vars
             PROVE  TickInv'
  OBVIOUS
<1>1. tickNow' \in {tickNow, clock, 0}
  BY TickStands DEF TickStep, TickFails, TickExits, tickVars, StartTick, ExpireSelect, ExpireOne,
     SweepSelect, SweepOne, ReadDeferring, Observe, WriteBox, LossSelect, LossOne, LossDone, EndTick
<1>2. tickNow' <= clock'
  BY <1>1, ClockRises DEF TickInv, TypeOK
<1>. QED  BY <1>2, DatedStep, SweepJustifiedStep, MapHonoursStep DEF TickInv

\* What a sweep selects has had its grace, what a tick spares is in its map.
LEMMA TickInvariant == Spec => []TickInv
<1>1. Init => TickInv
  BY NullFacts DEF Init, TickInv, Dated, Exists, SweepJustified, MapHonours
<1>. QED  BY <1>1, TypeCorrect, TickInvStep, PTL DEF Spec

\* Only its holder frees a box before its grace is over: what a tick releases
\* had expired, or was lost, at least a grace before the tick began, or its box
\* had been healthy twice, and nothing that came since the tick selected the row
\* makes that untrue (sweepGraces).
THEOREM GraceBeforeFreeing == Spec => TickFreesOnlyAfterGrace
<1> DEFINE Good ==
      \A l \in LeaseIds :
        /\ api' = api /\ Deferring(l) /\ Exists(l)'
        /\ rows'[l].releasedAt # Null
        => \/ /\ rows[l].state = "expired"
              /\ clock >= rows[l].expiredAt + ExpiredGrace
           \/ /\ rows[l].state = "lost"
              /\ clock >= rows[l].lostAt + LostGrace \/ HealthyTwoTicks(rows[l].box)
<1>1. TypeOK /\ TodoInv /\ TickInv /\ [Next]_vars => [Good]_vars
  <2> SUFFICES ASSUME TypeOK, TodoInv, TickInv, [Next]_vars, NEW l \in LeaseIds,
                      api' = api, Deferring(l), Exists(l)', rows'[l].releasedAt # Null
               PROVE  \/ /\ rows[l].state = "expired"
                         /\ clock >= rows[l].expiredAt + ExpiredGrace
                      \/ /\ rows[l].state = "lost"
                         /\ clock >= rows[l].lostAt + LostGrace \/ HealthyTwoTicks(rows[l].box)
    OBVIOUS
  <2>1. rows[l] \in Row /\ Exists(l) /\ rows[l].releasedAt = Null
    BY ExistsRow DEF Deferring
  <2>2. rows'[l] # rows[l]
    BY <2>1
  <2>3. ~\E t \in Ttls : rows'[l] = [rows[l] EXCEPT !.expiresAt = RenewedExpiry(rows[l], t)]
    BY <2>1, RenewedRow
  <2>4. rows'[l] # Expired(rows[l]) /\ rows'[l] # Lost(rows[l])
    BY <2>1, UpdatedRow
  <2>5. pc = "sweep" /\ l \in todo
    BY <2>1, <2>2, <2>3, <2>4, RowsMove DEF RowMoves, Exists, Deferring
  <2>6. GraceOver(l) /\ tickNow <= clock /\ tickNow \in Nat /\ clock \in Nat
    BY <2>5 DEF TickInv, SweepJustified, TypeOK
  <2>7. CASE rows[l].state = "expired" /\ tickNow >= rows[l].expiredAt + ExpiredGrace
    <3>1. rows[l].expiredAt \in Nat /\ ExpiredGrace \in Nat
      BY <2>1, <2>7, NumberFacts DEF TickInv, Dated
    <3>. QED  BY <2>6, <2>7, <3>1
  <2>8. CASE rows[l].state = "lost" /\ tickNow >= rows[l].lostAt + LostGrace
    <3>1. rows[l].lostAt \in Nat /\ LostGrace \in Nat
      BY <2>1, <2>8, NumberFacts DEF TickInv, Dated
    <3>. QED  BY <2>6, <2>8, <3>1
  <2>. QED  BY <2>6, <2>7, <2>8 DEF GraceOver
<1>. QED  BY <1>1, TypeCorrect, TickInvariant, PTL DEF Spec, TickFreesOnlyAfterGrace

\* A box in use is not written to: the map a tick reads after its sweeps names
\* the box of every lease that it started with and that still defers, and no
\* step of the API puts such a lease on another box.
THEOREM LeaseHonoured == Spec => HonouredByNextTick
<1> DEFINE Spared == \A b \in written' \ written : ~\E l \in startLeases : Deferring(l) /\ rows[l].box = b
<1>1. TypeOK /\ TickInv /\ [Next]_vars => [Spared]_vars
  <2> SUFFICES ASSUME TypeOK, TickInv, [Next]_vars, NEW b \in written' \ written,
                      NEW l \in startLeases, Deferring(l), rows[l].box = b
               PROVE  FALSE
    OBVIOUS
  <2>1. pc = "act" /\ b \notin deferring
    BY TickStands DEF TickStep, TickFails, TickExits, tickVars, StartTick, ExpireSelect, ExpireOne,
       SweepSelect, SweepOne, ReadDeferring, Observe, WriteBox, LossSelect, LossOne, LossDone, EndTick
  <2>. QED  BY <2>1 DEF TickInv, MapHonours
<1>. QED  BY <1>1, TypeCorrect, TickInvariant, PTL DEF Spec, HonouredByNextTick

-----------------------------------------------------------------------------
(* The evidence of a loss.                                                 *)

\* What a tick has selected as lost reads as lost.
Condemned == pc = "loss" => \A l \in todo : LossObserved(rows[l].box)

\* A label `unhealthy' at the ordinal just before this tick's is what that tick saw.
FreshMeansSeen ==
  /\ pc # "idle" => snapAge >= 1
  /\ snapAge = (IF pc = "idle" THEN 0 ELSE 1) =>
       \A b \in Boxes : snap[b].cur = "unhealthy" => bad[b]

\* What is there keeps its box, whatever becomes of it.
LEMMA BoxKept ==
  ASSUME TypeOK, TodoInv, [Next]_vars, NEW l \in LeaseIds, Exists(l), Exists(l)'
  PROVE  rows'[l].box = rows[l].box
<1>1. rows[l] \in Row
  BY ExistsRow
<1>2. ASSUME NEW t \in Ttls, rows'[l] = [rows[l] EXCEPT !.expiresAt = RenewedExpiry(rows[l], t)]
      PROVE  rows'[l].box = rows[l].box
  BY <1>1, <1>2, RenewedRow
<1>3. ASSUME NEW was, rows'[l] = Released(rows[l], was)
      PROVE  rows'[l].box = rows[l].box
  BY <1>1, <1>3, UpdatedRow
<1>4. ASSUME rows'[l] = Expired(rows[l]) \/ rows'[l] = Swept(rows[l]) \/ rows'[l] = Lost(rows[l])
      PROVE  rows'[l].box = rows[l].box
  BY <1>1, <1>4, UpdatedRow
<1>. QED  BY <1>2, <1>3, <1>4, RowsMove DEF RowMoves, Exists

LEMMA CondemnedStep ==
  ASSUME TypeOK, TodoInv, Condemned, [Next]_vars
  PROVE  Condemned'
<1>1. ASSUME todo' \subseteq todo, UNCHANGED <<pc, observed, snap, snapAge>>
      PROVE  Condemned'
  <2> SUFFICES ASSUME pc = "loss", NEW l \in todo'
               PROVE  LossObserved(rows[l].box)'
    BY <1>1 DEF Condemned
  <2>1. l \in LeaseIds /\ Exists(l) /\ LossObserved(rows[l].box)
    BY <1>1 DEF TypeOK, TodoInv, Condemned
  <2>2. Exists(l)'
    BY <1>1, TypeStep DEF TodoInv
  <2>. QED  BY <1>1, <2>1, <2>2, BoxKept DEF LossObserved
<1>2. CASE UNCHANGED <<tickVars, snap, snapAge>>
  BY <1>1, <1>2 DEF tickVars
<1>3. ASSUME NEW l \in LeaseIds, LossOne(l)
      PROVE  Condemned'
  BY <1>1, <1>3 DEF LossOne
<1>4. CASE LossSelect
  BY <1>4 DEF LossSelect, Condemned, LossObserved
<1>5. ASSUME NEW b \in Boxes, WriteBox(b)
      PROVE  pc' # "loss"
  BY <1>5 DEF WriteBox
<1>6. ASSUME NEW l \in LeaseIds, ExpireOne(l) \/ SweepOne(l)
      PROVE  pc' # "loss"
  BY <1>6 DEF ExpireOne, SweepOne
<1>7. ASSUME StartTick \/ ExpireSelect \/ SweepSelect \/ ReadDeferring \/ LossDone \/ EndTick \/ TickFails
      PROVE  pc' # "loss"
  BY <1>7 DEF StartTick, ExpireSelect, SweepSelect, ReadDeferring, LossDone, EndTick, TickFails, TickExits
<1>8. ASSUME NEW label \in [Boxes -> Labels], Observe(label)
      PROVE  pc' # "loss"
  BY <1>8 DEF Observe
<1>. QED  BY <1>2, <1>3, <1>4, <1>5, <1>6, <1>7, <1>8, TickStands DEF TickStep, Condemned

LEMMA FreshMeansSeenStep ==
  ASSUME TypeOK, FreshMeansSeen, [ENext]_evidenceVars
  PROVE  FreshMeansSeen'
<1>1. [Next]_vars /\ (Remember \/ UNCHANGED <<vars, bad>>)
  BY DEF ENext, evidenceVars
<1>2. ASSUME UNCHANGED <<snap, snapAge>>, pc # "idle" \/ pc' = "idle", pc # "idle" => pc' # "idle"
      PROVE  FreshMeansSeen'
  <2>1. ~TickVanished /\ (TickRecorded => FALSE)
    BY <1>2 DEF TickVanished, TickRecorded, FreshMeansSeen
  <2>2. bad' = bad
    BY <1>1, <2>1 DEF Remember
  <2>. QED  BY <1>2, <2>2 DEF FreshMeansSeen
<1>3. CASE StartTick
  <2>1. pc = "idle" /\ pc' = "started" /\ snap' = snap /\ snapAge' = Least(snapAge + 1, 2)
    BY <1>3 DEF StartTick
  <2>2. bad' = bad
    BY <1>1, <2>1 DEF Remember, TickRecorded, TickVanished
  <2>3. snapAge' >= 1 /\ (snapAge' = 1 => snapAge = 0)
    BY <2>1 DEF Least, TypeOK
  <2>. QED  BY <2>1, <2>2, <2>3 DEF FreshMeansSeen
<1>4. CASE EndTick
  <2>1. bad' = [b \in Boxes |-> observed[b] = "unhealthy"]
    BY <1>1, <1>4 DEF EndTick, TickExits, Remember, TickRecorded, vars, tickVars
  <2>2. pc' = "idle" /\ \A b \in Boxes : snap'[b].cur = observed[b]
    BY <1>4 DEF EndTick, TickExits, Recorded
  <2>. QED  BY <2>1, <2>2 DEF FreshMeansSeen
<1>5. CASE TickFails
  <2>1. pc' = "idle" /\ pc # "idle" /\ snapAge' = snapAge /\ snapAge >= 1 /\ snapAge # 0
    BY <1>5 DEF TickFails, TickExits, FreshMeansSeen, TypeOK
  <2>. QED  BY <2>1 DEF FreshMeansSeen
<1>6. CASE UNCHANGED <<tickVars, snap, snapAge>>
  BY <1>2, <1>6 DEF tickVars
<1>7. ASSUME NEW l \in LeaseIds, ExpireOne(l) \/ SweepOne(l) \/ LossOne(l)
      PROVE  FreshMeansSeen'
  BY <1>2, <1>7 DEF ExpireOne, SweepOne, LossOne
<1>8. ASSUME NEW b \in Boxes, WriteBox(b)
      PROVE  FreshMeansSeen'
  BY <1>2, <1>8 DEF WriteBox
<1>9. ASSUME NEW label \in [Boxes -> Labels], Observe(label)
      PROVE  FreshMeansSeen'
  BY <1>2, <1>9 DEF Observe
<1>10. ASSUME ExpireSelect \/ SweepSelect \/ ReadDeferring \/ LossSelect \/ LossDone
       PROVE  FreshMeansSeen'
  BY <1>2, <1>10 DEF ExpireSelect, SweepSelect, ReadDeferring, LossSelect, LossDone
<1>. QED  BY <1>1, <1>3, <1>4, <1>5, <1>6, <1>7, <1>8, <1>9, <1>10, TickStands DEF TickStep

EvidenceInv == TypeOK /\ TodoInv /\ Condemned /\ FreshMeansSeen

LEMMA EvidenceInvariant == ESpec => []EvidenceInv
<1>1. EInit => EvidenceInv
  BY InitType DEF EInit, Init, EvidenceInv, Condemned, FreshMeansSeen
<1>2. EvidenceInv /\ [ENext]_evidenceVars => EvidenceInv'
  BY TypeStep, CondemnedStep, FreshMeansSeenStep DEF EvidenceInv, ENext, evidenceVars
<1>. QED  BY <1>1, <1>2, PTL DEF ESpec

\* A lease lost to `unhealthy' was unhealthy in the tick just before, which left
\* a snapshot row: a row is condemned on a label exactly one ordinal old.
THEOREM LossHasEvidence == ESpec => LossNeedsTwoTicks
<1> DEFINE Seen ==
      \A l \in LeaseIds :
        BecomesLost(l) /\ observed[rows[l].box] = "unhealthy" => bad[rows[l].box]
<1>1. EvidenceInv /\ [ENext]_evidenceVars => [Seen]_evidenceVars
  <2> SUFFICES ASSUME EvidenceInv, NEW l \in LeaseIds, BecomesLost(l),
                      observed[rows[l].box] = "unhealthy"
               PROVE  bad[rows[l].box]
    OBVIOUS
  <2>1. l \in todo /\ pc = "loss"
    BY DEF BecomesLost
  <2>2. LossObserved(rows[l].box) /\ rows[l].box \in Boxes
    BY <2>1, ExistsRow DEF EvidenceInv, Condemned, TodoInv, Row
  <2>. QED  BY <2>1, <2>2 DEF EvidenceInv, FreshMeansSeen, LossObserved
<1>. QED  BY <1>1, EvidenceInvariant, PTL DEF ESpec, LossNeedsTwoTicks

-----------------------------------------------------------------------------
(* The files beside the table: StoreFiles.                                  *)

Places == {"idle", "read", "tsv", "map", "keys", "reset", "diverge", "work", "finish", "apply", "clear"}

ProgSet ==
  [at : Places, rows : SUBSET Box, pubs : SUBSET Box, boxes : SUBSET Box, failed : BOOLEAN,
   alone : BOOLEAN, next : {"idle", "diverge", "finish"}]

BackupSet == [day : 0 .. MaxDay, store : StoreSet]

\* Everything has its shape.
Shapes ==
  /\ store \in StoreSet /\ files \in FileSet
  /\ backups \in SUBSET BackupSet
  /\ engine \in {"new", "5.7.1"} /\ quiet \in BOOLEAN
  /\ prog \in [Actors -> ProgSet]
  /\ day \in 0 .. MaxDay /\ moves \in Nat

\* One backup a day, BACKUP_KEEP of them.
BackupsBounded ==
  /\ IsFiniteSet(backups) /\ Cardinality(backups) <= Keep
  /\ \A k, n \in backups : k.day = n.day => k = n

\* 5.7.1 is put back while nothing runs; a tick that is alone runs beside no
\* command; and nothing has run since a quiet tick.
Attended ==
  /\ engine = "5.7.1" => Unattended
  /\ prog["tick"].alone => ~Running("cli")
  /\ quiet => Unattended /\ engine = "new"

\* A file that is not there names nobody.
AbsentIsEmpty == files.present \/ files.tsv = {}

NoFinding == \A b \in Box : store.finding[b] = "none"
Agrees == files.present /\ NoFinding => files.tsv = Enrolled

\* What the file's names are to an undisturbed tick, wherever it is: read for the
\* export, compared, or worth a finding or a failure it will report.
TickKnows ==
  LET t == prog["tick"] IN
  t.alone =>
    /\ t.at = "tsv" => t.rows = Enrolled
    /\ t.at \in {"work", "finish"} \/ (t.at \in {"map", "keys"} /\ t.next = "finish") => t.failed \/ Agrees
    /\ t.at \in {"reset", "read", "tsv", "work"} =>
         \A b \in files.tsv : store.member[b] = "none" => store.finding[b] = "file-only"

StoreInv == Shapes /\ BackupsBounded /\ Attended /\ AbsentIsEmpty /\ TickKnows /\ QuietMeansSafe

LEMMA GotoTick ==
  ASSUME NEW next, Goto("tick", next)
  PROVE  /\ prog'["tick"] = next /\ prog'["cli"] = prog["cli"]
         /\ Shapes /\ next \in ProgSet => prog' \in [Actors -> ProgSet]
BY DEF Goto, Actors, Shapes

\* Whatever a command does, the tick is not alone.
LEMMA GotoCli ==
  ASSUME Shapes, NEW next, Goto("cli", next)
  PROVE  /\ prog'["cli"] = next /\ prog'["tick"] = [prog["tick"] EXCEPT !.alone = FALSE]
         /\ next \in ProgSet => prog' \in [Actors -> ProgSet]
<1>1. prog'["cli"] = next /\ prog'["tick"] = [prog["tick"] EXCEPT !.alone = FALSE]
  BY DEF Goto, Actors
<1>2. [prog["tick"] EXCEPT !.alone = FALSE] \in ProgSet
  BY DEF Shapes, ProgSet, Actors
<1>. QED  BY <1>1, <1>2 DEF Goto, Actors

LEMMA GotoShape ==
  ASSUME Shapes, NEW p \in Actors, NEW next \in ProgSet, Goto(p, next)
  PROVE  prog' \in [Actors -> ProgSet]
BY GotoTick, GotoCli DEF Actors

LEMMA CountedNat == Shapes /\ Counted => moves' \in Nat
BY DEF Shapes, Counted

LEMMA IdleShape == Idle \in ProgSet
BY DEF Idle, ProgSet, Places

LEMMA ExportShape ==
  ASSUME Shapes, NEW p \in Actors
  PROVE  ReadRows(p) \/ WriteTsv(p) \/ WriteMap(p) \/ WriteKeys(p) \/ ResetLegacyFiles(p) => Shapes'
<1>1. prog[p] \in ProgSet /\ store \in StoreSet /\ files \in FileSet
  BY DEF Shapes
<1>2. ASSUME ReadRows(p) PROVE Shapes'
  <2>1. [prog[p] EXCEPT !.at = "tsv", !.rows = Enrolled, !.pubs = Enrolled \cap store.pub] \in ProgSet
    BY <1>1 DEF ProgSet, Places, Enrolled
  <2>. QED  BY <1>2, <2>1, GotoShape DEF ReadRows, Shapes
<1>3. ASSUME NEW at \in Places PROVE At(p, at) \in ProgSet /\ [prog[p] EXCEPT !.at = at, !.failed = TRUE] \in ProgSet
  BY <1>1, <1>3 DEF ProgSet, At
<1>4. ASSUME NEW at \in Places, Fails(p, at) PROVE prog' \in [Actors -> ProgSet] /\ files' = files /\ moves' \in Nat
  BY <1>3, <1>4, GotoShape, CountedNat DEF Fails
<1>5. ASSUME WriteTsv(p) PROVE Shapes'
  <2>1. [files EXCEPT !.tsv = prog[p].rows, !.present = TRUE] \in FileSet
    BY <1>1 DEF FileSet, ProgSet
  <2>. QED  BY <1>3, <1>4, <1>5, <2>1, GotoShape DEF WriteTsv, Shapes, Places
<1>6. ASSUME WriteMap(p) PROVE Shapes'
  <2>1. [files EXCEPT !.map = prog[p].pubs] \in FileSet
    BY <1>1 DEF FileSet, ProgSet
  <2>. QED  BY <1>3, <1>4, <1>6, <2>1, GotoShape DEF WriteMap, Shapes, Places
<1>7. ASSUME WriteKeys(p) PROVE Shapes'
  <2>1. [files EXCEPT !.keys = (@ \ prog[p].boxes) \cup (store.keys \cap prog[p].boxes)] \in FileSet
    BY <1>1 DEF FileSet, ProgSet, StoreSet
  <2>2. prog[p].next \in Places
    BY <1>1 DEF ProgSet, Places
  <2>3. Exported(p) \in ProgSet /\ Exported(p).at \in Places
    BY <1>1, <1>3, <2>2, IdleShape DEF Exported, ProgSet
  <2>. QED  BY <1>4, <1>7, <2>1, <2>3, GotoShape DEF WriteKeys, Shapes
<1>8. ASSUME ResetLegacyFiles(p) PROVE Shapes'
  <2>1. [files EXCEPT !.streaks = FALSE] \in FileSet
    BY <1>1 DEF FileSet
  <2>2. [prog[p] EXCEPT !.at = "read", !.boxes = prog[p].boxes, !.next = Onward] \in ProgSet
    BY <1>1 DEF ProgSet, Places, Onward
  <2>. QED  BY <1>8, <2>1, <2>2, GotoShape DEF ResetLegacyFiles, StartExport, Shapes
<1>. QED  BY <1>2, <1>5, <1>6, <1>7, <1>8

LEMMA ReplayedShape ==
  ASSUME Shapes
  PROVE  Replayed \in StoreSet
BY DEF Shapes, Replayed, StoreSet, FileSet, Phases, Findings

LEMMA ImportShape ==
  ASSUME Shapes, NEW p \in Actors, Import(p)
  PROVE  store' \in StoreSet /\ prog' \in [Actors -> ProgSet]
<1>1. ASSUME NEW alone \in BOOLEAN
      PROVE  [At(p, "reset") EXCEPT !.boxes = files.tsv, !.alone = alone] \in ProgSet
  <2>1. prog[p] \in ProgSet /\ files.tsv \in SUBSET Box /\ "reset" \in Places
    BY DEF Shapes, FileSet, Places
  <2>2. At(p, "reset") \in ProgSet
    BY <2>1 DEF At, ProgSet
  <2>. QED  BY <2>1, <2>2 DEF ProgSet
<1>2. (p = "tick" /\ ~Running("cli")) \in BOOLEAN
  OBVIOUS
<1>3. [At(p, "reset") EXCEPT !.boxes = files.tsv, !.alone = p = "tick" /\ ~Running("cli")] \in ProgSet
  BY <1>1, <1>2, Zenon
<1>. QED  BY <1>3, ReplayedShape, GotoShape DEF Import

LEMMA MaintainShape ==
  ASSUME Shapes, Maintain
  PROVE  /\ store' \in StoreSet /\ backups' \in SUBSET BackupSet
         /\ UNCHANGED <<store.member, store.finding, store.pub, store.keys>>
<1>1. store \in StoreSet /\ day \in 0 .. Never /\ MaxDay \in Nat
  BY StoreFilesAssumption DEF Shapes, Never, StoreFilesAssumption
<1>2. [store EXCEPT !.flag = TRUE] \in StoreSet /\ [store EXCEPT !.backedUp = day] \in StoreSet
  BY <1>1 DEF StoreSet
<1>3. store' \in {store, [store EXCEPT !.flag = TRUE], [store EXCEPT !.backedUp = day]}
  BY DEF Maintain
<1>4. WithBackup \in SUBSET BackupSet
  BY <1>1 DEF WithBackup, NewestKept, Shapes, BackupSet
<1>. QED  BY <1>1, <1>2, <1>3, <1>4 DEF Maintain, StoreSet, Shapes

LEMMA TickShape ==
  ASSUME Shapes, Tick
  PROVE  Shapes'
<1>1. prog["tick"] \in ProgSet /\ store \in StoreSet /\ files \in FileSet
  BY DEF Shapes, Actors
<1>2. ASSUME TickOpen PROVE Shapes'
  <2>1. [store EXCEPT !.imported = TRUE] \in StoreSet
    BY <1>1 DEF StoreSet
  <2>2. [Idle EXCEPT !.at = Onward, !.alone = ~Running("cli")] \in ProgSet
    BY DEF Idle, ProgSet, Places, Onward
  <2>3. store' \in StoreSet /\ prog' \in [Actors -> ProgSet]
    BY <1>2, <2>1, <2>2, ImportShape, GotoTick DEF TickOpen, Actors
  <2>. QED  BY <1>2, <2>3 DEF TickOpen, Shapes
<1>3. ASSUME CheckDivergence PROVE Shapes'
  <2>1. [store EXCEPT !.finding = [b \in Box |-> Finding(b)]] \in StoreSet
    BY <1>1 DEF StoreSet, Finding, Findings
  <2>2. At("tick", "work") \in ProgSet
    BY <1>1 DEF At, ProgSet, Places
  <2>. QED  BY <1>1, <1>3, <2>1, <2>2, GotoTick DEF CheckDivergence, Shapes
<1>4. ASSUME TickWork PROVE Shapes'
  <2>1. CASE Goto("tick", At("tick", "finish")) /\ UNCHANGED <<store, moves>>
    <3>1. At("tick", "finish") \in ProgSet
      BY <1>1 DEF At, ProgSet, Places
    <3>. QED  BY <1>4, <2>1, <3>1, GotoTick DEF TickWork, Shapes
  <2>2. ASSUME NEW b \in Box, Counted,
               store' = [store EXCEPT !.member[b] = "enrolled", !.pub = @ \cup {b}],
               StartExport("tick", {}, "finish")
        PROVE  Shapes'
    <3>1. store' \in StoreSet
      BY <1>1, <2>2 DEF StoreSet, Phases
    <3>2. [prog["tick"] EXCEPT !.at = "read", !.boxes = {}, !.next = "finish"] \in ProgSet
      BY <1>1 DEF ProgSet, Places
    <3>. QED  BY <1>4, <2>2, <3>1, <3>2, GotoTick, CountedNat DEF StartExport, TickWork, Shapes
  <2>3. ASSUME NEW b \in Enrolled \ store.keys, Counted,
               store' = [store EXCEPT !.keys = @ \cup {b}],
               Goto("tick", [At("tick", "keys") EXCEPT !.boxes = {b}, !.next = "finish"])
        PROVE  Shapes'
    <3>0. b \in Box
      BY DEF Enrolled
    <3>1. store' \in StoreSet
      BY <1>1, <2>3, <3>0 DEF StoreSet
    <3>2. [At("tick", "keys") EXCEPT !.boxes = {b}, !.next = "finish"] \in ProgSet
      BY <1>1, <3>0 DEF At, ProgSet, Places
    <3>. QED  BY <1>4, <2>3, <3>1, <3>2, GotoTick, CountedNat DEF TickWork, Shapes
  <2>. QED  BY <1>4, <2>1, <2>2, <2>3 DEF TickWork
<1>5. ASSUME TickFinish PROVE Shapes'
  <2>1. store' \in StoreSet /\ backups' \in SUBSET BackupSet
    BY <1>1, <1>5, MaintainShape DEF TickFinish, Shapes
  <2>2. quiet' \in BOOLEAN
    BY <1>1, <1>5 DEF TickFinish, ProgSet, NothingToReport
  <2>. QED  BY <1>5, <2>1, <2>2, GotoTick, IdleShape DEF TickFinish, Shapes
<1>. QED  BY <1>2, <1>3, <1>4, <1>5 DEF Tick

LEMMA CliShape ==
  ASSUME Shapes, Cli
  PROVE  Shapes'
<1>1. prog["cli"] \in ProgSet /\ store \in StoreSet /\ files \in FileSet /\ "cli" \in Actors
  BY DEF Shapes, Actors
<1>2. ASSUME NEW at \in Places, NEW boxes \in SUBSET Box, NEW next \in {"idle", "diverge", "finish"}
      PROVE  /\ [prog["cli"] EXCEPT !.at = at, !.boxes = boxes, !.next = next] \in ProgSet
             /\ [At("cli", at) EXCEPT !.boxes = boxes] \in ProgSet
             /\ [prog["cli"] EXCEPT !.boxes = boxes] \in ProgSet
             /\ [Idle EXCEPT !.at = at, !.boxes = boxes] \in ProgSet
             /\ [Idle EXCEPT !.at = at] \in ProgSet
  BY <1>1 DEF ProgSet, At, Idle
<1>i. {"idle", "read", "diverge", "apply"} \subseteq Places /\ "idle" \in {"idle", "diverge", "finish"}
  BY DEF Places
<1>3. Command => moves' \in Nat /\ quiet' \in BOOLEAN
  BY CountedNat DEF Command
<1>4. ASSUME NEW b \in Box, CliRetire(b) \/ CliEnrol(b) \/ CliForgetKey(b)
      PROVE  Shapes'
  <2>1. CASE CliRetire(b)
    <3>1. store' \in StoreSet
      BY <1>1, <2>1 DEF CliRetire, StoreSet, Phases
    <3>2. prog' \in [Actors -> ProgSet]
      <4>1. [prog["cli"] EXCEPT !.at = "read", !.boxes = {b}, !.next = "idle"] \in ProgSet
        <5>1. {b} \in SUBSET Box /\ "read" \in Places
          BY <1>i
        <5>. QED  BY <5>1, <1>2, <1>i, Zenon
      <4>. QED  BY <2>1, <4>1, GotoCli DEF CliRetire, StartExport
    <3>. QED  BY <1>3, <2>1, <3>1, <3>2 DEF CliRetire, Shapes
  <2>2. CASE CliEnrol(b)
    <3>1. store' \in StoreSet
      BY <1>1, <2>2 DEF CliEnrol, StoreSet, Phases
    <3>2. prog' \in [Actors -> ProgSet]
      <4>1. [prog["cli"] EXCEPT !.at = "read", !.boxes = {}, !.next = "idle"] \in ProgSet
        <5>1. {} \in SUBSET Box /\ "read" \in Places
          BY <1>i
        <5>. QED  BY <5>1, <1>2, <1>i, Zenon
      <4>. QED  BY <2>2, <4>1, GotoCli DEF CliEnrol, StartExport
    <3>. QED  BY <1>3, <2>2, <3>1, <3>2 DEF CliEnrol, Shapes
  <2>3. CASE CliForgetKey(b)
    <3>1. store' \in StoreSet
      BY <1>1, <2>3 DEF CliForgetKey, StoreSet
    <3>2. prog' \in [Actors -> ProgSet]
      <4>1. [At("cli", "keys") EXCEPT !.boxes = {b}] \in ProgSet
        BY <1>2 DEF Places
      <4>. QED  BY <2>3, <4>1, GotoCli DEF CliForgetKey
    <3>. QED  BY <1>3, <2>3, <3>1, <3>2 DEF CliForgetKey, Shapes
  <2>. QED  BY <1>4, <2>1, <2>2, <2>3
<1>5. ASSUME CliImport PROVE Shapes'
  BY <1>1, <1>3, <1>5, ImportShape DEF CliImport, Shapes
<1>6. ASSUME CliReconcile PROVE Shapes'
  <2>1. prog' \in [Actors -> ProgSet]
    BY <1>2, <1>6, GotoCli DEF CliReconcile, Places
  <2>. QED  BY <1>3, <1>6, <2>1 DEF CliReconcile, Shapes
<1>7. ASSUME CliApply PROVE Shapes'
  <2>1. ASSUME NEW b \in prog["cli"].boxes,
               store' = [store EXCEPT !.member[b] = "enrolled", !.finding[b] = "none",
                                      !.pub = @ \cup ({b} \cap files.map)],
               Goto("cli", [prog["cli"] EXCEPT !.boxes = @ \ {b}])
        PROVE  Shapes'
    <3>1. b \in Box /\ prog["cli"].boxes \ {b} \in SUBSET Box
      BY <1>1 DEF ProgSet
    <3>2. store' \in StoreSet
      BY <1>1, <2>1, <3>1 DEF StoreSet, Phases, Findings
    <3>3. prog' \in [Actors -> ProgSet]
      BY <1>2, <2>1, <3>1, GotoCli DEF Places
    <3>. QED  BY <1>7, <3>2, <3>3 DEF CliApply, Shapes
  <2>2. ASSUME StartExport("cli", Enrolled, "idle"), UNCHANGED store
        PROVE  Shapes'
    <3>1. [prog["cli"] EXCEPT !.at = "read", !.boxes = Enrolled, !.next = "idle"] \in ProgSet
      <4>1. Enrolled \in SUBSET Box /\ "read" \in Places
        BY <1>i DEF Enrolled
      <4>. QED  BY <4>1, <1>2, <1>i, Zenon
    <3>2. prog' \in [Actors -> ProgSet]
      BY <2>2, <3>1, GotoCli DEF StartExport
    <3>. QED  BY <1>7, <2>2, <3>2 DEF CliApply, Shapes
  <2>. QED  BY <1>7, <2>1, <2>2 DEF CliApply
<1>8. ASSUME CliCheck \/ CliClear PROVE Shapes'
  <2>1. [store EXCEPT !.flag = FALSE] \in StoreSet
    BY <1>1 DEF StoreSet
  <2>2. prog' \in [Actors -> ProgSet]
    BY <1>2, <1>8, GotoCli, IdleShape DEF CliCheck, CliClear, Places
  <2>. QED  BY <1>3, <1>8, <2>1, <2>2 DEF CliCheck, CliClear, Shapes
<1>9. ASSUME CliBackup PROVE Shapes'
  BY <1>3, <1>9, MaintainShape, GotoCli, IdleShape DEF CliBackup, Shapes
<1>10. ASSUME CliRestore PROVE Shapes'
  <2>1. store' \in StoreSet
    BY <1>10 DEF CliRestore, Shapes, BackupSet, StoreSet
  <2>. QED  BY <1>3, <1>10, <2>1, GotoCli, IdleShape DEF CliRestore, Shapes
<1>. QED  BY <1>4, <1>5, <1>6, <1>7, <1>8, <1>9, <1>10 DEF Cli

LEMMA WorldShape ==
  ASSUME Shapes, Rollback \/ Forward \/ OldEngine \/ Damage \/ Recovered \/ MendFile \/ NextDay
  PROVE  Shapes'
<1>1. store \in StoreSet /\ files \in FileSet /\ MaxDay \in Nat
  BY StoreFilesAssumption DEF Shapes, StoreFilesAssumption
<1>2. \A f \in BOOLEAN : [store EXCEPT !.bad = f] \in StoreSet
  BY <1>1 DEF StoreSet
<1>3. CASE OldEngine
  <2>1. PICK b \in Box :
          \/ files' = [files EXCEPT !.present = TRUE, !.tsv = @ \cup {b}, !.map = @ \cup {b},
                                    !.streaks = TRUE]
          \/ files' = [files EXCEPT !.present = TRUE, !.tsv = @ \ {b}, !.map = @ \ {b},
                                    !.keys = @ \ {b}]
    BY <1>3 DEF OldEngine
  <2>2. /\ files.tsv \cup {b} \in SUBSET Box /\ files.map \cup {b} \in SUBSET Box
        /\ files.tsv \ {b} \in SUBSET Box /\ files.map \ {b} \in SUBSET Box
        /\ files.keys \ {b} \in SUBSET Box
    BY <1>1 DEF FileSet
  <2>3. /\ [files EXCEPT !.present = TRUE, !.tsv = @ \cup {b}, !.map = @ \cup {b},
                         !.streaks = TRUE] \in FileSet
        /\ [files EXCEPT !.present = TRUE, !.tsv = @ \ {b}, !.map = @ \ {b},
                         !.keys = @ \ {b}] \in FileSet
    BY <1>1, <2>2 DEF FileSet
  <2>. QED  BY <1>3, <2>1, <2>3, CountedNat DEF OldEngine, Shapes
<1>4. CASE MendFile
  <2>1. files' \in FileSet
    BY <1>1, <1>4 DEF MendFile, FileSet
  <2>. QED  BY <1>4, <2>1 DEF MendFile, Shapes
<1>5. CASE Damage
  BY <1>2, <1>5, CountedNat DEF Damage, Shapes
<1>6. CASE Recovered
  BY <1>2, <1>6 DEF Recovered, Shapes
<1>7. CASE Rollback
  BY <1>7, CountedNat DEF Rollback, Shapes
<1>8. CASE Forward
  BY <1>8 DEF Forward, Shapes
<1>9. CASE NextDay
  <2>1. day' \in 0 .. MaxDay
    BY <1>1, <1>9 DEF NextDay, Shapes
  <2>. QED  BY <1>9, <2>1 DEF NextDay, Shapes
<1>. QED  BY <1>3, <1>4, <1>5, <1>6, <1>7, <1>8, <1>9

LEMMA ShapesStep == Shapes /\ [StoreNext]_storeVars => Shapes'
<1> SUFFICES ASSUME Shapes, [StoreNext]_storeVars PROVE Shapes'
  OBVIOUS
<1>1. ASSUME NEW p \in Actors, Export(p) PROVE Shapes'
  BY <1>1, ExportShape DEF Export
<1>2. ASSUME NEW p \in Actors, Killed(p) PROVE Shapes'
  BY <1>2, GotoShape, IdleShape, CountedNat DEF Killed, Shapes
<1>3. CASE UNCHANGED storeVars
  BY <1>3 DEF storeVars, Shapes
<1>. QED  BY <1>1, <1>2, <1>3, TickShape, CliShape, WorldShape DEF StoreNext

\* Any numbers have a least one.
LEMMA LeastNat ==
  ASSUME NEW T \in SUBSET Nat, T # {}
  PROVE  \E m \in T : \A n \in T : m <= n
<1>. DEFINE Below(m) == {n \in T : n < m}
            R == StrictSubsetOrdering(T)
            F == {Below(m) : m \in T}
<1>0. \A n \in T : n \in Nat
  OBVIOUS
<1>1. \A m \in T : Below(m) \in FiniteSubsetsOf(T)
  <2>1. ASSUME NEW m \in T PROVE IsFiniteSet(Below(m))
    <3>1. Below(m) \in SUBSET Nat
      BY <1>0
    <3>2. m \in Nat /\ \A n \in Below(m) : n <= m
      BY <1>0
    <3>. QED  BY <3>1, <3>2, FS_BoundedSetOfNaturals
  <2>. QED  BY <2>1 DEF FiniteSubsetsOf
<1>2. PICK b \in F : \A c \in F : <<c, b>> \notin R
  <2>1. F \subseteq FiniteSubsetsOf(T) /\ F # {}
    BY <1>1
  <2>2. IsWellFoundedOn(R, FiniteSubsetsOf(T))
    BY FS_StrictSubsetOrderingWellFounded
  <2>. HIDE DEF F, R
  <2>. QED  BY <2>1, <2>2, WFMin
<1>3. PICK m \in T : b = Below(m)
  BY <1>2
<1>4. ASSUME NEW n \in T, n < m PROVE FALSE
  <2>1. /\ \A k \in T : k < n => k < m
        /\ ~(n < n)
    BY <1>0, <1>4
  <2>2. Below(n) \subseteq Below(m)
    BY <2>1
  <2>3. Below(n) # Below(m)
    <3>1. n \in Below(m)
      BY <1>4
    <3>2. n \notin Below(n)
      BY <2>1
    <3>. QED  BY <3>1, <3>2
  <2>4. <<Below(n), Below(m)>> \in R
    BY <2>2, <2>3 DEF StrictSubsetOrdering
  <2>. QED  BY <1>2, <1>3, <2>4
<1>5. \A n \in T : n < m \/ m <= n
  BY <1>0
<1>. QED  BY <1>4, <1>5

\* backup.ts keeps the newest BACKUP_KEEP days: below the oldest kept one there are
\* fewer than BACKUP_KEEP newer.
LEMMA NewestKeptBounded ==
  ASSUME NEW S, IsFiniteSet(S), \A k \in S : k.day \in Nat, \A k, n \in S : k.day = n.day => k = n
  PROVE  /\ IsFiniteSet(NewestKept(S)) /\ Cardinality(NewestKept(S)) <= Keep
         /\ NewestKept(S) \subseteq S
<1>. DEFINE R == NewestKept(S)
<1>1. R \subseteq S
  BY DEF NewestKept
<1>2. IsFiniteSet(R)
  BY <1>1, FS_Subset
<1>3. CASE R = {}
  BY <1>2, <1>3, FS_EmptySet, StoreFilesAssumption DEF StoreFilesAssumption
<1>4. CASE R # {}
  <2>. DEFINE Days == {k.day : k \in R}
  <2>1. Days \in SUBSET Nat /\ Days # {}
    BY <1>1, <1>4
  <2>2. PICK m \in Days : \A n \in Days : m <= n
    <3>. HIDE DEF Days
    <3>. QED  BY <2>1, LeastNat
  <2>3. PICK k \in R : k.day = m
    BY <2>2
  <2>. DEFINE N == {n \in S : n.day > k.day}
  <2>4. Cardinality(N) < Keep
    BY <2>3 DEF NewestKept
  <2>5. \A n \in R : n = k \/ n.day > k.day
    <3>1. \A n \in R : k.day <= n.day /\ n.day \in Nat /\ k.day \in Nat
      BY <1>1, <2>2, <2>3
    <3>2. \A n \in R : n.day = k.day => n = k
      BY <1>1, <2>3
    <3>. QED  BY <3>1, <3>2
  <2>6. R \in SUBSET (N \cup {k})
    BY <1>1, <2>5
  <2>7. IsFiniteSet(N) /\ Cardinality(N) \in Nat
    BY FS_Subset, FS_CardinalityType
  <2>8. IsFiniteSet(N \cup {k}) /\ Cardinality(N \cup {k}) <= Cardinality(N) + 1
    <3>. HIDE DEF N
    <3>1. IsFiniteSet(N \cup {k}) /\ Cardinality(N \cup {k}) = IF k \in N THEN Cardinality(N) ELSE Cardinality(N) + 1
      BY <2>7, FS_AddElement
    <3>. QED  BY <2>7, <3>1
  <2>9. Cardinality(R) <= Cardinality(N \cup {k}) /\ Cardinality(R) \in Nat /\ Cardinality(N \cup {k}) \in Nat
    <3>. HIDE DEF N, R
    <3>. QED  BY <1>2, <2>6, <2>8, FS_Subset, FS_CardinalityType
  <2>. HIDE DEF N, R
  <2>10. Cardinality(R) <= Keep
    BY <2>4, <2>7, <2>8, <2>9, StoreFilesAssumption DEF StoreFilesAssumption
  <2>. QED  BY <1>1, <1>2, <2>10 DEF R
<1>. QED  BY <1>3, <1>4

LEMMA MaintainBounded ==
  ASSUME Shapes, BackupsBounded, Maintain
  PROVE  BackupsBounded'
<1>1. CASE UNCHANGED backups
  BY <1>1 DEF BackupsBounded
<1>2. CASE backups' = WithBackup
  <2>. DEFINE O == {k \in backups : k.day # day}  k0 == [day |-> day, store |-> store]
  <2>1. IsFiniteSet(O)
    BY FS_Subset DEF BackupsBounded
  <2>2. IsFiniteSet(O \cup {k0})
    BY <2>1, FS_AddElement
  <2>3. \A k \in O \cup {k0} : k.day \in Nat
    BY StoreFilesAssumption DEF Shapes, BackupSet, StoreFilesAssumption
  <2>4. \A k, n \in O \cup {k0} : k.day = n.day => k = n
    BY DEF BackupsBounded
  <2>5. backups' = NewestKept(O \cup {k0})
    BY <1>2 DEF WithBackup
  <2>. HIDE DEF O, k0
  <2>6. IsFiniteSet(backups') /\ Cardinality(backups') <= Keep /\ backups' \subseteq O \cup {k0}
    BY <2>2, <2>3, <2>4, <2>5, NewestKeptBounded
  <2>. QED  BY <2>4, <2>6 DEF BackupsBounded
<1>. QED  BY <1>1, <1>2 DEF Maintain

\* Nothing else touches a backup.
LEMMA OnlyMaintain ==
  StoreNext => UNCHANGED backups \/ Maintain
<1>1. ASSUME NEW p \in Actors, Export(p) \/ Killed(p) PROVE UNCHANGED backups
  BY <1>1 DEF Export, ReadRows, WriteTsv, WriteMap, WriteKeys, ResetLegacyFiles, Killed
<1>2. ASSUME Tick PROVE UNCHANGED backups \/ Maintain
  <2>1. TickOpen => UNCHANGED backups
    BY DEF TickOpen
  <2>2. CheckDivergence => UNCHANGED backups
    BY DEF CheckDivergence
  <2>3. TickWork => UNCHANGED backups
    <3>1. TickWork => UNCHANGED <<files, backups, engine, quiet, day>>
      BY Zenon DEF TickWork
    <3>. QED  BY <3>1
  <2>4. TickFinish => UNCHANGED backups \/ Maintain
    BY DEF TickFinish
  <2>. QED  BY <1>2, <2>1, <2>2, <2>3, <2>4 DEF Tick
<1>3. ASSUME Cli PROVE UNCHANGED backups \/ Maintain
  <2>1. ASSUME NEW b \in Box, CliRetire(b) \/ CliEnrol(b) \/ CliForgetKey(b) PROVE UNCHANGED backups
    BY <2>1 DEF CliRetire, CliEnrol, CliForgetKey
  <2>2. CliImport \/ CliReconcile => UNCHANGED backups
    BY DEF CliImport, CliReconcile
  <2>3. CliApply => UNCHANGED backups
    <3>1. CliApply => UNCHANGED <<files, backups, engine, quiet, day, moves>>
      BY Zenon DEF CliApply
    <3>. QED  BY <3>1
  <2>4. CliCheck \/ CliClear => UNCHANGED backups
    BY DEF CliCheck, CliClear
  <2>5. CliRestore => UNCHANGED backups
    BY DEF CliRestore
  <2>6. CliBackup => Maintain
    BY DEF CliBackup
  <2>. QED  BY <1>3, <2>1, <2>2, <2>3, <2>4, <2>5, <2>6 DEF Cli
<1>4. Rollback \/ Forward => UNCHANGED backups
  BY DEF Rollback, Forward
<1>5. OldEngine => UNCHANGED backups
  BY DEF OldEngine
<1>6. Damage \/ Recovered => UNCHANGED backups
  BY DEF Damage, Recovered
<1>7. MendFile \/ NextDay => UNCHANGED backups
  BY DEF MendFile, NextDay
<1>. QED  BY <1>1, <1>2, <1>3, <1>4, <1>5, <1>6, <1>7 DEF StoreNext

LEMMA BackupsStep == Shapes /\ BackupsBounded /\ [StoreNext]_storeVars => BackupsBounded'
BY OnlyMaintain, MaintainBounded DEF storeVars, BackupsBounded

LEMMA StoreInitShapes == StoreInit => Shapes /\ BackupsBounded
<1> SUFFICES ASSUME StoreInit PROVE Shapes /\ BackupsBounded
  OBVIOUS
<1>1. store \in StoreSet
  BY StoreFilesAssumption DEF StoreInit, StoreSet, Phases, Findings, Never, StoreFilesAssumption
<1>2. files \in FileSet
  BY DEF StoreInit, FileSet
<1>3. prog \in [Actors -> ProgSet]
  BY IdleShape DEF StoreInit
<1>4. BackupsBounded
  BY FS_EmptySet, StoreFilesAssumption DEF StoreInit, BackupsBounded, StoreFilesAssumption
<1>5. backups \in SUBSET BackupSet /\ engine \in {"new", "5.7.1"} /\ quiet \in BOOLEAN
  BY DEF StoreInit
<1>6. day \in 0 .. MaxDay /\ moves \in Nat
  BY StoreFilesAssumption DEF StoreInit, StoreFilesAssumption
<1>. QED  BY <1>1, <1>2, <1>3, <1>4, <1>5, <1>6 DEF Shapes

\* The store, the files and the backups keep their shapes whatever fails or is
\* killed, and there are never more backups than BACKUP_KEEP, the tick's and the
\* operator's counted together.
THEOREM StoreTypeCorrect == StoreSpec => []StoreTypeOK
<1>1. StoreInit => Shapes /\ BackupsBounded
  BY StoreInitShapes
<1>2. Shapes /\ BackupsBounded /\ [StoreNext]_storeVars => Shapes' /\ BackupsBounded'
  BY ShapesStep, BackupsStep
<1>3. Shapes /\ BackupsBounded => StoreTypeOK
  BY DEF Shapes, BackupsBounded, BackupSet, StoreTypeOK
<1>. QED  BY <1>1, <1>2, <1>3, PTL DEF StoreSpec

\* What a step of the operator's command does to the rest: the tick is no longer
\* alone, and the command was already running or 5.7.1 is not installed.
LEMMA CliMoves ==
  ASSUME Shapes, Cli \/ Export("cli") \/ Killed("cli")
  PROVE  /\ prog'["tick"] = [prog["tick"] EXCEPT !.alone = FALSE]
         /\ engine' = engine
         /\ Running("cli") \/ (engine = "new" /\ quiet' = FALSE)
         /\ quiet' = quiet \/ quiet' = FALSE
         /\ AbsentIsEmpty => AbsentIsEmpty'
<1>. DEFINE Moved == \E next : Goto("cli", next)
            Frame == /\ engine' = engine
                     /\ Running("cli") \/ (engine = "new" /\ quiet' = FALSE)
                     /\ quiet' = quiet \/ quiet' = FALSE
                     /\ AbsentIsEmpty => AbsentIsEmpty'
<1>1. ASSUME Cli PROVE Moved /\ Frame
  <2>1. ASSUME NEW b \in Box, CliRetire(b) \/ CliEnrol(b) \/ CliForgetKey(b) PROVE Moved /\ Frame
    BY <2>1 DEF CliRetire, CliEnrol, CliForgetKey, StartExport, Command, AbsentIsEmpty
  <2>2. ASSUME CliImport PROVE Moved /\ Frame
    BY <2>2 DEF CliImport, Import, Command, AbsentIsEmpty
  <2>3. ASSUME CliReconcile PROVE Moved /\ Frame
    BY <2>3 DEF CliReconcile, Command, AbsentIsEmpty
  <2>4. ASSUME CliApply PROVE Moved /\ Frame
    <3>1. UNCHANGED <<files, backups, engine, quiet, day, moves>> /\ prog["cli"].at = "apply"
      BY <2>4, Zenon DEF CliApply
    <3>2. Moved
      BY <2>4, Zenon DEF CliApply, StartExport
    <3>. QED  BY <3>1, <3>2 DEF AbsentIsEmpty, Running
  <2>5. ASSUME CliCheck PROVE Moved /\ Frame
    BY <2>5 DEF CliCheck, Command, AbsentIsEmpty
  <2>6. ASSUME CliClear PROVE Moved /\ Frame
    BY <2>6 DEF CliClear, Running, AbsentIsEmpty
  <2>7. ASSUME CliBackup \/ CliRestore PROVE Moved /\ Frame
    BY <2>7 DEF CliBackup, CliRestore, Command, AbsentIsEmpty
  <2>. QED  BY <1>1, <2>1, <2>2, <2>3, <2>4, <2>5, <2>6, <2>7 DEF Cli
<1>2. ASSUME Export("cli") PROVE Moved /\ Frame
  <2>1. Running("cli") /\ engine' = engine /\ quiet' = quiet
    BY <1>2 DEF Export, ReadRows, WriteTsv, WriteMap, WriteKeys, ResetLegacyFiles, Running
  <2>2. Moved
    BY <1>2 DEF Export, ReadRows, WriteTsv, WriteMap, WriteKeys, ResetLegacyFiles, Fails, StartExport
  <2>3. AbsentIsEmpty => AbsentIsEmpty'
    <3>1. ReadRows("cli") \/ WriteMap("cli") \/ WriteKeys("cli") \/ ResetLegacyFiles("cli")
            => files'.present = files.present /\ files'.tsv = files.tsv
      BY DEF Shapes, FileSet, ReadRows, WriteMap, WriteKeys, ResetLegacyFiles, Fails
    <3>2. WriteTsv("cli") => files'.present \/ files' = files
      BY DEF Shapes, FileSet, WriteTsv, Fails
    <3>. QED  BY <1>2, <3>1, <3>2 DEF Export, AbsentIsEmpty
  <2>. QED  BY <2>1, <2>2, <2>3
<1>3. ASSUME Killed("cli") PROVE Moved /\ Frame
  BY <1>3 DEF Killed, AbsentIsEmpty
<1>. QED  BY <1>1, <1>2, <1>3, GotoCli

\* An export goes from place to place and changes nothing of who is alone.
LEMMA ExportMoves ==
  ASSUME prog["tick"] \in ProgSet, Export("tick")
  PROVE  \E next : Goto("tick", next) /\ next.alone = prog["tick"].alone
<1>. DEFINE Goal == \E next : Goto("tick", next) /\ next.alone = prog["tick"].alone
<1>1. \A at : At("tick", at).alone = prog["tick"].alone
               /\ [prog["tick"] EXCEPT !.at = at, !.failed = TRUE].alone = prog["tick"].alone
  BY DEF At, ProgSet
<1>2. ASSUME ReadRows("tick") PROVE Goal
  <2>1. [prog["tick"] EXCEPT !.at = "tsv", !.rows = Enrolled, !.pubs = Enrolled \cap store.pub].alone
          = prog["tick"].alone
    BY DEF ProgSet
  <2>. QED  BY <1>2, <2>1 DEF ReadRows
<1>3. ASSUME WriteTsv("tick") \/ WriteMap("tick") PROVE Goal
  BY <1>1, <1>3 DEF WriteTsv, WriteMap, Fails
<1>4. ASSUME WriteKeys("tick") PROVE Goal
  <2>1. Exported("tick") = At("tick", prog["tick"].next)
    BY DEF Exported
  <2>. QED  BY <1>1, <1>4, <2>1 DEF WriteKeys, Fails
<1>5. ASSUME ResetLegacyFiles("tick") PROVE Goal
  <2>1. [prog["tick"] EXCEPT !.at = "read", !.boxes = prog["tick"].boxes, !.next = Onward].alone
          = prog["tick"].alone
    BY DEF ProgSet
  <2>. QED  BY <1>5, <2>1 DEF ResetLegacyFiles, StartExport
<1>. QED  BY <1>2, <1>3, <1>4, <1>5 DEF Export

\* What a step of the tick does to the rest.
LEMMA TickMoves ==
  ASSUME Shapes, Tick \/ Export("tick") \/ Killed("tick")
  PROVE  /\ prog'["cli"] = prog["cli"] /\ engine' = engine
         /\ Running("tick") \/ (engine = "new" /\ quiet' = FALSE)
         /\ prog'["tick"].alone => prog["tick"].alone \/ ~Running("cli")
         /\ \/ quiet' = quiet \/ quiet' = FALSE
            \/ TickFinish /\ prog'["tick"] = Idle
         /\ AbsentIsEmpty => AbsentIsEmpty'
<1>. DEFINE Goal == /\ prog'["cli"] = prog["cli"] /\ engine' = engine
                    /\ Running("tick") \/ (engine = "new" /\ quiet' = FALSE)
                    /\ prog'["tick"].alone => prog["tick"].alone \/ ~Running("cli")
                    /\ \/ quiet' = quiet \/ quiet' = FALSE
                       \/ TickFinish /\ prog'["tick"] = Idle
                    /\ AbsentIsEmpty => AbsentIsEmpty'
<1>0. prog["tick"] \in ProgSet /\ files \in FileSet
  BY DEF Shapes, Actors
<1>1. CASE TickOpen
  <2>1. prog'["cli"] = prog["cli"] /\ (prog'["tick"].alone => ~Running("cli"))
    <3>1. PICK next \in {[At("tick", "reset") EXCEPT !.boxes = files.tsv, !.alone = ~Running("cli")],
                         [Idle EXCEPT !.at = Onward, !.alone = ~Running("cli")]} : Goto("tick", next)
      BY <1>1 DEF TickOpen, Import
    <3>2. next.alone = ~Running("cli")
      BY <1>0, <3>1 DEF At, ProgSet, Idle
    <3>. QED  BY <3>1, <3>2, GotoTick
  <2>. QED  BY <1>1, <2>1 DEF TickOpen, AbsentIsEmpty
<1>2. CASE CheckDivergence
  <2>1. prog'["cli"] = prog["cli"] /\ prog'["tick"].alone = prog["tick"].alone
    BY <1>0, <1>2, GotoTick DEF CheckDivergence, At, ProgSet
  <2>. QED  BY <1>2, <2>1 DEF CheckDivergence, Running, AbsentIsEmpty
<1>3. CASE TickWork
  <2>1. prog'["cli"] = prog["cli"] /\ prog'["tick"].alone = prog["tick"].alone
    <3>1. \/ Goto("tick", At("tick", "finish"))
          \/ Goto("tick", [prog["tick"] EXCEPT !.at = "read", !.boxes = {}, !.next = "finish"])
          \/ \E b \in Enrolled \ store.keys :
               Goto("tick", [At("tick", "keys") EXCEPT !.boxes = {b}, !.next = "finish"])
      BY <1>3, Zenon DEF TickWork, StartExport
    <3>2. /\ At("tick", "finish").alone = prog["tick"].alone
          /\ [prog["tick"] EXCEPT !.at = "read", !.boxes = {}, !.next = "finish"].alone = prog["tick"].alone
          /\ \A b \in Enrolled :
               [At("tick", "keys") EXCEPT !.boxes = {b}, !.next = "finish"].alone = prog["tick"].alone
      BY <1>0 DEF At, ProgSet
    <3>3. PICK next : Goto("tick", next) /\ next.alone = prog["tick"].alone
      BY <3>1, <3>2, Zenon
    <3>. QED  BY <3>3, GotoTick
  <2>2. UNCHANGED <<files, backups, engine, quiet, day>> /\ prog["tick"].at = "work"
    BY <1>3, Zenon DEF TickWork
  <2>. QED  BY <2>1, <2>2 DEF AbsentIsEmpty, Running
<1>4. CASE TickFinish
  <2>1. prog'["cli"] = prog["cli"] /\ prog'["tick"] = Idle /\ ~Idle.alone
    BY <1>4, GotoTick DEF TickFinish, Idle
  <2>. QED  BY <1>4, <2>1 DEF TickFinish, Running, AbsentIsEmpty
<1>5. CASE Killed("tick")
  <2>1. prog'["cli"] = prog["cli"] /\ ~prog'["tick"].alone
    BY <1>5, GotoTick DEF Killed, Idle
  <2>. QED  BY <1>5, <2>1 DEF Killed, AbsentIsEmpty
<1>6. CASE Export("tick")
  <2>1. prog'["cli"] = prog["cli"] /\ prog'["tick"].alone = prog["tick"].alone
    <3>1. PICK next : Goto("tick", next) /\ next.alone = prog["tick"].alone
      BY <1>0, <1>6, ExportMoves
    <3>. QED  BY <3>1, GotoTick
  <2>2. Running("tick") /\ engine' = engine /\ quiet' = quiet
    BY <1>6 DEF Export, ReadRows, WriteTsv, WriteMap, WriteKeys, ResetLegacyFiles, Running
  <2>3. AbsentIsEmpty => AbsentIsEmpty'
    <3>1. ReadRows("tick") \/ WriteMap("tick") \/ WriteKeys("tick") \/ ResetLegacyFiles("tick")
            => files'.present = files.present /\ files'.tsv = files.tsv
      BY <1>0 DEF FileSet, ReadRows, WriteMap, WriteKeys, ResetLegacyFiles, Fails
    <3>2. WriteTsv("tick") => files'.present \/ files' = files
      BY <1>0 DEF FileSet, WriteTsv, Fails
    <3>. QED  BY <1>6, <3>1, <3>2 DEF Export, AbsentIsEmpty
  <2>. QED  BY <2>1, <2>2, <2>3
<1>. QED  BY <1>1, <1>2, <1>3, <1>4, <1>5, <1>6 DEF Tick

\* Rollback and Forward change the engine; the world leaves the programs alone, and
\* with anything running it touches neither the names nor the findings.
LEMMA WorldMoves ==
  ASSUME Shapes, Rollback \/ Forward \/ OldEngine \/ Damage \/ Recovered \/ MendFile \/ NextDay
  PROVE  /\ prog' = prog
         /\ AbsentIsEmpty => AbsentIsEmpty'
         /\ engine' = engine \/ engine' = "new" \/ (engine' = "5.7.1" /\ Unattended)
         /\ quiet' = FALSE \/ (quiet' = quiet /\ (engine' = engine \/ engine' = "new"))
         /\ \/ OldEngine
            \/ UNCHANGED <<store.member, store.finding, files.tsv, files.present>>
<1>1. store \in StoreSet /\ files \in FileSet
  BY DEF Shapes
<1>2. CASE OldEngine
  <2>1. PICK b \in Box :
          files' \in {[files EXCEPT !.present = TRUE, !.tsv = @ \cup {b}, !.map = @ \cup {b},
                                    !.streaks = TRUE],
                      [files EXCEPT !.present = TRUE, !.tsv = @ \ {b}, !.map = @ \ {b},
                                    !.keys = @ \ {b}]}
    BY <1>2, Zenon DEF OldEngine
  <2>2. files'.present
    BY <1>1, <2>1 DEF FileSet
  <2>3. UNCHANGED <<store, backups, engine, prog, quiet, day>>
    BY <1>2, Zenon DEF OldEngine
  <2>. QED  BY <1>2, <2>2, <2>3 DEF AbsentIsEmpty
<1>3. CASE Damage \/ Recovered
  BY <1>1, <1>3 DEF Damage, Recovered, StoreSet, AbsentIsEmpty
<1>4. CASE MendFile
  BY <1>1, <1>4 DEF MendFile, FileSet, AbsentIsEmpty
<1>5. CASE Rollback \/ Forward
  BY <1>5 DEF Rollback, Forward, AbsentIsEmpty
<1>6. CASE NextDay
  BY <1>6 DEF NextDay, AbsentIsEmpty
<1>. QED  BY <1>2, <1>3, <1>4, <1>5, <1>6

\* Every step is one of three kinds.
LEMMA StoreSteps ==
  StoreNext <=>
    \/ Tick \/ Export("tick") \/ Killed("tick")
    \/ Cli \/ Export("cli") \/ Killed("cli")
    \/ Rollback \/ Forward \/ OldEngine \/ Damage \/ Recovered \/ MendFile \/ NextDay
BY DEF StoreNext, Actors

LEMMA AttendedStep ==
  ASSUME Shapes, Attended, AbsentIsEmpty, StoreNext
  PROVE  Attended' /\ AbsentIsEmpty'
<1>. USE DEF Attended, Unattended, Running, Actors
<1>0. prog \in [Actors -> ProgSet] /\ engine \in {"new", "5.7.1"} /\ quiet \in BOOLEAN
  BY DEF Shapes
<1>1. CASE Tick \/ Export("tick") \/ Killed("tick")
  <2>1. /\ prog'["cli"] = prog["cli"] /\ engine' = engine
        /\ Running("tick") \/ (engine = "new" /\ quiet' = FALSE)
        /\ prog'["tick"].alone => prog["tick"].alone \/ ~Running("cli")
        /\ \/ quiet' = quiet \/ quiet' = FALSE
           \/ TickFinish /\ prog'["tick"] = Idle
        /\ AbsentIsEmpty'
    BY <1>1, TickMoves
  <2>2. engine = "new"
    BY <1>0, <2>1
  <2>3. TickFinish => (quiet' => prog["tick"].alone)
    BY DEF TickFinish
  <2>4. Idle.at = "idle"
    BY DEF Idle
  <2>5. quiet' => prog'["tick"].at = "idle" /\ prog'["cli"].at = "idle"
    BY <1>0, <2>1, <2>3, <2>4
  <2>. QED  BY <2>1, <2>2, <2>5
<1>2. CASE Cli \/ Export("cli") \/ Killed("cli")
  <2>1. /\ prog'["tick"] = [prog["tick"] EXCEPT !.alone = FALSE]
        /\ engine' = engine
        /\ Running("cli") \/ (engine = "new" /\ quiet' = FALSE)
        /\ quiet' = quiet \/ quiet' = FALSE
        /\ AbsentIsEmpty'
    BY <1>2, CliMoves
  <2>2. ~prog'["tick"].alone
    BY <1>0, <2>1 DEF ProgSet
  <2>3. engine = "new" /\ ~quiet'
    BY <1>0, <2>1
  <2>. QED  BY <2>1, <2>2, <2>3
<1>3. CASE Rollback \/ Forward \/ OldEngine \/ Damage \/ Recovered \/ MendFile \/ NextDay
  <2>1. /\ prog' = prog
        /\ AbsentIsEmpty'
        /\ engine' = engine \/ engine' = "new" \/ (engine' = "5.7.1" /\ Unattended)
        /\ quiet' = FALSE \/ (quiet' = quiet /\ (engine' = engine \/ engine' = "new"))
    BY <1>3, WorldMoves
  <2>. QED  BY <1>0, <2>1
<1>. QED  BY <1>1, <1>2, <1>3, StoreSteps

Noticed == \A b \in files.tsv : store.member[b] = "none" => store.finding[b] = "file-only"

LEMMA OpenKnows ==
  ASSUME Shapes, TickOpen
  PROVE  TickKnows'
<1>0. store \in StoreSet /\ files \in FileSet /\ prog["tick"] \in ProgSet
  BY DEF Shapes, Actors
<1>1. CASE Import("tick")
  <2>1. prog'["tick"].at = "reset"
    <3>1. [At("tick", "reset") EXCEPT !.boxes = files.tsv, !.alone = ~Running("cli")].at = "reset"
      BY <1>0 DEF At, ProgSet
    <3>. QED  BY <1>1, <3>1, GotoTick DEF Import
  <2>2. files' = files /\ \A b \in files.tsv : store'.member[b] = "enrolled"
    <3>1. store' = Replayed /\ files' = files /\ files.tsv \subseteq Box
      BY <1>0, <1>1 DEF Import, TickOpen, FileSet
    <3>. QED  BY <1>0, <3>1 DEF Replayed, StoreSet
  <2>. QED  BY <2>1, <2>2 DEF TickKnows
<1>2. CASE Goto("tick", [Idle EXCEPT !.at = Onward, !.alone = ~Running("cli")])
  <2>1. [Idle EXCEPT !.at = Onward, !.alone = ~Running("cli")].at \in {"idle", "diverge"}
    BY DEF Idle, Onward
  <2>2. prog'["tick"].at \in {"idle", "diverge"}
    BY <1>2, <2>1, GotoTick
  <2>. QED  BY <2>2 DEF TickKnows
<1>. QED  BY <1>1, <1>2 DEF TickOpen

\* The comparison leaves a finding for every name the file and the store disagree on.
LEMMA CheckKnows ==
  ASSUME Shapes, AbsentIsEmpty, CheckDivergence
  PROVE  TickKnows'
<1>0. store \in StoreSet /\ files \in FileSet /\ prog["tick"] \in ProgSet
  BY DEF Shapes, Actors
<1>1. prog'["tick"].at = "work" /\ files' = files
  <2>1. At("tick", "work").at = "work"
    BY <1>0 DEF At, ProgSet
  <2>. QED  BY <2>1, GotoTick DEF CheckDivergence
<1>2. CASE files.present
  <2>1. store' = [store EXCEPT !.finding = [b \in Box |-> Finding(b)]]
    BY <1>2 DEF CheckDivergence
  <2>2. store'.member = store.member /\ \A b \in Box : store'.finding[b] = Finding(b)
    BY <1>0, <2>1 DEF StoreSet
  <2>3. Enrolled' = Enrolled /\ files.tsv \subseteq Box /\ Enrolled \subseteq Box
    BY <1>0, <2>2 DEF Enrolled, FileSet
  <2>4. Agrees'
    <3>1. ASSUME \A b \in Box : Finding(b) = "none" PROVE files.tsv = Enrolled
      BY <2>3, <3>1 DEF Finding
    <3>. QED  BY <1>1, <2>2, <2>3, <3>1 DEF Agrees, NoFinding
  <2>5. Noticed'
    BY <1>1, <2>2, <2>3 DEF Noticed, Finding, Enrolled
  <2>. QED  BY <1>1, <2>4, <2>5 DEF TickKnows, Noticed
<1>3. CASE ~files.present
  BY <1>1, <1>3 DEF TickKnows, AbsentIsEmpty, Agrees
<1>. QED  BY <1>2, <1>3

\* Until it exports the tick keeps what it knows: an adoption and a mint take no name
\* out, and each goes on to an export that ends before the tick does.
LEMMA WorkKnows ==
  ASSUME Shapes, TickKnows, TickWork
  PROVE  TickKnows'
<1>0. store \in StoreSet /\ files \in FileSet /\ prog["tick"] \in ProgSet
  BY DEF Shapes, Actors
<1>1. files' = files /\ prog["tick"].at = "work"
  BY Zenon DEF TickWork
<1>2. prog["tick"].alone => (prog["tick"].failed \/ Agrees) /\ Noticed
  BY <1>1 DEF TickKnows, Noticed
<1>3. ASSUME Goto("tick", At("tick", "finish")), store' = store
      PROVE  TickKnows'
  <2>1. prog'["tick"].at = "finish" /\ prog'["tick"].alone = prog["tick"].alone
        /\ prog'["tick"].failed = prog["tick"].failed
    <3>1. At("tick", "finish").at = "finish" /\ At("tick", "finish").alone = prog["tick"].alone
          /\ At("tick", "finish").failed = prog["tick"].failed
      BY <1>0 DEF At, ProgSet
    <3>. QED  BY <1>3, <3>1, GotoTick
  <2>2. Agrees' = Agrees
    BY <1>1, <1>3 DEF Agrees, NoFinding, Enrolled
  <2>. QED  BY <1>2, <2>1, <2>2 DEF TickKnows
<1>4. ASSUME NEW b \in Box, store' = [store EXCEPT !.member[b] = "enrolled", !.pub = @ \cup {b}],
             StartExport("tick", {}, "finish")
      PROVE  TickKnows'
  <2>1. prog'["tick"].at = "read" /\ prog'["tick"].alone = prog["tick"].alone
    <3>1. [prog["tick"] EXCEPT !.at = "read", !.boxes = {}, !.next = "finish"].at = "read"
          /\ [prog["tick"] EXCEPT !.at = "read", !.boxes = {}, !.next = "finish"].alone = prog["tick"].alone
      BY <1>0 DEF ProgSet
    <3>. QED  BY <1>4, <3>1, GotoTick DEF StartExport
  <2>2. Noticed => Noticed'
    <3>1. store'.finding = store.finding /\ files.tsv \subseteq Box
          /\ \A c \in Box : store'.member[c] = "none" => store.member[c] = "none"
      BY <1>0, <1>4 DEF StoreSet, FileSet
    <3>. QED  BY <1>1, <3>1 DEF Noticed
  <2>. QED  BY <1>2, <2>1, <2>2 DEF TickKnows, Noticed
<1>5. ASSUME NEW b \in Box, store' = [store EXCEPT !.keys = @ \cup {b}],
             Goto("tick", [At("tick", "keys") EXCEPT !.boxes = {b}, !.next = "finish"])
      PROVE  TickKnows'
  <2>1. prog'["tick"].at = "keys" /\ prog'["tick"].alone = prog["tick"].alone
        /\ prog'["tick"].failed = prog["tick"].failed
    <3>. DEFINE t == [At("tick", "keys") EXCEPT !.boxes = {b}, !.next = "finish"]
    <3>1. t.at = "keys" /\ t.alone = prog["tick"].alone /\ t.failed = prog["tick"].failed
      BY <1>0 DEF At, ProgSet
    <3>. QED  BY <1>5, <3>1, GotoTick
  <2>2. Agrees' = Agrees
    <3>1. store'.member = store.member /\ store'.finding = store.finding
      BY <1>0, <1>5 DEF StoreSet
    <3>. QED  BY <1>1, <3>1 DEF Agrees, NoFinding, Enrolled
  <2>. QED  BY <1>2, <2>1, <2>2 DEF TickKnows
<1>6. \/ Goto("tick", At("tick", "finish")) /\ store' = store
      \/ \E b \in Box : /\ store' = [store EXCEPT !.member[b] = "enrolled", !.pub = @ \cup {b}]
                        /\ StartExport("tick", {}, "finish")
      \/ \E b \in Enrolled \ store.keys :
           /\ store' = [store EXCEPT !.keys = @ \cup {b}]
           /\ Goto("tick", [At("tick", "keys") EXCEPT !.boxes = {b}, !.next = "finish"])
  BY Zenon DEF TickWork
<1>7. \A b \in Enrolled \ store.keys : b \in Box
  BY DEF Enrolled
<1>. QED  BY <1>3, <1>4, <1>5, <1>6, <1>7, Zenon

\* The export: the rows read are the members, the file becomes the rows, and a failure
\* is remembered.
LEMMA ExportKnows ==
  ASSUME Shapes, TickKnows, Export("tick")
  PROVE  TickKnows'
<1>. DEFINE t == prog["tick"]
<1>0. store \in StoreSet /\ files \in FileSet /\ t \in ProgSet
  BY DEF Shapes, Actors
<1>1. store' = store
  BY DEF Export, ReadRows, WriteTsv, WriteMap, WriteKeys, ResetLegacyFiles
<1>2. Enrolled' = Enrolled /\ NoFinding' = NoFinding
  BY <1>1 DEF Enrolled, NoFinding
<1>3. \A at : /\ At("tick", at).at = at /\ At("tick", at).alone = t.alone
              /\ At("tick", at).failed = t.failed /\ At("tick", at).next = t.next
              /\ [t EXCEPT !.at = at, !.failed = TRUE].at = at
              /\ [t EXCEPT !.at = at, !.failed = TRUE].failed
  BY <1>0 DEF At, ProgSet
<1>4. ASSUME NEW at \in {"keys", "idle", "diverge", "finish"}, Fails("tick", at) PROVE TickKnows'
  <2>1. prog'["tick"].at = at /\ prog'["tick"].failed
    <3>1. prog'["tick"] = [t EXCEPT !.at = at, !.failed = TRUE]
      BY <1>4, GotoTick DEF Fails
    <3>. QED  BY <1>3, <3>1
  <2>. QED  BY <2>1 DEF TickKnows
<1>5. ASSUME ReadRows("tick") PROVE TickKnows'
  <2>. DEFINE n == [t EXCEPT !.at = "tsv", !.rows = Enrolled, !.pubs = Enrolled \cap store.pub]
  <2>1. n.at = "tsv" /\ n.rows = Enrolled /\ n.alone = t.alone
    BY <1>0 DEF ProgSet
  <2>2. prog'["tick"] = n /\ files' = files /\ t.at = "read"
    BY <1>5, GotoTick DEF ReadRows
  <2>. QED  BY <1>1, <1>2, <2>1, <2>2 DEF TickKnows
<1>6. ASSUME WriteTsv("tick") PROVE TickKnows'
  <2>1. CASE files' = [files EXCEPT !.tsv = t.rows, !.present = TRUE] /\ Goto("tick", At("tick", "map"))
    <3>1. prog'["tick"].at = "map" /\ prog'["tick"].alone = t.alone /\ files'.tsv = t.rows /\ t.at = "tsv"
      BY <1>0, <1>3, <1>6, <2>1, GotoTick DEF WriteTsv, FileSet
    <3>2. t.alone => files'.tsv = Enrolled'
      BY <1>2, <3>1 DEF TickKnows
    <3>. QED  BY <3>1, <3>2 DEF TickKnows, Agrees
  <2>. QED  BY <1>4, <1>6, <2>1 DEF WriteTsv
<1>7. ASSUME WriteMap("tick") PROVE TickKnows'
  <2>1. CASE files' = [files EXCEPT !.map = t.pubs] /\ Goto("tick", At("tick", "keys"))
    <3>1. /\ prog'["tick"].at = "keys" /\ prog'["tick"].alone = t.alone
          /\ prog'["tick"].failed = t.failed /\ prog'["tick"].next = t.next /\ t.at = "map"
      BY <1>3, <1>7, <2>1, GotoTick DEF WriteMap
    <3>2. files'.tsv = files.tsv /\ files'.present = files.present
      BY <1>0, <2>1 DEF FileSet
    <3>3. Agrees' = Agrees
      BY <1>2, <3>2 DEF Agrees
    <3>. QED  BY <3>1, <3>3 DEF TickKnows
  <2>. QED  BY <1>4, <1>7, <2>1 DEF WriteMap
<1>8. ASSUME WriteKeys("tick") PROVE TickKnows'
  <2>0. Exported("tick") = At("tick", t.next) /\ t.next \in {"idle", "diverge", "finish"} /\ t.at = "keys"
    BY <1>0, <1>8 DEF Exported, WriteKeys, ProgSet
  <2>1. CASE /\ files' = [files EXCEPT !.keys = (@ \ t.boxes) \cup (store.keys \cap t.boxes)]
             /\ Goto("tick", Exported("tick"))
    <3>1. prog'["tick"].at = t.next /\ prog'["tick"].alone = t.alone /\ prog'["tick"].failed = t.failed
      BY <1>3, <2>0, <2>1, GotoTick
    <3>2. files'.tsv = files.tsv /\ files'.present = files.present
      BY <1>0, <2>1 DEF FileSet
    <3>3. Agrees' = Agrees
      BY <1>2, <3>2 DEF Agrees
    <3>. QED  BY <2>0, <3>1, <3>3 DEF TickKnows
  <2>2. Exported("tick").at = t.next
    BY <1>3, <2>0
  <2>. QED  BY <1>4, <1>8, <2>0, <2>1, <2>2 DEF WriteKeys
<1>9. ASSUME ResetLegacyFiles("tick") PROVE TickKnows'
  <2>. DEFINE n == [t EXCEPT !.at = "read", !.boxes = t.boxes, !.next = Onward]
  <2>1. n.at = "read" /\ n.alone = t.alone
    BY <1>0 DEF ProgSet
  <2>2. prog'["tick"] = n /\ t.at = "reset" /\ files'.tsv = files.tsv
    BY <1>0, <1>9, GotoTick DEF ResetLegacyFiles, StartExport, FileSet
  <2>. QED  BY <1>1, <2>1, <2>2 DEF TickKnows
<1>. QED  BY <1>5, <1>6, <1>7, <1>8, <1>9 DEF Export

LEMMA TickKnowsStep ==
  ASSUME StoreInv, StoreNext
  PROVE  TickKnows'
<1>0. Shapes /\ Attended /\ AbsentIsEmpty /\ TickKnows /\ prog \in [Actors -> ProgSet]
  BY DEF StoreInv, Shapes
<1>1. CASE Tick
  <2>1. CASE TickFinish
    <3>1. prog'["tick"].alone = FALSE
      BY <2>1, GotoTick DEF TickFinish, Idle
    <3>. QED  BY <3>1 DEF TickKnows
  <2>. QED  BY <1>0, <1>1, <2>1, OpenKnows, CheckKnows, WorkKnows DEF Tick
<1>2. CASE Killed("tick")
  <2>1. prog'["tick"].alone = FALSE
    BY <1>2, GotoTick DEF Killed, Idle
  <2>. QED  BY <2>1 DEF TickKnows
<1>3. CASE Cli \/ Export("cli") \/ Killed("cli")
  <2>1. prog'["tick"].alone = FALSE
    BY <1>0, <1>3, CliMoves DEF Actors, ProgSet
  <2>. QED  BY <2>1 DEF TickKnows
<1>4. CASE Rollback \/ Forward \/ OldEngine \/ Damage \/ Recovered \/ MendFile \/ NextDay
  <2>1. prog' = prog
    BY <1>0, <1>4, WorldMoves
  <2>2. CASE OldEngine
    <3>1. engine = "5.7.1"
      BY <2>2, Zenon DEF OldEngine
    <3>2. prog["tick"].at = "idle"
      BY <1>0, <3>1 DEF Attended, Unattended, Running, Actors
    <3>. QED  BY <2>1, <3>2 DEF TickKnows
  <2>3. CASE UNCHANGED <<store.member, store.finding, files.tsv, files.present>>
    <3>1. Enrolled' = Enrolled /\ Agrees' = Agrees
      BY <2>3 DEF Enrolled, Agrees, NoFinding
    <3>. QED  BY <1>0, <2>1, <2>3, <3>1 DEF TickKnows
  <2>. QED  BY <1>0, <1>4, <2>2, <2>3, WorldMoves
<1>. QED  BY <1>0, <1>1, <1>2, <1>3, <1>4, ExportKnows, StoreSteps

\* A quiet tick knew that file and store agree, and whatever writes a name says so.
LEMMA QuietStep ==
  ASSUME StoreInv, StoreNext
  PROVE  QuietMeansSafe'
<1>0. Shapes /\ Attended /\ AbsentIsEmpty /\ TickKnows /\ QuietMeansSafe
  BY DEF StoreInv
<1>1. CASE TickFinish
  <2>1. quiet' => NoFinding /\ Agrees
    BY <1>0, <1>1 DEF TickFinish, NothingToReport, NothingToReportLost, NoFinding, TickKnows
  <2>2. files' = files /\ store'.member = store.member
    BY <1>0, <1>1, MaintainShape DEF TickFinish
  <2>. QED  BY <2>1, <2>2 DEF QuietMeansSafe, Agrees, Enrolled
<1>2. CASE quiet' = FALSE
  BY <1>2 DEF QuietMeansSafe
<1>3. CASE quiet' = quiet /\ ~quiet
  BY <1>3 DEF QuietMeansSafe
<1>4. ASSUME quiet, quiet' = quiet, ~TickFinish PROVE QuietMeansSafe'
  <2>1. Unattended /\ engine = "new"
    BY <1>0, <1>4 DEF Attended
  <2>2. ~(Tick \/ Export("tick") \/ Killed("tick"))
    BY <1>0, <1>4, <2>1, TickMoves DEF Unattended, Actors
  <2>3. ~(Cli \/ Export("cli") \/ Killed("cli"))
    BY <1>0, <1>4, <2>1, CliMoves DEF Unattended, Actors
  <2>4. Rollback \/ Forward \/ OldEngine \/ Damage \/ Recovered \/ MendFile \/ NextDay
    BY <2>2, <2>3, StoreSteps
  <2>5. ~OldEngine
    BY <2>1 DEF OldEngine
  <2>6. UNCHANGED <<store.member, store.finding, files.tsv, files.present>>
    BY <1>0, <2>4, <2>5, WorldMoves
  <2>. QED  BY <1>0, <1>4, <2>6 DEF QuietMeansSafe, Enrolled
<1>5. quiet' = quiet \/ quiet' = FALSE \/ TickFinish
  BY <1>0, TickMoves, CliMoves, WorldMoves, StoreSteps
<1>. QED  BY <1>1, <1>2, <1>3, <1>4, <1>5, Zenon

LEMMA StoreInvInit == StoreInit => StoreInv
<1> SUFFICES ASSUME StoreInit PROVE StoreInv
  OBVIOUS
<1>1. Attended
  BY DEF StoreInit, Attended, Unattended, Running, Actors, Idle
<1>2. AbsentIsEmpty
  BY DEF StoreInit, AbsentIsEmpty
<1>3. TickKnows
  BY DEF StoreInit, TickKnows, Idle, Actors
<1>4. QuietMeansSafe
  BY DEF StoreInit, QuietMeansSafe
<1>. QED  BY <1>1, <1>2, <1>3, <1>4, StoreInitShapes DEF StoreInv

LEMMA StoreInvStep == StoreInv /\ [StoreNext]_storeVars => StoreInv'
<1>1. ASSUME StoreInv, StoreNext PROVE StoreInv'
  BY <1>1, ShapesStep, BackupsStep, AttendedStep, TickKnowsStep, QuietStep DEF StoreInv
<1>2. ASSUME StoreInv, UNCHANGED storeVars PROVE StoreInv'
  <2>1. Attended' /\ AbsentIsEmpty' /\ TickKnows' /\ QuietMeansSafe'
    BY <1>2 DEF storeVars, StoreInv, Attended, Unattended, Running, AbsentIsEmpty, TickKnows, Agrees,
                NoFinding, QuietMeansSafe, Enrolled
  <2>. QED  BY <1>2, <2>1, ShapesStep, BackupsStep DEF StoreInv
<1>. QED  BY <1>1, <1>2

\* A tick nobody disturbed that exits 0 with no finding open leaves the file a rollback
\* reads naming exactly the store's members, until somebody writes again.
THEOREM QuietTickIsSafe == StoreSpec => []QuietMeansSafe
<1>1. StoreInv => QuietMeansSafe
  BY DEF StoreInv
<1>. QED  BY <1>1, StoreInvInit, StoreInvStep, PTL DEF StoreSpec

\* An undisturbed tick reports a name only the file has before an export of it writes
\* that name away, and a damaged database costs no backup, the tick's or the operator's.
THEOREM NothingIsLost == StoreSpec => NothingLost
<1>1. StoreInv /\ [StoreNext]_storeVars =>
        [\A b \in files.tsv \ files'.tsv :
           (prog["tick"].at = "tsv" /\ prog["tick"].alone /\ store.member[b] = "none")
             => store.finding[b] = "file-only"]_storeVars
  BY DEF StoreInv, TickKnows
<1>2. StoreInv /\ [StoreNext]_storeVars => [store.bad => backups' = backups]_storeVars
  BY OnlyMaintain DEF Maintain
<1>. QED  BY <1>1, <1>2, StoreInvInit, StoreInvStep, PTL
     DEF StoreSpec, NothingLost, TickTellsFirst, RecoveryKept
=============================================================================
