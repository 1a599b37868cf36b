--------------------------- MODULE BoxReservation ---------------------------
(***************************************************************************)
(* What a lease promises, with everything about clocks, graces, ticks and  *)
(* HTTP left out: a box has one slot; a reservation takes a free slot, and *)
(* gives it back once.  A reservation that gave its slot back is over: it  *)
(* never holds a slot again, and a slot is never handed from one holder to *)
(* another without being free in between (docs/FLEET-BRAIN.md, "Leases").  *)
(***************************************************************************)
CONSTANTS Boxes,      \* the boxes of the fleet
          LeaseIds,   \* the reservations that can ever be made
          Free        \* the slot of a box nobody holds; no lease id

VARIABLES slot,       \* slot[b]: who holds box b
          over        \* the reservations that have given their slot back

vars == <<slot, over>>

\* Reservations that are using a slot now.
Held == {slot[b] : b \in Boxes} \ {Free}

TypeOK == /\ slot \in [Boxes -> LeaseIds \cup {Free}]
          /\ over \in SUBSET LeaseIds

Init == /\ slot = [b \in Boxes |-> Free]
        /\ over = {}

Take(b, l) == /\ slot[b] = Free
              /\ l \notin over \cup Held
              /\ slot' = [slot EXCEPT ![b] = l]
              /\ UNCHANGED over

GiveBack(b) == /\ slot[b] # Free
               /\ over' = over \cup {slot[b]}
               /\ slot' = [slot EXCEPT ![b] = Free]

Next == \E b \in Boxes : \/ \E l \in LeaseIds : Take(b, l)
                         \/ GiveBack(b)

Spec == Init /\ [][Next]_vars
=============================================================================
