------------------------------ MODULE MCTick ------------------------------
(* The two halves of a tick, checked in one run: the pass over one box       *)
(* (BoxPass) and the passes over the fleet behind it (FleetPasses).  They    *)
(* share no state, so a behaviour is of one half and leaves the other alone. *)
EXTENDS BoxPass, FleetPasses

TickVars == <<vars, pvars>>

InitTick ==
  \/ Init /\ nature = (CHOOSE n \in Natures : n.broken = {} /\ n.stuck = {}) /\ AtRest(1)
  \/ focus = Null /\ Quiescent /\ PassInit

BoxHalf   == focus # Null /\ Next /\ UNCHANGED pvars
FleetHalf == focus = Null /\ PassNext /\ UNCHANGED vars

NextTick == BoxHalf \/ FleetHalf

SpecTick ==
  InitTick /\ [][NextTick]_TickVars
           /\ WF_TickVars(focus = Null /\ Brain /\ UNCHANGED vars)
           /\ WF_TickVars(focus = Null /\ Land /\ UNCHANGED vars)
=============================================================================
