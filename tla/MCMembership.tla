---------------------------- MODULE MCMembership ----------------------------
(* Membership, from one keypair: the box's first key is a name like the      *)
(* others, and a behaviour that begins with another is the same behaviour    *)
(* with the two exchanged.                                                   *)
EXTENDS Membership

InitMembership == Init /\ machine.key = CHOOSE k \in Keys : TRUE

SpecMembership == InitMembership /\ [][Next]_vars /\ Fairness
=============================================================================
