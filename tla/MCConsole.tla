------------------------------ MODULE MCConsole ------------------------------
(* The operator's two ends of the brain, checked in one run: the terminal    *)
(* (Terminal) and the server behind it (ApiServer).  They share no state, so *)
(* a behaviour is of one of them and leaves the other where it began.        *)
EXTENDS ApiServer, Terminal

VARIABLE half

InitConsole ==
  /\ half \in {"server", "terminal"}
  /\ ApiInit /\ TermInit
  /\ half = "terminal" => ~flagged

NextConsole ==
  /\ UNCHANGED half
  /\ \/ half = "server" /\ ApiNext /\ UNCHANGED termVars
     \/ half = "terminal" /\ TermNext /\ UNCHANGED apiVars

ConsoleVars == <<half, apiVars, termVars>>

SpecConsole == InitConsole /\ [][NextConsole]_ConsoleVars
=============================================================================
