------------------------------- MODULE MCBox -------------------------------
(* The job runner of a box, checked in one run: its commands, guard and      *)
(* wrappers (BoxJobs), and the clock by which the guard restarts a service   *)
(* (JobRestart), which shares no state with them.                            *)
EXTENDS BoxJobs, JobRestart

VARIABLE half

BoxVars == <<half, vars, restartVars>>

InitBox == half \in {"runner", "counter"} /\ Init /\ RestartInit

NextBox ==
  /\ UNCHANGED half
  /\ \/ half = "runner" /\ Next /\ UNCHANGED restartVars
     \/ half = "counter" /\ RestartNext /\ UNCHANGED vars

\* The fairness of BoxJobs, asked of the behaviours of its half.
SpecBox == InitBox /\ [][NextBox]_BoxVars /\ (half = "runner" => Fairness)
=============================================================================
