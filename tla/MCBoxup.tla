------------------------------- MODULE MCBoxup -------------------------------
(* boxup's two converging halves, checked in one run: the reverse tunnel         *)
(* (BoxTunnel) and the worker with its tailscaled (BoxWorker).  Their files,     *)
(* stamps and processes are apart, so a behaviour is of one of them and leaves   *)
(* the other where it began.                                                     *)
EXTENDS BoxTunnel, BoxWorker

VARIABLE half

BoxupVars == <<half, vars, workerVars>>

InitBoxup == half \in {"tunnel", "worker"} /\ Init /\ WorkerInit

NextBoxup ==
  /\ UNCHANGED half
  /\ \/ half = "tunnel" /\ Next /\ UNCHANGED workerVars
     \/ half = "worker" /\ WorkerNext /\ UNCHANGED vars

\* The fairness of BoxTunnel, asked of the behaviours of its half.
TunnelFairness ==
  /\ WF_vars(half = "tunnel" /\ Pass) /\ WF_vars(half = "tunnel" /\ Reap)
  /\ WF_vars(half = "tunnel" /\ TimePasses) /\ WF_vars(half = "tunnel" /\ Reopen)
  /\ \A p \in Pid : WF_vars(half = "tunnel" /\ (Dial(p) \/ GiveUp(p)))

\* Commands that are not stuck return, the worker's timer and its deadline fire,
\* the automation comes round, the daemon starts up, time passes and an outage of
\* the control plane ends.
WorkerFairness ==
  /\ WF_workerVars(half = "worker" /\ (Body("worker") \/ Wake \/ Deadline))
  /\ WF_workerVars(half = "worker" /\ (Body("cli") \/ Command \/ Hourly))
  /\ WF_workerVars(half = "worker" /\ IntervalPasses)
  /\ WF_workerVars(half = "worker" /\ (Settles \/ Shows))
  /\ WF_workerVars(half = "worker" /\ DoorOpens)

SpecBoxup == InitBoxup /\ [][NextBoxup]_BoxupVars /\ TunnelFairness /\ WorkerFairness

\* Whatever was killed, cut, closed, wedged, swapped, deleted or slept through,
\* the box ends up converged: one tunnel that holds its port and is named by its
\* files, and a node on the tailnet, but for the exceptions that the halves name
\* (supervise_tunnel adopts or respawns; recycle, login and repair).
BoxReturns == <>[](IF half = "tunnel" THEN Settled \/ Misled ELSE Back)
==============================================================================
