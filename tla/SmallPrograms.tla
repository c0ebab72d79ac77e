---------------------------- MODULE SmallPrograms ---------------------------
(***************************************************************************)
(* The small programs of examples/, one of which runs in each behaviour:   *)
(* each takes the steps of its module and leaves the state of the others   *)
(* alone.                                                                  *)
(***************************************************************************)
EXTENDS Progress, Copy, Children, Signals, Loops, Dhcp

Init ==
  /\ program \in Programs /\ proc = "running"
  /\ ProgressInit /\ CopyInit /\ ChildrenInit /\ SignalsInit /\ LoopsInit /\ DhcpInit

vars == <<program, proc, progressVars, copyVars, childVars, signalVars, loopVars, dhcpVars>>

\* A program waits for what may never happen, or is over.
Waits == UNCHANGED vars

Next ==
  \/ Waits
  \/ ProgressNext
     /\ UNCHANGED <<program, copyVars, childVars, signalVars, loopVars, dhcpVars>>
  \/ CopyNext
     /\ UNCHANGED <<program, progressVars, childVars, signalVars, loopVars, dhcpVars>>
  \/ ChildrenNext
     /\ UNCHANGED <<program, progressVars, copyVars, signalVars, loopVars, dhcpVars>>
  \/ SignalsNext
     /\ UNCHANGED <<program, progressVars, copyVars, childVars, loopVars, dhcpVars>>
  \/ LoopsNext
     /\ UNCHANGED <<program, progressVars, copyVars, childVars, signalVars, dhcpVars>>
  \/ DhcpNext
     /\ UNCHANGED <<program, progressVars, copyVars, childVars, signalVars, loopVars>>

Spec == Init /\ [][Next]_vars

FairSpec ==
  /\ Spec
  /\ ProgressFairness /\ CopyFairness /\ ChildrenFairness
  /\ SignalsFairness /\ LoopsFairness /\ DhcpFairness

-----------------------------------------------------------------------------
(* What is checked, besides the invariants of the modules.                  *)

\* Every program ends once what it waits for has happened, and 18-cgi is done
\* with a connection.
EveryProgramEnds ==
  /\ ProgressEnds /\ CopyEnds /\ ChildrenEnd /\ CgiClientsClosed
  /\ SignalsEnd /\ LoopsEnd /\ DhcpEnds
=============================================================================
