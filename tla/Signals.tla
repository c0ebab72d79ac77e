------------------------------- MODULE Signals ------------------------------
(***************************************************************************)
(* examples/16-signal: two threads with three loops wait for SIGUSR1; one  *)
(* has both its handles on one loop, the other runs a loop for each handle *)
(* in turn.  libuv (external): a signal is queued on the loop of every     *)
(* handle that is started; without one, SIGUSR1 kills the process.         *)
(***************************************************************************)
EXTENDS Naturals, Example

CONSTANT MaxSignals  \* how often the signal is sent at most

ASSUME MaxSignalsNat == MaxSignals \in Nat

Handles == {"1a", "1b", "2a", "2b"}  \* thread 1's and thread 2's sig1a and sig1b

VARIABLES
  handles,  \* [Handles -> "off", "on", "stopped"]
  queued,   \* [Handles -> Nat], signals a handle's loop has not looked at yet
  entered,  \* threads in their loop: a subset of {1, 2}
  left,     \* threads that have left it
  raised    \* how often the signal was sent

signalVars == <<handles, queued, entered, left, raised>>

SignalsInit ==
  /\ handles = [h \in Handles |-> "off"] /\ queued = [h \in Handles |-> 0]
  /\ entered = {} /\ left = {} /\ raised = 0

Own(t) == IF t = 1 THEN {"1a", "1b"} ELSE {"2a", "2b"}
First(t) == IF t = 1 THEN "1a" ELSE "2a"

\* thread1_entry, thread2_entry: one handle is started after the other.
StartHandle(t, h) ==
  /\ Runs("signal") /\ h \in Own(t) /\ handles[h] = "off"
  /\ h = First(t) \/ handles[First(t)] # "off"
  /\ handles' = [handles EXCEPT ![h] = "on"]
  /\ UNCHANGED <<proc, queued, entered, left, raised>>

EnterLoop(t) ==
  /\ Runs("signal") /\ t \notin entered /\ \A h \in Own(t) : handles[h] # "off"
  /\ entered' = entered \cup {t}
  /\ UNCHANGED <<proc, handles, queued, left, raised>>

\* The loop of h is being run: "uv_run(loop1) || uv_run(loop2)" gets to the second
\* loop only when nothing is left in the first.
LoopRuns(t, h) ==
  /\ t \in entered \ left /\ h \in Own(t)
  /\ h = "2b" => handles["2a"] = "stopped"

\* signal_cb stops the handle; a signal queued for a stopped one is dropped.
SignalCb(t, h) ==
  /\ Runs("signal") /\ LoopRuns(t, h) /\ queued[h] > 0
  /\ queued' = [queued EXCEPT ![h] = @ - 1]
  /\ handles' = [handles EXCEPT ![h] = "stopped"]
  /\ UNCHANGED <<proc, entered, left, raised>>

\* Mutant: "uv_run(loop1) && uv_run(loop2)".
LeaveLoop_And(t) ==
  /\ Runs("signal") /\ t \in entered \ left
  /\ IF t = 1 THEN \A h \in Own(t) : handles[h] = "stopped"
              ELSE \E h \in Own(t) : handles[h] = "stopped"
  /\ left' = left \cup {t}
  /\ UNCHANGED <<proc, handles, queued, entered, raised>>

\* No handle of the thread's loops is active.
LeaveLoop(t) ==
  /\ Runs("signal") /\ t \in entered \ left
  /\ \A h \in Own(t) : handles[h] = "stopped"
  /\ left' = left \cup {t}
  /\ UNCHANGED <<proc, handles, queued, entered, raised>>

\* main: both threads are joined.
Joined ==
  /\ Runs("signal") /\ left = {1, 2}
  /\ proc' = "exited"
  /\ UNCHANGED signalVars

Raise ==
  /\ Runs("signal") /\ raised < MaxSignals
  /\ raised' = raised + 1
  /\ queued' = [h \in Handles |-> queued[h] + IF handles[h] = "on" THEN 1 ELSE 0]
  /\ proc' = IF \E h \in Handles : handles[h] = "on" THEN proc ELSE "killed"
  /\ UNCHANGED <<handles, entered, left>>

SignalsLoop ==
  \/ Joined
  \/ \E t \in {1, 2} : \/ EnterLoop(t) \/ LeaveLoop(t)
                       \/ \E h \in Handles : StartHandle(t, h) \/ SignalCb(t, h)

SignalsNext == SignalsLoop \/ Raise

\* Threads run; nobody has to send a signal.
SignalsFairness == WF_<<proc, signalVars>>(SignalsLoop)

-----------------------------------------------------------------------------
(* What is checked.                                                         *)

\* "process stays alive until each handle calls back here when it received the
\* signal" (main.c:12), however signals fall between the threads' steps.
StaysUntilAllCalled ==
  program = "signal" /\ proc = "exited" => \A h \in Handles : handles[h] = "stopped"

\* One signal that finds every handle started ends the program.
SignalsEnd ==
  program = "signal" =>
    ((\A h \in Handles : handles[h] = "on" /\ queued[h] > 0) ~> ~Running)
=============================================================================
