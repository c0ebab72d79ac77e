------------------------- MODULE SmallProgramsProofs ------------------------
(***************************************************************************)
(* Safety of the small programs, for every value of the constants.         *)
(***************************************************************************)
EXTENDS SmallPrograms, StreamTheorems

-----------------------------------------------------------------------------
(* Every step belongs to the module of the program that runs.               *)

LEMMA ProgressOnly == ProgressNext => program = "progress"
BY DEF ProgressNext, Round, Publish, Send, Wake, WorkDone, ProgressCb, AfterWork, Return,
       OnProgress, Runs

LEMMA SignalsOnly == SignalsNext => program = "signal"
BY DEF SignalsNext, SignalsLoop, Joined, EnterLoop, LeaveLoop, StartHandle, SignalCb, Raise, Runs

LEMMA DhcpOnly == DhcpNext => program = "udp-dhcp"
BY DEF DhcpNext, DhcpLoop, DhcpMain, Sends, SendCb, Receive, DhcpReturn, ServerOffers, Runs

LEMMA ChildrenOnly == ChildrenNext => program \in Parents
BY DEF ChildrenNext, ChildrenLoop, Start, OnExit, HandleClosed, ChildrenReturn, ConnectionCb,
       ChildExits, Parent, Parents, Runs

LEMMA LoopsOnly == LoopsNext => program \in LoopPrograms
BY DEF LoopsNext, UvRun, Main, RunTimers, RunIdle, RunPrepare, RunPending, Poll, Test, Types,
       At, Runs, LoopPrograms

LEMMA CopyOnly == CopyNext => program \in Tees \cup {"uvcat"}
BY DEF CopyNext, CopyLoop, OpenFile, OpenCb, ReadCb, TeeEnds, CatOpenCb, CatReadCb, CatWriteCb,
       CatCloseCb, WriteCb, SinkTakes, SinkFails, InputGrows, Teeing, Tee, Catting, Runs

(* The steps of one module, and what all others leave alone.                 *)

LEMMA SignalsSteps ==
  ASSUME [Next]_vars
  PROVE  \/ SignalsNext /\ UNCHANGED program
         \/ UNCHANGED <<program, signalVars>> /\ (program = "signal" => UNCHANGED proc)
BY ProgressOnly, CopyOnly, ChildrenOnly, SignalsOnly, LoopsOnly, DhcpOnly DEF Next, Waits, vars, Tees, Parents, LoopPrograms

LEMMA DhcpSteps ==
  ASSUME [Next]_vars
  PROVE  \/ DhcpNext /\ UNCHANGED program
         \/ UNCHANGED <<program, dhcpVars>> /\ (program = "udp-dhcp" => UNCHANGED proc)
BY ProgressOnly, CopyOnly, ChildrenOnly, SignalsOnly, LoopsOnly, DhcpOnly DEF Next, Waits, vars, Tees, Parents, LoopPrograms

LEMMA ChildrenSteps ==
  ASSUME [Next]_vars
  PROVE  \/ ChildrenNext /\ UNCHANGED program
         \/ UNCHANGED <<program, childVars>> /\ (program \in Parents => UNCHANGED proc)
BY ProgressOnly, CopyOnly, ChildrenOnly, SignalsOnly, LoopsOnly, DhcpOnly DEF Next, Waits, vars, Tees, Parents, LoopPrograms

LEMMA LoopsSteps ==
  ASSUME [Next]_vars
  PROVE  \/ LoopsNext /\ UNCHANGED program
         \/ UNCHANGED <<program, loopVars>> /\ (program \in LoopPrograms => UNCHANGED proc)
BY ProgressOnly, CopyOnly, ChildrenOnly, SignalsOnly, LoopsOnly, DhcpOnly DEF Next, Waits, vars, Tees, Parents, LoopPrograms

LEMMA ProgressSteps ==
  ASSUME [Next]_vars
  PROVE  \/ ProgressNext /\ UNCHANGED program
         \/ UNCHANGED <<program, progressVars>> /\ (program = "progress" => UNCHANGED proc)
BY ProgressOnly, CopyOnly, ChildrenOnly, SignalsOnly, LoopsOnly, DhcpOnly DEF Next, Waits, vars, Tees, Parents, LoopPrograms

-----------------------------------------------------------------------------
(* 16-signal.                                                               *)

\* A thread leaves its loops when each of its handles has called back, and none
\* is started again.
SignalsInv ==
  program = "signal" =>
    /\ handles \in [Handles -> {"off", "on", "stopped"}]
    /\ left \subseteq {1, 2}
    /\ \A t \in left : \A h \in Own(t) : handles[h] = "stopped"
    /\ proc = "exited" => left = {1, 2}

LEMMA SignalsInductive == SignalsInv /\ [Next]_vars => SignalsInv'
<1> SUFFICES ASSUME SignalsInv, [Next]_vars
             PROVE  SignalsInv'
  OBVIOUS
<1>1. CASE SignalsNext /\ UNCHANGED program
  <2> USE <1>1 DEF SignalsInv, Runs, Running
  <2> SUFFICES ASSUME program = "signal" PROVE SignalsInv'
    OBVIOUS
  <2>1. CASE Joined
    BY <2>1 DEF Joined, signalVars
  <2>2. ASSUME NEW t \in {1, 2}, EnterLoop(t) PROVE SignalsInv'
    BY <2>2 DEF EnterLoop
  <2>3. ASSUME NEW t \in {1, 2}, LeaveLoop(t) PROVE SignalsInv'
    BY <2>3 DEF LeaveLoop
  <2>4. ASSUME NEW t \in {1, 2}, NEW h \in Handles, StartHandle(t, h) PROVE SignalsInv'
    BY <2>4 DEF StartHandle
  <2>5. ASSUME NEW t \in {1, 2}, NEW h \in Handles, SignalCb(t, h) PROVE SignalsInv'
    BY <2>5 DEF SignalCb
  <2>6. CASE Raise
    BY <2>6 DEF Raise
  <2> QED BY <2>1, <2>2, <2>3, <2>4, <2>5, <2>6 DEF SignalsNext, SignalsLoop
<1>2. CASE UNCHANGED <<program, signalVars>> /\ (program = "signal" => UNCHANGED proc)
  BY <1>2 DEF SignalsInv, signalVars
<1> QED BY <1>1, <1>2, SignalsSteps

\* 16-signal stays alive until each of its handles has received the signal, as
\* main.c:12 says, in every interleaving of its threads and signals.
THEOREM AliveUntilAllCalled == Spec => []StaysUntilAllCalled
<1>1. Init => SignalsInv
  BY DEF Init, SignalsInit, SignalsInv, Handles
<1>2. SignalsInv => StaysUntilAllCalled
  BY DEF SignalsInv, StaysUntilAllCalled, Own, Handles
<1> QED BY <1>1, <1>2, SignalsInductive, PTL DEF Spec

-----------------------------------------------------------------------------
(* 06-udp-dhcp.                                                             *)

\* The offer that is read stops the receiver, which is started once.
DhcpInv ==
  /\ recv \in {"none", "on"} => seen = 0
  /\ seen \in {0, 1}
  /\ seen = 1 => proc # "undefined"
  /\ program # "udp-dhcp" => recv = "none"

LEMMA DhcpInductive == DhcpInv /\ [Next]_vars => DhcpInv'
<1> SUFFICES ASSUME DhcpInv, [Next]_vars
             PROVE  DhcpInv'
  OBVIOUS
<1>1. CASE DhcpNext /\ UNCHANGED program
  <2> USE <1>1 DEF DhcpInv, Runs, Running
  <2>1. CASE DhcpMain
    BY <2>1 DEF DhcpMain
  <2>2. CASE Sends \/ SendCb \/ ServerOffers
    BY <2>2 DEF Sends, SendCb, ServerOffers
  <2>3. CASE Receive
    BY <2>3 DEF Receive, RecvCb, RecvFails
  <2>4. CASE DhcpReturn
    BY <2>4 DEF DhcpReturn, dhcpVars
  <2> QED BY <2>1, <2>2, <2>3, <2>4 DEF DhcpNext, DhcpLoop
<1>2. CASE UNCHANGED <<program, dhcpVars>> /\ (program = "udp-dhcp" => UNCHANGED proc)
  BY <1>2 DEF DhcpInv, dhcpVars
<1> QED BY <1>1, <1>2, DhcpSteps

\* However many offers arrive, 06-udp-dhcp reads one of them, and does not go on
\* to a read without an address.
THEOREM ReadsOneOffer == Spec => []OneOfferRead
<1>1. Init => DhcpInv
  BY DEF Init, DhcpInit, DhcpInv
<1>2. DhcpInv => OneOfferRead
  BY DEF DhcpInv, OneOfferRead
<1> QED BY <1>1, <1>2, DhcpInductive, PTL DEF Spec
-----------------------------------------------------------------------------
(* 18-cgi.                                                                  *)

\* While the handle is in use, its data is the connection of the child it stands
\* for; a child is waited for only as long as nobody else took the handle.
ChildrenInv ==
  /\ kids \in [Kids -> {"none", "running", "exited", "reaped"}]
  /\ client \in [Kids -> {"none", "open", "refused", "closed"}]
  /\ handle = "active" => kid \in Kids
  /\ program = "cgi" /\ Running /\ handle = "active" => hdata = kid
  /\ program # "cgi" => \A k \in Kids : client[k] = "none"
  /\ ClosedAfterOwnChild

LEMMA ChildrenInductive == ChildrenInv /\ [Next]_vars => ChildrenInv'
<1> SUFFICES ASSUME ChildrenInv, [Next]_vars
             PROVE  ChildrenInv'
  OBVIOUS
<1>1. CASE ChildrenNext /\ UNCHANGED program
  <2> USE <1>1 DEF ChildrenInv, ClosedAfterOwnChild, Running, Runs
  <2>0. 1 \in Kids
    BY MaxKidsNat DEF Kids
  <2>1. CASE Start
    BY <2>0, <2>1 DEF Start, UvSpawn
  <2>2. ASSUME NEW k \in Kids, ConnectionCb(k) PROVE ChildrenInv'
    <3>1. CASE client' = [client EXCEPT ![k] = "open"] /\ InvokeCgiScript(k)
      BY <2>2, <3>1 DEF ConnectionCb, InvokeCgiScript, UvSpawn
    <3>2. CASE /\ client' = [client EXCEPT ![k] = "refused"] \/ UNCHANGED client
               /\ UNCHANGED <<proc, handle, kid, hdata, kids>>
      BY <2>2, <3>2 DEF ConnectionCb
    <3> QED BY <2>2, <3>1, <3>2 DEF ConnectionCb
  <2>3. CASE OnExit
    BY <2>3 DEF OnExit, Parent
  <2>4. CASE HandleClosed
    BY <2>4 DEF HandleClosed
  <2>5. CASE ChildrenReturn
    BY <2>5 DEF ChildrenReturn, childVars
  <2>6. ASSUME NEW k \in Kids, ChildExits(k) PROVE ChildrenInv'
    BY <2>6 DEF ChildExits
  <2> QED BY <2>1, <2>2, <2>3, <2>4, <2>5, <2>6 DEF ChildrenNext, ChildrenLoop
<1>2. CASE UNCHANGED <<program, childVars>> /\ (program \in Parents => UNCHANGED proc)
  BY <1>2 DEF ChildrenInv, ClosedAfterOwnChild, childVars, Parents, Running
<1> QED BY <1>1, <1>2, ChildrenSteps

\* However connections and children of 18-cgi overlap on the one handle, none is
\* closed for the exit of another one's child.
THEOREM ClosedByItsChild == Spec => []ClosedAfterOwnChild
<1>1. Init => ChildrenInv
  BY DEF Init, ChildrenInit, ChildrenInv, ClosedAfterOwnChild
<1>2. ChildrenInv => ClosedAfterOwnChild
  BY DEF ChildrenInv
<1> QED BY <1>1, <1>2, ChildrenInductive, PTL DEF Spec

-----------------------------------------------------------------------------
(* 23-idle-compute.                                                         *)

\* Where in a round the computation of the last prompt is still to come.
ComputeInv ==
  program = "idle-compute" =>
    /\ inputs \in Nat /\ idles \in Nat /\ ~stopping
    /\ due = [t \in Timers |-> Stopped]
    /\ phase = "main" => inputs = 0 /\ idles = 0 /\ ~idler
    /\ phase \in {"timers", "idle"} => idler /\ idles = inputs
    /\ phase \in {"prepare", "pending", "poll"} => ~idler /\ idles = inputs + 1
    /\ phase = "test" => (idler /\ idles = inputs) \/ (~idler /\ stdin = "none")

LEMMA ComputeInductive == ComputeInv /\ [Next]_vars => ComputeInv'
<1> SUFFICES ASSUME ComputeInv, [Next]_vars
             PROVE  ComputeInv'
  OBVIOUS
<1>1. CASE LoopsNext /\ UNCHANGED program
  <2> USE <1>1 DEF ComputeInv, At
  <2> SUFFICES ASSUME program = "idle-compute" PROVE ComputeInv'
    OBVIOUS
  <2>1. CASE Main
    BY <2>1 DEF Main, WaitForNextInput
  <2>2. CASE RunTimers
    <3>1. Due = {}
      BY <2>2 DEF RunTimers, Due
    <3> QED BY <2>2, <3>1 DEF RunTimers
  <2>3. CASE RunIdle
    BY <2>3 DEF RunIdle, ComputeIdleCb
  <2>4. CASE RunPrepare \/ RunPending
    BY <2>4 DEF RunPrepare, RunPending
  <2>5. CASE Poll
    <3>1. ~idler /\ ~stopping /\ idles = inputs + 1 /\ phase' = "test"
      BY <2>5 DEF Poll
    <3>2. UNCHANGED <<due, idles, stopping>>
      BY <2>5 DEF Poll
    <3>3. CASE ~Alive /\ UNCHANGED <<stdin, inputs, idler>>
      BY <3>1, <3>2, <3>3 DEF Alive
    <3>4. CASE StdinFsCb /\ stdin = "done"
      BY <3>1, <3>2, <3>4 DEF StdinFsCb, WaitForNextInput
    <3>5. CASE StdinFsCb /\ stdin = "ended"
      BY <3>1, <3>2, <3>5 DEF StdinFsCb
    <3>6. ~\E u \in Timers : due[u] # Stopped
      OBVIOUS
    <3> QED BY <2>5, <3>1, <3>3, <3>4, <3>5, <3>6 DEF Poll, StdinFsCb
  <2>6. CASE Test
    BY <2>6 DEF Test, Alive, Timers
  <2>7. CASE Types
    BY <2>7 DEF Types
  <2> QED BY <2>1, <2>2, <2>3, <2>4, <2>5, <2>6, <2>7 DEF LoopsNext, UvRun
<1>2. CASE UNCHANGED <<program, loopVars>> /\ (program \in LoopPrograms => UNCHANGED proc)
  BY <1>2 DEF ComputeInv, loopVars
<1> QED BY <1>1, <1>2, LoopsSteps

\* 23-idle-compute never waits for a line without having computed for it, once.
THEOREM ComputesOncePerInput == Spec => []OneComputationPerInput
<1>1. Init => ComputeInv
  BY DEF Init, LoopsInit, ComputeInv
<1>2. ComputeInv => OneComputationPerInput
  BY DEF ComputeInv, OneComputationPerInput
<1> QED BY <1>1, <1>2, ComputeInductive, PTL DEF Spec
-----------------------------------------------------------------------------
(* 27-tty-gravity.                                                          *)

\* write_req is in use only between the tick that writes and the pending phase of
\* the same round, in which no other tick is due.
WriteInv ==
  /\ now \in Int /\ due \in [Timers -> Int]
  /\ program # "tty-gravity" => due["tick"] = Stopped
  /\ writes \in {0, 1}
  /\ phase \in {"main", "poll", "test"} => writes = 0
  /\ phase = "timers" /\ writes = 1 => due["tick"] = Stopped \/ due["tick"] > now

LEMMA WriteInductive == WriteInv /\ [Next]_vars => WriteInv'
<1> SUFFICES ASSUME WriteInv, [Next]_vars
             PROVE  WriteInv'
  OBVIOUS
<1>1. CASE LoopsNext /\ UNCHANGED program
  <2> USE <1>1 DEF WriteInv, At
  <2>1. CASE Main
    BY <2>1, LoopSizesNat DEF Main, StartJobs, StartTick, StartIdling, Timers, Stopped
  <2>2. CASE RunTimers
    <3>1. CASE Due = {}
      BY <2>2, <3>1 DEF RunTimers
    <3>2. ASSUME NEW t \in Due, UNCHANGED <<phase, now, program>>,
                 CASE t = "gc" -> Gc [] t = "fake_job" -> FakeJob [] OTHER -> TimerCb
          PROVE  WriteInv'
      <4>1. t \in Timers /\ due[t] # Stopped /\ due[t] <= now
        BY DEF Due
      <4>2. CASE t = "gc"
        BY <2>2, <3>2, <4>2 DEF Gc, Timers, Stopped
      <4>3. CASE t = "fake_job"
        BY <2>2, <3>2, <4>3 DEF FakeJob, Timers, Stopped
      <4>4. CASE t = "tick"
        <5>1. TimerCb /\ writes = 0 /\ program = "tty-gravity" /\ phase = "timers"
          BY <2>2, <3>2, <4>1, <4>4 DEF RunTimers
        <5> QED BY <3>2, <5>1 DEF TimerCb, Timers, Stopped
      <4> QED BY <4>1, <4>2, <4>3, <4>4 DEF Timers
    <3> QED BY <2>2, <3>1, <3>2 DEF RunTimers
  <2>3. CASE RunIdle \/ RunPrepare
    BY <2>3 DEF RunIdle, RunPrepare
  <2>4. CASE RunPending
    BY <2>4 DEF RunPending
  <2>5. CASE Poll
    BY <2>5 DEF Poll
  <2>6. CASE Test
    BY <2>6 DEF Test
  <2>7. CASE Types
    BY <2>7 DEF Types
  <2> QED BY <2>1, <2>2, <2>3, <2>4, <2>5, <2>6, <2>7 DEF LoopsNext, UvRun
<1>2. CASE UNCHANGED <<program, loopVars>> /\ (program \in LoopPrograms => UNCHANGED proc)
  BY <1>2 DEF WriteInv, loopVars
<1> QED BY <1>1, <1>2, LoopsSteps

\* A tick of 27-tty-gravity, in time or late, finds write_req free.
THEOREM WriteRequestIsFree == Spec => []RequestNotReused
<1>1. Init => WriteInv
  BY DEF Init, LoopsInit, WriteInv, Timers, Stopped
<1>2. WriteInv => RequestNotReused
  BY DEF WriteInv, RequestNotReused
<1> QED BY <1>1, <1>2, WriteInductive, PTL DEF Spec
-----------------------------------------------------------------------------
(* 13-progress.                                                             *)

\* A send that no sleep has passed by is one whose percentage is there to be read,
\* and what is shown is no more than what is computed or downloaded.
ProgressInv ==
  /\ downloaded \in 0..Size /\ percentage \in Nat \cup {Unset} /\ shown \in Nat \cup {Unset}
  /\ shown <= percentage /\ percentage <= downloaded
  /\ work \in {"published", "asleep"} => data = "percentage"
  /\ pending /\ ~late => work \in {"published", "asleep"}
  /\ DataIsReadable

LEMMA ProgressInductive == ProgressInv /\ [Next]_vars => ProgressInv'
<1> SUFFICES ASSUME ProgressInv, [Next]_vars
             PROVE  ProgressInv'
  OBVIOUS
<1>1. CASE ProgressNext /\ UNCHANGED program
  <2> USE <1>1, SizeNat, StepsNat DEF ProgressInv, DataIsReadable, OnProgress, Runs, Running, Unset
  <2>1. CASE Round
    BY <2>1 DEF Round
  <2>2. CASE Publish
    BY <2>2 DEF Publish
  <2>3. CASE Send
    BY <2>3 DEF Send
  <2>4. CASE Wake
    <3>1. PICK n \in Steps :
            downloaded' = IF downloaded + n > Size THEN Size ELSE downloaded + n
      BY <2>4 DEF Wake
    <3>2. downloaded' \in 0..Size /\ percentage <= downloaded'
      BY <3>1
    <3>3. pending' => late'
      BY <2>4 DEF Wake
    <3> QED BY <2>4, <3>2, <3>3 DEF Wake
  <2>5. CASE WorkDone
    BY <2>5 DEF WorkDone
  <2>6. CASE ProgressCb
    BY <2>6 DEF ProgressCb, Readable
  <2>7. CASE AfterWork
    BY <2>7 DEF AfterWork
  <2>8. CASE Return
    BY <2>8 DEF Return
  <2> QED BY <2>1, <2>2, <2>3, <2>4, <2>5, <2>6, <2>7, <2>8 DEF ProgressNext
<1>2. CASE UNCHANGED <<program, progressVars>> /\ (program = "progress" => UNCHANGED proc)
  BY <1>2 DEF ProgressInv, DataIsReadable, progressVars
<1> QED BY <1>1, <1>2, ProgressSteps

LEMMA ProgressInitially == Init => ProgressInv
BY SizeNat DEF Init, ProgressInit, ProgressInv, DataIsReadable, Unset

\* For any size and any pieces of it, 13-progress reads through async.data only
\* what a round has put there, unless the loop was a whole sleep late.
THEOREM PercentageIsThere == Spec => []DataIsReadable
<1>1. ProgressInv => DataIsReadable
  BY DEF ProgressInv
<1> QED BY <1>1, ProgressInitially, ProgressInductive, PTL DEF Spec

\* The percentages that 13-progress prints never go back.
THEOREM PercentagesGrow == Spec => NeverRegresses
<1>1. ProgressInv /\ [Next]_vars => [shown' >= shown]_progressVars
  <2> SUFFICES ASSUME ProgressInv, [Next]_vars PROVE shown' >= shown \/ UNCHANGED progressVars
    OBVIOUS
  <2>1. CASE ProgressNext
    <3>1. shown' \in {shown, percentage}
      BY <2>1 DEF ProgressNext, Round, Publish, Send, Wake, WorkDone, ProgressCb, AfterWork, Return
    <3> QED BY <3>1 DEF ProgressInv, Unset
  <2>2. CASE UNCHANGED progressVars
    BY <2>2
  <2> QED BY <2>1, <2>2, ProgressSteps
<1> QED BY <1>1, ProgressInitially, ProgressInductive, PTL DEF Spec, NeverRegresses

-----------------------------------------------------------------------------
(* 03-uvtee, its variants and 02-uvcat.                                     *)

Copiers == Tees \cup {"uvcat"}

\* Only the assertion of write_cb ends a program that way.
LEMMA OnlyWritesFail ==
  ASSUME [Next]_vars, ~CopyNext, proc' = "write_failed"
  PROVE  proc = "write_failed"
<1>1. CASE ProgressNext
  BY <1>1 DEF ProgressNext, Round, Publish, Send, Wake, WorkDone, ProgressCb, AfterWork, Return
<1>2. CASE ChildrenNext
  BY <1>2 DEF ChildrenNext, ChildrenLoop, Start, OnExit, HandleClosed, ChildrenReturn, ConnectionCb,
              ChildExits, UvSpawn, InvokeCgiScript
<1>3. CASE SignalsNext
  BY <1>3 DEF SignalsNext, SignalsLoop, Joined, EnterLoop, LeaveLoop, StartHandle, SignalCb, Raise
<1>4. CASE LoopsNext
  BY <1>4 DEF LoopsNext, UvRun, Main, RunTimers, RunIdle, RunPrepare, RunPending, Poll, Test, Types,
              Gc, FakeJob, TimerCb, StdinFsCb
<1>5. CASE DhcpNext
  BY <1>5 DEF DhcpNext, DhcpLoop, DhcpMain, Sends, SendCb, RecvCb, RecvFails, Receive, DhcpReturn, ServerOffers
<1> QED BY <1>1, <1>2, <1>3, <1>4, <1>5 DEF Next, Waits, vars

LEMMA CopySteps ==
  ASSUME [Next]_vars
  PROVE  \/ CopyNext /\ UNCHANGED program
         \/ /\ UNCHANGED <<program, copyVars>> /\ (program \in Copiers => UNCHANGED proc)
            /\ proc' = "write_failed" => proc = "write_failed"
<1>1. CASE CopyNext
  BY <1>1, ProgressOnly, CopyOnly, ChildrenOnly, SignalsOnly, LoopsOnly, DhcpOnly DEF Next, Waits, vars, Tees, Parents, LoopPrograms
<1>2. CASE ~CopyNext
  <2>1. UNCHANGED <<program, copyVars>> /\ (program \in Copiers => UNCHANGED proc)
    BY <1>2, ProgressOnly, ChildrenOnly, SignalsOnly, LoopsOnly, DhcpOnly DEF Next, Waits, vars, Copiers, Tees, Parents, LoopPrograms
  <2> QED BY <1>2, <2>1, OnlyWritesFail
<1> QED BY <1>1, <1>2

\* All that is queued or due on a stream is well.
Clean(s) == \A k \in DOMAIN calls[s] : calls[s][k] = "0"
Copied == IF program = "uvcat" THEN {"stdout"} ELSE Open

CopyTypes == Streams(Sinks) /\ taken \in Nat

\* Nothing is read or written before the files are open; all is read at the end.
NothingYet ==
  stage = "opening" =>
    taken = 0 /\ \A s \in Sinks : outq[s] = << >> /\ calls[s] = << >> /\ got[s] = << >>
ClosesAtEnd == stage = "closing" => AtEnd

\* 02-uvcat has one buffer, in use while it is written.
OneAtATime ==
  program = "uvcat" => IF stage = "writing" THEN Len(outq["stdout"]) = 1 ELSE outq["stdout"] = << >>

InOrder ==
  program \in Copiers =>
    \A s \in Copied : Clean(s) /\ (program = "uvcat" => ~lossy) => Written(s) = [k \in 1..taken |-> k]

\* Nothing is written that was not read, and a write is cancelled only on a sink
\* that is behind, when all has been read.
NeverAhead == \A s \in Sinks : Len(Written(s)) <= taken
CancelledBehind ==
  \A s \in Sinks : \A k \in DOMAIN calls[s] :
    calls[s][k] = "UV_ECANCELED" => stage = "closing" /\ outq[s] = << >> /\ Len(got[s]) < taken

CopyInv ==
  /\ CopyTypes /\ NothingYet /\ ClosesAtEnd /\ OneAtATime
  /\ InOrder /\ NeverAhead /\ CancelledBehind /\ StopsOnlyBehind

\* A stage before any byte: the stream is empty, as it should be.
LEMMA OpeningIsEmpty ==
  ASSUME CopyInv, stage = "opening"
  PROVE  \A s \in Sinks : Written(s) = [k \in 1..taken |-> k] /\ calls[s] = << >>
<1>1. taken = 0 /\ \A s \in Sinks : outq[s] = << >> /\ calls[s] = << >> /\ got[s] = << >>
  BY DEF CopyInv, NothingYet
<1>2. FlattenSeq(<< >>) = << >> /\ << >> \o << >> = << >> /\ << >> = [k \in 1..0 |-> k]
  <2>1. FlattenSeq(<< >>) = << >>
    BY FlattenOne
  <2> QED BY <2>1
<1> QED BY <1>1, <1>2 DEF Written

LEMMA NextIsPiece ==
  ASSUME taken \in Nat, NEW n \in 1..CopyBufSize
  PROVE  /\ NextBytes(n) \in Piece /\ Len(NextBytes(n)) = n
         /\ [k \in 1..taken |-> k] \o NextBytes(n) = [k \in 1..(taken + n) |-> k]
<1>1. n \in Nat \ {0}
  BY CopySizesNat
<1>2. NextBytes(n) \in Seq(Nat) /\ Len(NextBytes(n)) = n
  <2>1. \A k \in 1..n : taken + k \in Nat
    OBVIOUS
  <2> QED BY <1>1, <2>1 DEF NextBytes
<1>3. NextBytes(n) # << >>
  BY <1>1, <1>2
<1>4. [k \in 1..taken |-> k] \o NextBytes(n) = [k \in 1..(taken + n) |-> k]
  BY <1>1, CountGrows DEF NextBytes
<1> QED BY <1>2, <1>3, <1>4 DEF Piece, Bytes

\* A read of n bytes, written to the sinks in S.
LEMMA ReadKeeps ==
  ASSUME CopyInv, program \in Copiers, NEW n \in 1..CopyBufSize, taken' = taken + n,
         UvWrite(Copied, NextBytes(n)), stage \notin {"opening", "closing"},
         UNCHANGED <<program, lossy>>
  PROVE  CopyTypes' /\ InOrder' /\ NeverAhead' /\ CancelledBehind'
<1>1. CopyTypes /\ InOrder /\ NeverAhead /\ CancelledBehind
  BY DEF CopyInv
<1>2. /\ NextBytes(n) \in Piece /\ Len(NextBytes(n)) = n
      /\ [k \in 1..taken |-> k] \o NextBytes(n) = [k \in 1..(taken + n) |-> k]
  BY <1>1, NextIsPiece DEF CopyTypes
<1>3. /\ Streams(Sinks)' /\ UNCHANGED <<calls, got>>
      /\ \A s \in Sinks : (Written(s))' = IF s \in Copied THEN Written(s) \o NextBytes(n) ELSE Written(s)
  BY <1>1, <1>2, WriteAdds DEF CopyTypes
<1>4. Copied' = Copied /\ Copied \subseteq Sinks /\ taken \in Nat /\ n \in Nat
  BY <1>1, CopySizesNat DEF Copied, Open, Sinks, CopyTypes
<1>5. CopyTypes'
  BY <1>3, <1>4 DEF CopyTypes
<1>6. InOrder'
  <2> SUFFICES ASSUME NEW s \in Copied, Clean(s), program = "uvcat" => ~lossy
               PROVE  (Written(s))' = [k \in 1..(taken + n) |-> k]
    BY <1>3, <1>4 DEF InOrder, Clean
  <2>1. Written(s) = [k \in 1..taken |-> k]
    BY <1>1 DEF InOrder
  <2> QED BY <1>2, <1>3, <1>4, <2>1
<1>7. NeverAhead'
  <2> SUFFICES ASSUME NEW s \in Sinks
               PROVE  Len((Written(s))') <= taken + n
    BY DEF NeverAhead
  <2>1. Written(s) \in Seq(Nat) /\ Len(Written(s)) <= taken /\ NextBytes(n) \in Seq(Nat)
    BY <1>1, <1>2, WrittenType DEF CopyTypes, NeverAhead, Piece, Bytes
  <2>2. /\ Len(Written(s) \o NextBytes(n)) = Len(Written(s)) + n
        /\ Len(Written(s)) \in Nat
    BY <1>2, <2>1, Lengths, Zenon
  <2>3. \A i \in Nat : i <= taken => i + n <= taken + n /\ i <= taken + n
    BY <1>4
  <2> QED BY <1>3, <2>1, <2>2, <2>3
<1>8. CancelledBehind'
  BY <1>1, <1>3 DEF CancelledBehind
<1> QED BY <1>5, <1>6, <1>7, <1>8

\* The end of the input: what still waits is cancelled.
LEMMA EofKeeps ==
  ASSUME CopyInv, AtEnd, UvClose(Sinks), stage' = "closing", UNCHANGED <<program, taken, lossy>>
  PROVE  CopyTypes' /\ InOrder' /\ NeverAhead' /\ CancelledBehind'
<1>1. CopyTypes /\ InOrder /\ NeverAhead /\ CancelledBehind
  BY DEF CopyInv
<1>2. /\ Streams(Sinks)' /\ UNCHANGED got
      /\ \A s \in Sinks : outq'[s] = << >> /\ (Written(s))' = got[s]
      /\ \A s \in Sinks : outq[s] = << >> =>
           outq'[s] = outq[s] /\ calls'[s] = calls[s] /\ (Written(s))' = Written(s)
      /\ \A s \in Sinks : \A k \in DOMAIN calls'[s] :
           \/ k \in DOMAIN calls[s] /\ calls'[s][k] = calls[s][k]
           \/ calls'[s][k] = "UV_ECANCELED" /\ outq[s] # << >>
      /\ \A s \in Sinks : outq[s] # << >> =>
           \E k \in DOMAIN calls'[s] : calls'[s][k] = "UV_ECANCELED"
  <2>1. Sinks \cap Sinks = Sinks
    OBVIOUS
  <2>2. /\ Streams(Sinks)' /\ UNCHANGED got
        /\ \A s \in Sinks \cap Sinks : outq'[s] = << >> /\ (Written(s))' = got[s]
        /\ \A s \in Sinks : s \notin Sinks \/ outq[s] = << >> =>
             outq'[s] = outq[s] /\ calls'[s] = calls[s] /\ (Written(s))' = Written(s)
        /\ \A s \in Sinks \cap Sinks : \A k \in DOMAIN calls'[s] :
             \/ k \in DOMAIN calls[s] /\ calls'[s][k] = calls[s][k]
             \/ calls'[s][k] = "UV_ECANCELED" /\ outq[s] # << >>
        /\ \A s \in Sinks \cap Sinks : outq[s] # << >> =>
             \E k \in DOMAIN calls'[s] : calls'[s][k] = "UV_ECANCELED"
    BY <1>1, CloseCancels DEF CopyTypes
  <2> QED BY <2>1, <2>2
<1>3. Copied' = Copied /\ Copied \subseteq Sinks /\ taken \in Nat
  BY <1>1 DEF Copied, Open, Sinks, CopyTypes
<1>4. CopyTypes'
  BY <1>2, <1>3 DEF CopyTypes
<1>5. InOrder'
  <2> SUFFICES ASSUME NEW s \in Copied, program \in Copiers, (Clean(s))', program = "uvcat" => ~lossy
               PROVE  (Written(s))' = [k \in 1..taken |-> k]
    BY <1>3 DEF InOrder
  <2>1. s \in Sinks /\ "UV_ECANCELED" # "0"
    BY <1>3
  <2>2. outq[s] = << >>
    BY <1>2, <2>1 DEF Clean
  <2>3. Clean(s) /\ (Written(s))' = Written(s)
    BY <1>2, <2>1, <2>2 DEF Clean
  <2> QED BY <1>1, <2>3 DEF InOrder
<1>6. \A s \in Sinks : got[s] \in Seq(Nat) /\ Len(got[s]) <= Len(Written(s)) /\ Len(Written(s)) \in Nat
  <2> TAKE s \in Sinks
  <2>1. /\ got[s] \in Seq(Nat) /\ FlattenSeq(outq[s]) \in Seq(Nat) /\ Written(s) \in Seq(Nat)
        /\ Len(Written(s)) = Len(got[s]) + Len(FlattenSeq(outq[s]))
    BY <1>1, WrittenType DEF CopyTypes
  <2>2. \A i, j \in Nat : i <= i + j
    OBVIOUS
  <2>3. Len(got[s]) \in Nat /\ Len(FlattenSeq(outq[s])) \in Nat /\ Len(Written(s)) \in Nat
    BY <2>1, Lengths, Zenon
  <2> QED BY <2>1, <2>2, <2>3
<1>7. NeverAhead'
  <2> SUFFICES ASSUME NEW s \in Sinks PROVE Len((Written(s))') <= taken
    BY DEF NeverAhead
  <2>1. (Written(s))' = got[s] /\ Len(Written(s)) <= taken /\ Len(got[s]) \in Nat
    BY <1>1, <1>2, <1>6 DEF NeverAhead
  <2>2. \A i, j \in Nat : i <= j /\ j <= taken => i <= taken
    BY <1>3
  <2> QED BY <1>6, <2>1, <2>2
<1>8. CancelledBehind'
  <2> SUFFICES ASSUME NEW s \in Sinks, NEW k \in DOMAIN calls'[s], calls'[s][k] = "UV_ECANCELED"
               PROVE  outq'[s] = << >> /\ Len(got'[s]) < taken
    BY DEF CancelledBehind
  <2>1. CASE outq[s] # << >>
    <3>1. Len(got[s]) < Len(Written(s)) /\ Len(Written(s)) <= taken
      BY <1>1, <2>1, QueuedIsBehind DEF CopyTypes, NeverAhead
    <3>2. Len(got[s]) \in Nat /\ Len(Written(s)) \in Nat
      BY <1>6
    <3>3. \A i, j \in Nat : i < j /\ j <= taken => i < taken
      BY <1>3
    <3> QED BY <1>2, <3>1, <3>2, <3>3
  <2>2. CASE outq[s] = << >>
    BY <1>1, <1>2, <2>2 DEF CancelledBehind
  <2> QED BY <2>1, <2>2
<1> QED BY <1>4, <1>5, <1>7, <1>8

LengthsOfSinks == \A s \in Sinks : Len(Written(s)) \in Nat
LEMMA SinksHaveLengths == Streams(Sinks) => LengthsOfSinks
<1> SUFFICES ASSUME Streams(Sinks), NEW s \in Sinks PROVE Len(Written(s)) \in Nat
  BY DEF LengthsOfSinks
<1>1. Written(s) \in Seq(Nat)
  BY WrittenType
<1> QED BY <1>1

\* A sink takes bytes, or refuses the oldest request.
LEMMA SinkKeeps ==
  ASSUME CopyInv, NEW c \in Sinks, Taken(c) \/ Refused(c), UNCHANGED <<program, taken, stage, lossy>>
  PROVE  CopyTypes' /\ InOrder' /\ NeverAhead' /\ CancelledBehind' /\ outq[c] # << >>
<1>1. CopyTypes /\ InOrder /\ NeverAhead /\ CancelledBehind /\ Streams(Sinks)
  BY DEF CopyInv, CopyTypes
<1>2. Copied' = Copied /\ Copied \subseteq Sinks /\ calls[c] \in Seq(Codes)
      /\ "0" \in Codes /\ "UV_EPIPE" \in Codes
  BY <1>1 DEF Copied, Open, Sinks, Streams, Codes
<1>3. /\ Streams(Sinks)' /\ outq[c] # << >>
      /\ \A s \in Sinks \ {c} : /\ outq'[s] = outq[s] /\ calls'[s] = calls[s] /\ got'[s] = got[s]
                               /\ (Written(s))' = Written(s)
      /\ \/ (Written(c))' = Written(c) /\ calls'[c] \in {calls[c], Append(calls[c], "0")}
         \/ Len((Written(c))') <= Len(Written(c)) /\ calls'[c] = Append(calls[c], "UV_EPIPE")
  <2>1. CASE Taken(c)
    BY <1>1, <2>1, TakenKeeps
  <2>2. CASE Refused(c)
    BY <1>1, <2>2, RefusedDrops
  <2> QED BY <2>1, <2>2
<1>4. /\ \A k \in DOMAIN calls[c] : calls[c][k] # "UV_ECANCELED"
      /\ \A k \in DOMAIN calls'[c] : calls'[c][k] # "UV_ECANCELED"
      /\ (Clean(c))' => Clean(c) /\ (Written(c))' = Written(c)
  <2>1. \A k \in DOMAIN calls[c] : calls[c][k] # "UV_ECANCELED"
    BY <1>1, <1>3 DEF CancelledBehind
  <2>2. ASSUME NEW e \in {"0", "UV_EPIPE"}
        PROVE  /\ DOMAIN Append(calls[c], e) = DOMAIN calls[c] \cup {Len(calls[c]) + 1}
               /\ Append(calls[c], e)[Len(calls[c]) + 1] = e
               /\ \A k \in DOMAIN calls[c] : Append(calls[c], e)[k] = calls[c][k]
    BY <1>2, <2>2, OneMoreCall
  <2>3. "UV_EPIPE" # "0" /\ "UV_EPIPE" # "UV_ECANCELED" /\ "0" # "UV_ECANCELED"
    OBVIOUS
  <2>4. CASE calls'[c] = calls[c] /\ (Written(c))' = Written(c)
    BY <2>1, <2>4 DEF Clean
  <2>5. CASE calls'[c] = Append(calls[c], "0") /\ (Written(c))' = Written(c)
    BY <2>1, <2>2, <2>3, <2>5 DEF Clean
  <2>6. CASE calls'[c] = Append(calls[c], "UV_EPIPE")
    BY <2>1, <2>2, <2>3, <2>6 DEF Clean
  <2> QED BY <1>3, <2>4, <2>5, <2>6
<1>5. CopyTypes'
  BY <1>1, <1>3 DEF CopyTypes
<1>6. InOrder'
  <2> SUFFICES ASSUME NEW s \in Copied, program \in Copiers, (Clean(s))', program = "uvcat" => ~lossy
               PROVE  (Written(s))' = [k \in 1..taken |-> k]
    BY <1>2 DEF InOrder
  <2>1. Clean(s) /\ (Written(s))' = Written(s)
    <3>1. CASE s = c
      BY <1>4, <3>1
    <3>2. CASE s # c
      BY <1>2, <1>3, <3>2 DEF Clean
    <3> QED BY <3>1, <3>2
  <2> QED BY <1>1, <2>1 DEF InOrder
<1>7. NeverAhead'
  <2> SUFFICES ASSUME NEW s \in Sinks PROVE Len((Written(s))') <= taken
    BY DEF NeverAhead
  <2>1. CASE s # c \/ (Written(c))' = Written(c)
    BY <1>1, <1>3, <2>1 DEF NeverAhead
  <2>2. CASE s = c /\ Len((Written(c))') <= Len(Written(c))
    <3>2. Len(Written(c)) \in Nat /\ Len((Written(c))') \in Nat
      <4>1. (Streams(Sinks))' => LengthsOfSinks'
        BY SinksHaveLengths, PTL
      <4> QED BY <1>1, <1>3, <4>1, SinksHaveLengths DEF LengthsOfSinks
    <3>3. \A i, j \in Nat : i <= j /\ j <= taken => i <= taken
      BY <1>1 DEF CopyTypes
    <3> QED BY <1>1, <2>2, <3>2, <3>3 DEF NeverAhead
  <2> QED BY <1>3, <2>1, <2>2
<1>8. CancelledBehind'
  <2> SUFFICES ASSUME NEW s \in Sinks, NEW k \in DOMAIN calls'[s], calls'[s][k] = "UV_ECANCELED"
               PROVE  stage = "closing" /\ outq'[s] = << >> /\ Len(got'[s]) < taken
    BY DEF CancelledBehind
  <2>1. s # c
    BY <1>4
  <2> QED BY <1>1, <1>3, <2>1 DEF CancelledBehind
<1> QED BY <1>3, <1>5, <1>6, <1>7, <1>8

\* A callback is made.
LEMMA CallbackKeeps ==
  ASSUME CopyInv, NEW c \in Sinks, calls[c] # << >>, Head(calls[c]) = "0", CalledBack(c),
         UNCHANGED <<program, taken, stage, lossy>>
  PROVE  CopyTypes' /\ InOrder' /\ NeverAhead' /\ CancelledBehind'
<1>1. CopyTypes /\ InOrder /\ NeverAhead /\ CancelledBehind /\ Streams(Sinks)
  BY DEF CopyInv, CopyTypes
<1>2. Copied' = Copied /\ Copied \subseteq Sinks
  BY DEF Copied, Open, Sinks
<1>3. /\ Streams(Sinks)' /\ UNCHANGED <<outq, got>>
      /\ \A s \in Sinks : (Written(s))' = Written(s)
      /\ \A s \in Sinks \ {c} : calls'[s] = calls[s]
      /\ \A k \in DOMAIN calls'[c] : k + 1 \in DOMAIN calls[c] /\ calls'[c][k] = calls[c][k + 1]
      /\ \A k \in DOMAIN calls[c] : k # 1 => k - 1 \in DOMAIN calls'[c] /\ calls'[c][k - 1] = calls[c][k]
      /\ Head(calls[c]) = calls[c][1] /\ 1 \in DOMAIN calls[c]
  BY <1>1, CalledBackDrops
<1>4. \A s \in Sinks : (Clean(s))' => Clean(s)
  <2> SUFFICES ASSUME NEW s \in Sinks, (Clean(s))', NEW k \in DOMAIN calls[s] PROVE calls[s][k] = "0"
    BY DEF Clean
  <2>1. CASE s # c
    BY <1>3, <2>1 DEF Clean
  <2>2. CASE s = c /\ k = 1
    BY <1>3, <2>2
  <2>3. CASE s = c /\ k # 1
    BY <1>3, <2>3 DEF Clean
  <2> QED BY <2>1, <2>2, <2>3
<1>5. InOrder'
  <2> SUFFICES ASSUME NEW s \in Copied, program \in Copiers, (Clean(s))', program = "uvcat" => ~lossy
               PROVE  (Written(s))' = [k \in 1..taken |-> k]
    BY <1>2 DEF InOrder
  <2>1. Clean(s) /\ (Written(s))' = Written(s)
    BY <1>2, <1>3, <1>4
  <2> QED BY <1>1, <2>1 DEF InOrder
<1>6. CopyTypes' /\ NeverAhead'
  BY <1>1, <1>3 DEF CopyTypes, NeverAhead
<1>7. CancelledBehind'
  <2> SUFFICES ASSUME NEW s \in Sinks, NEW k \in DOMAIN calls'[s], calls'[s][k] = "UV_ECANCELED"
               PROVE  stage = "closing" /\ outq[s] = << >> /\ Len(got[s]) < taken
    BY <1>3 DEF CancelledBehind
  <2>1. \E j \in DOMAIN calls[s] : calls[s][j] = "UV_ECANCELED"
    BY <1>3
  <2> QED BY <1>1, <2>1 DEF CancelledBehind
<1> QED BY <1>5, <1>6, <1>7

\* 02-uvcat has written its buffer, or part of it.
LEMMA CatWriteKeeps ==
  ASSUME CopyInv, Catting("writing"), CatWriteCb, ~("sink" \in Faults /\ proc' = "aborted"),
         UNCHANGED program
  PROVE  /\ CopyTypes' /\ InOrder' /\ NeverAhead' /\ CancelledBehind'
         /\ outq'["stdout"] = << >> /\ stage' = "reading" /\ UNCHANGED <<proc, calls, taken>>
<1> DEFINE x == Head(outq["stdout"])
<1>1. /\ CopyTypes /\ InOrder /\ NeverAhead /\ CancelledBehind /\ Streams(Sinks)
      /\ program = "uvcat" /\ Len(outq["stdout"]) = 1 /\ "stdout" \in Sinks
  BY DEF CopyInv, CopyTypes, Catting, Runs, OneAtATime, Sinks
<1>2. PICK n \in 1..Len(x) :
        /\ got' = [got EXCEPT !["stdout"] = @ \o SubSeq(x, 1, n)]
        /\ outq' = [outq EXCEPT !["stdout"] = << >>]
        /\ lossy' = (lossy \/ n < Len(x))
        /\ stage' = "reading" /\ UNCHANGED <<proc, calls, taken>>
  BY DEF CatWriteCb
<1>3. /\ outq["stdout"] \in Seq(Piece) /\ got["stdout"] \in Seq(Nat)
      /\ x \in Seq(Nat) /\ x = outq["stdout"][1] /\ outq["stdout"] = <<x>>
  <2>1. outq["stdout"] \in Seq(Piece) /\ outq["stdout"] # << >> /\ got["stdout"] \in Seq(Nat)
    BY <1>1 DEF Streams, Bytes
  <2>2. x \in Piece /\ x = outq["stdout"][1]
    BY <2>1, HeadTailProperties
  <2>3. outq["stdout"] = <<x>>
    BY <1>1, <2>1, <2>2
  <2> HIDE DEF x
  <2> QED BY <2>1, <2>2, <2>3 DEF Piece, Bytes
<1>4. Written("stdout") = got["stdout"] \o x
  BY <1>3, FlattenOne DEF Written
<1> DEFINE y == SubSeq(x, 1, n)
<1>5. y \in Seq(Nat) /\ Len(y) = n /\ (n = Len(x) => y = x) /\ n \in Nat /\ Len(x) \in Nat /\ n <= Len(x)
  <2> HIDE DEF x
  <2>1. n \in Nat /\ Len(x) \in Nat /\ n <= Len(x)
    BY <1>3
  <2>2. \A i \in 1..Len(x) : x[i] \in Nat
    BY <1>3
  <2>3. y \in Seq(Nat) /\ Len(y) = n /\ \A i \in 1..n : y[i] = x[i]
    BY <1>3, <2>1, <2>2
  <2> HIDE DEF y
  <2>4. n = Len(x) => y = x
    BY <1>3, <2>3, SeqEqual
  <2> QED BY <2>1, <2>3, <2>4
<1> HIDE DEF x, y
<1>6. /\ got'["stdout"] = got["stdout"] \o y /\ outq'["stdout"] = << >>
      /\ \A s \in Sinks \ {"stdout"} : got'[s] = got[s] /\ outq'[s] = outq[s]
  BY <1>1, <1>2 DEF Streams, y
<1>7. got["stdout"] \o y \in Seq(Nat) /\ << >> \in Seq(Piece)
  BY <1>3, <1>5
<1>8. CopyTypes'
  BY <1>1, <1>2, <1>7 DEF CopyTypes, Streams, Bytes, y
<1>9. (Written("stdout"))' = got["stdout"] \o y
  <2>1. (got["stdout"] \o y) \o FlattenSeq(<< >>) = got["stdout"] \o y
    BY <1>7, FlattenNone, Zenon
  <2> QED BY <1>6, <2>1 DEF Written
<1>10. \A s \in Sinks \ {"stdout"} : (Written(s))' = Written(s)
  BY <1>6 DEF Written
<1>11. NeverAhead'
  <2>1. Len(got["stdout"] \o y) <= taken
    <3>1. /\ Len(got["stdout"] \o y) = Len(got["stdout"]) + n
          /\ Len(got["stdout"] \o x) = Len(got["stdout"]) + Len(x) /\ Len(got["stdout"]) \in Nat
      BY <1>3, <1>5, Lengths, Zenon
    <3>2. Len(got["stdout"] \o x) <= taken
      BY <1>1, <1>4 DEF NeverAhead
    <3>3. taken \in Nat
      BY <1>1 DEF CopyTypes
    <3>4. \A i, j, k \in Nat : k <= j /\ i + j <= taken => i + k <= taken
      BY <3>3
    <3> QED BY <1>5, <3>1, <3>2, <3>4
  <2> QED BY <1>1, <1>2, <1>9, <1>10, <2>1 DEF NeverAhead
<1>12. InOrder'
  <2> SUFFICES ASSUME (Clean("stdout"))', ~lossy' PROVE (Written("stdout"))' = [k \in 1..taken |-> k]
    BY <1>1, <1>2 DEF InOrder, Copied
  <2>1. ~lossy /\ y = x
    <3>1. ~lossy /\ ~(n < Len(x))
      BY <1>2, Zenon
    <3>2. n = Len(x)
      BY <1>5, <3>1
    <3> QED BY <1>5, <3>1, <3>2
  <2>2. Clean("stdout")
    BY <1>2 DEF Clean
  <2>3. Written("stdout") = [k \in 1..taken |-> k]
    BY <1>1, <2>1, <2>2 DEF InOrder, Copiers, Copied
  <2> QED BY <1>4, <1>9, <2>1, <2>3
<1>13. CancelledBehind'
  <2> SUFFICES ASSUME NEW s \in Sinks, NEW k \in DOMAIN calls[s], calls[s][k] = "UV_ECANCELED"
               PROVE  FALSE
    BY <1>2 DEF CancelledBehind
  <2> QED BY <1>1 DEF CancelledBehind, Catting
<1> QED BY <1>2, <1>6, <1>8, <1>11, <1>12, <1>13

LEMMA CopyInitially == Init => CopyInv
<1> SUFFICES ASSUME Init PROVE CopyInv
  OBVIOUS
<1>1. /\ taken = 0 /\ stage = "opening" /\ proc = "running"
      /\ outq = [s \in Sinks |-> << >>] /\ calls = [s \in Sinks |-> << >>] /\ got = [s \in Sinks |-> << >>]
  BY DEF Init, CopyInit, StreamsInit
<1>2. CopyTypes
  BY <1>1 DEF CopyTypes, Streams, Bytes
<1>3. NothingYet
  BY <1>1 DEF NothingYet
<1>4. \A s \in Sinks : Written(s) = << >>
  <2>1. FlattenSeq(<< >>) = << >>
    BY FlattenNone
  <2>2. << >> \o << >> = << >>
    OBVIOUS
  <2> QED BY <1>1, <2>1, <2>2 DEF Written
<1>5. InOrder
  <2>1. [k \in 1..taken |-> k] = << >> /\ Copied \subseteq Sinks
    BY <1>1 DEF Copied, Open, Sinks
  <2> QED BY <1>4, <2>1 DEF InOrder
<1>6. NeverAhead
  BY <1>1, <1>4 DEF NeverAhead
<1>7. OneAtATime
  BY <1>1 DEF OneAtATime, Sinks
<1>8. ClosesAtEnd /\ CancelledBehind /\ StopsOnlyBehind
  BY <1>1 DEF ClosesAtEnd, CancelledBehind, StopsOnlyBehind
<1> QED BY <1>2, <1>3, <1>5, <1>6, <1>7, <1>8 DEF CopyInv

LEMMA CopyInductive == CopyInv /\ [Next]_vars => CopyInv'
<1> SUFFICES ASSUME CopyInv, [Next]_vars PROVE CopyInv'
  OBVIOUS
<1>0. /\ CopyTypes /\ NothingYet /\ ClosesAtEnd /\ OneAtATime /\ InOrder /\ NeverAhead
      /\ CancelledBehind /\ StopsOnlyBehind /\ Streams(Sinks)
  BY DEF CopyInv, CopyTypes
<1>1. CASE CopyNext /\ UNCHANGED program
  \* What most steps leave alone.
  <2>0. ASSUME UNCHANGED <<program, taken, streamVars>>, UNCHANGED lossy \/ stage = "opening"
        PROVE  CopyTypes' /\ InOrder' /\ NeverAhead'
    <3>1. CopyTypes' /\ NeverAhead' /\ \A s \in Sinks : (Written(s))' = Written(s) /\ ((Clean(s))' <=> Clean(s))
      BY <1>0, <2>0 DEF CopyTypes, Streams, NeverAhead, Written, Clean, streamVars
    <3>2. Copied' \subseteq Sinks
      BY DEF Copied, Open, Sinks
    <3>3. CASE UNCHANGED lossy
      <4>1. Copied' = Copied
        BY <2>0, <3>3 DEF Copied, Open
      <4>2. InOrder'
        <5> SUFFICES ASSUME NEW s \in Copied, program \in Copiers, (Clean(s))', program = "uvcat" => ~lossy
                     PROVE  (Written(s))' = [k \in 1..taken |-> k]
          BY <2>0, <3>3, <4>1 DEF InOrder
        <5> QED BY <1>0, <3>1, <3>2, <4>1 DEF InOrder
      <4> QED BY <3>1, <4>2
    <3>4. CASE stage = "opening"
      <4>1. \A s \in Sinks : Written(s) = [k \in 1..taken |-> k]
        BY <3>4, OpeningIsEmpty
      <4>2. InOrder'
        BY <2>0, <3>1, <3>2, <4>1 DEF InOrder
      <4> QED BY <3>1, <4>2
    <3> QED BY <2>0, <3>3, <3>4
  <2>1. CASE OpenFile \/ OpenCb
    <3>1. /\ UNCHANGED <<program, taken, streamVars>> /\ stage = "opening" /\ stage' \in {"opening", "reading"}
          /\ program # "uvcat" /\ proc' # "write_failed"
      BY <1>1, <2>1 DEF OpenFile, OpenCb, Teeing, Tee, Tees, Running
    <3>2. \A s \in Sinks : calls[s] = << >>
      BY <3>1, OpeningIsEmpty
    <3>3. CopyTypes' /\ InOrder' /\ NeverAhead'
      BY <2>0, <3>1
    <3>4. NothingYet' /\ ClosesAtEnd' /\ OneAtATime' /\ CancelledBehind' /\ StopsOnlyBehind'
      BY <1>0, <3>1, <3>2 DEF NothingYet, ClosesAtEnd, OneAtATime, CancelledBehind, StopsOnlyBehind, streamVars
    <3> QED BY <3>3, <3>4 DEF CopyInv
  <2>2. CASE ReadCb
    <3>1. /\ Tee /\ stage = "reading" /\ UNCHANGED <<proc, input, done, lossy>> /\ proc = "running"
          /\ program \in Copiers /\ program # "uvcat" /\ Copied = Open
      BY <2>2 DEF ReadCb, Teeing, Tee, Tees, Running, Copiers, Copied
    <3>2. CASE Eof
      <4>1. CopyTypes' /\ InOrder' /\ NeverAhead' /\ CancelledBehind'
        BY <1>1, <3>1, <3>2, EofKeeps DEF Eof
      <4>2. NothingYet' /\ ClosesAtEnd' /\ OneAtATime' /\ StopsOnlyBehind'
        BY <1>1, <3>1, <3>2 DEF Eof, NothingYet, ClosesAtEnd, AtEnd, OneAtATime, StopsOnlyBehind
      <4> QED BY <4>1, <4>2 DEF CopyInv
    <3>3. CASE Data
      <4>1. PICK n \in 1..CopyBufSize : taken' = taken + n /\ UvWrite(Copied, NextBytes(n)) /\ UNCHANGED stage
        BY <3>1, <3>3 DEF Data, Reads
      <4>2. CopyTypes' /\ InOrder' /\ NeverAhead' /\ CancelledBehind'
        BY <1>1, <3>1, <4>1, ReadKeeps
      <4>3. NothingYet' /\ ClosesAtEnd' /\ OneAtATime' /\ StopsOnlyBehind'
        BY <1>1, <3>1, <4>1 DEF NothingYet, ClosesAtEnd, OneAtATime, StopsOnlyBehind
      <4> QED BY <4>2, <4>3 DEF CopyInv
    <3>4. CASE UNCHANGED <<taken, streamVars>> /\ stage' \in {"reading", "failed"}
      <4>1. CopyTypes' /\ InOrder' /\ NeverAhead'
        BY <1>1, <2>0, <3>1, <3>4
      <4>2. NothingYet' /\ ClosesAtEnd' /\ OneAtATime' /\ CancelledBehind' /\ StopsOnlyBehind'
        BY <1>0, <1>1, <3>1, <3>4 DEF NothingYet, ClosesAtEnd, OneAtATime, CancelledBehind, StopsOnlyBehind, streamVars
      <4> QED BY <4>1, <4>2 DEF CopyInv
    <3> QED BY <2>2, <3>1, <3>2, <3>3, <3>4 DEF ReadCb
  <2>3. ASSUME NEW c \in Sinks, WriteCb(c) PROVE CopyInv'
    <3>1. /\ program # "uvcat" /\ proc = "running" /\ calls[c] # << >>
          /\ UNCHANGED <<program, input, done, taken, stage, lossy>>
      BY <1>1, <2>3 DEF WriteCb, Tee, Tees, Running
    <3>2. CASE Head(calls[c]) = "0"
      <4>1. CalledBack(c) /\ UNCHANGED proc
        BY <2>3, <3>2 DEF WriteCb
      <4>2. CopyTypes' /\ InOrder' /\ NeverAhead' /\ CancelledBehind'
        BY <3>1, <3>2, <4>1, CallbackKeeps
      <4>3. stage # "opening"
        BY <1>0, <3>1 DEF NothingYet
      <4>4. NothingYet' /\ ClosesAtEnd' /\ OneAtATime' /\ StopsOnlyBehind'
        BY <1>0, <3>1, <4>1, <4>3 DEF NothingYet, ClosesAtEnd, AtEnd, OneAtATime, StopsOnlyBehind
      <4> QED BY <4>2, <4>4 DEF CopyInv
    <3>3. CASE Head(calls[c]) # "0"
      <4>1. UNCHANGED streamVars /\ proc' = "write_failed"
        BY <2>3, <3>3 DEF WriteCb
      <4>2. CopyTypes' /\ InOrder' /\ NeverAhead'
        BY <2>0, <3>1, <4>1
      <4>3. NothingYet' /\ ClosesAtEnd' /\ OneAtATime' /\ CancelledBehind'
        BY <1>0, <3>1, <4>1 DEF NothingYet, ClosesAtEnd, AtEnd, OneAtATime, CancelledBehind, streamVars
      <4>4. StopsOnlyBehind'
        <5>1. Head(calls[c]) \in Codes /\ Head(calls[c]) = calls[c][1] /\ 1 \in DOMAIN calls[c]
          <6>1. calls[c] \in Seq(Codes)
            BY <1>0 DEF Streams
          <6>2. Len(calls[c]) \in Nat \ {0}
            BY <3>1, <6>1
          <6> QED BY <3>1, <6>1, <6>2, HeadTailProperties
        <5>2. CASE Head(calls[c]) = "UV_EPIPE"
          BY <3>1, <4>1, <5>2 DEF StopsOnlyBehind, streamVars
        <5>3. CASE Head(calls[c]) = "UV_ECANCELED"
          <6>1. stage = "closing" /\ Len(got[c]) < taken
            BY <1>0, <5>1, <5>3 DEF CancelledBehind
          <6>2. AtEnd'
            BY <1>0, <3>1, <6>1 DEF ClosesAtEnd, AtEnd
          <6> QED BY <3>1, <4>1, <5>3, <6>1, <6>2 DEF StopsOnlyBehind, streamVars
        <5> QED BY <3>3, <5>1, <5>2, <5>3 DEF Codes
      <4> QED BY <4>2, <4>3, <4>4 DEF CopyInv
    <3> QED BY <3>2, <3>3
  <2>4. ASSUME NEW c \in Sinks, SinkTakes(c) \/ SinkFails(c) PROVE CopyInv'
    <3>1. /\ program # "uvcat" /\ UNCHANGED <<program, input, done, taken, stage, lossy>>
          /\ proc' # "write_failed"
      BY <1>1, <2>4 DEF SinkTakes, SinkFails, Tee, Tees, Running
    <3>2. CASE Taken(c) \/ Refused(c)
      <4>1. CopyTypes' /\ InOrder' /\ NeverAhead' /\ CancelledBehind' /\ outq[c] # << >>
        BY <3>1, <3>2, SinkKeeps
      <4>2. NothingYet' /\ ClosesAtEnd' /\ OneAtATime' /\ StopsOnlyBehind'
        BY <1>0, <3>1, <4>1 DEF NothingYet, ClosesAtEnd, AtEnd, OneAtATime, StopsOnlyBehind
      <4> QED BY <4>1, <4>2 DEF CopyInv
    <3>3. CASE UNCHANGED streamVars
      <4>1. CopyTypes' /\ InOrder' /\ NeverAhead'
        BY <2>0, <3>1, <3>3
      <4>2. NothingYet' /\ ClosesAtEnd' /\ OneAtATime' /\ CancelledBehind' /\ StopsOnlyBehind'
        BY <1>0, <3>1, <3>3 DEF NothingYet, ClosesAtEnd, AtEnd, OneAtATime, CancelledBehind, StopsOnlyBehind, streamVars
      <4> QED BY <4>1, <4>2 DEF CopyInv
    <3> QED BY <2>4, <3>2, <3>3 DEF SinkTakes, SinkFails
  <2>5. CASE TeeEnds \/ InputGrows \/ CatCloseCb \/ CatOpenCb
    <3>1. /\ UNCHANGED <<program, taken, lossy, streamVars>> /\ proc' # "write_failed"
          /\ \/ UNCHANGED stage /\ (~done \/ UNCHANGED <<input, done>>)
             \/ stage = "opening" /\ stage' = "reading"
      BY <1>1, <2>5 DEF TeeEnds, InputGrows, CatCloseCb, CatOpenCb, Teeing, Catting, Tee, Runs, Running, copyVars
    <3>2. CopyTypes' /\ InOrder' /\ NeverAhead'
      BY <2>0, <3>1
    <3>3. stage = "opening" => \A s \in Sinks : calls[s] = << >>
      BY OpeningIsEmpty
    <3>4. NothingYet' /\ ClosesAtEnd' /\ OneAtATime' /\ CancelledBehind' /\ StopsOnlyBehind'
      BY <1>0, <3>1, <3>3 DEF NothingYet, ClosesAtEnd, AtEnd, OneAtATime, CancelledBehind, StopsOnlyBehind, streamVars
    <3> QED BY <3>2, <3>4 DEF CopyInv
  <2>6. CASE CatReadCb
    <3>1. /\ stage = "reading" /\ program = "uvcat" /\ proc = "running" /\ UNCHANGED <<input, done, lossy>>
          /\ outq["stdout"] = << >>
      BY <1>0, <2>6 DEF CatReadCb, Catting, Runs, Running, OneAtATime
    <3>2. CASE /\ UNCHANGED <<taken, streamVars>> /\ proc' # "write_failed"
               /\ UNCHANGED stage \/ (AtEnd /\ stage' = "closing")
      <4>1. CopyTypes' /\ InOrder' /\ NeverAhead'
        BY <1>1, <2>0, <3>1, <3>2
      <4>2. NothingYet' /\ ClosesAtEnd' /\ OneAtATime' /\ CancelledBehind' /\ StopsOnlyBehind'
        BY <1>0, <1>1, <3>1, <3>2 DEF NothingYet, ClosesAtEnd, AtEnd, OneAtATime, CancelledBehind, StopsOnlyBehind, streamVars
      <4> QED BY <4>1, <4>2 DEF CopyInv
    <3>3. ASSUME NEW n \in 1..CopyBufSize, Reads(n), UvWrite({"stdout"}, NextBytes(n)),
                 stage' = "writing", UNCHANGED proc
          PROVE  CopyInv'
      <4>1. Copied = {"stdout"} /\ program \in Copiers /\ taken' = taken + n
        BY <3>1, <3>3 DEF Copied, Copiers, Reads
      <4>2. CopyTypes' /\ InOrder' /\ NeverAhead' /\ CancelledBehind'
        BY <1>1, <3>1, <3>3, <4>1, ReadKeeps
      <4>3. Len(outq'["stdout"]) = 1
        <5>1. NextBytes(n) \in Piece /\ "stdout" \in Sinks
          BY <1>0, NextIsPiece DEF CopyTypes, Sinks
        <5>2. outq'["stdout"] = Append(outq["stdout"], NextBytes(n))
          BY <1>0, <3>3, <5>1, WriteAdds
        <5> QED BY <3>1, <5>2
      <4>4. NothingYet' /\ ClosesAtEnd' /\ OneAtATime' /\ StopsOnlyBehind'
        BY <1>1, <3>1, <3>3, <4>3 DEF NothingYet, ClosesAtEnd, OneAtATime, StopsOnlyBehind
      <4> QED BY <4>2, <4>4 DEF CopyInv
    <3>4. \/ /\ UNCHANGED <<taken, streamVars>> /\ proc' # "write_failed"
             /\ UNCHANGED stage \/ (AtEnd /\ stage' = "closing")
          \/ \E n \in 1..CopyBufSize : /\ Reads(n) /\ UvWrite({"stdout"}, NextBytes(n))
                                      /\ stage' = "writing" /\ UNCHANGED proc
      BY <2>6, <3>1 DEF CatReadCb
    <3> QED BY <3>2, <3>3, <3>4
  <2>7. CASE CatWriteCb
    <3>1. Catting("writing") /\ program = "uvcat" /\ proc = "running" /\ stage = "writing"
          /\ UNCHANGED <<input, done, taken>>
      BY <2>7 DEF CatWriteCb, Catting, Runs, Running
    <3>2. CASE "sink" \in Faults /\ proc' = "aborted"
      <4>0. UNCHANGED <<stage, lossy, streamVars>>
        BY <2>7, <3>1, <3>2 DEF CatWriteCb
      <4>1. CopyTypes' /\ InOrder' /\ NeverAhead'
        BY <1>1, <2>0, <3>1, <4>0
      <4>2. NothingYet' /\ ClosesAtEnd' /\ OneAtATime' /\ CancelledBehind' /\ StopsOnlyBehind'
        BY <1>0, <1>1, <3>1, <3>2, <4>0 DEF NothingYet, ClosesAtEnd, AtEnd, OneAtATime, CancelledBehind, StopsOnlyBehind, streamVars
      <4> QED BY <4>1, <4>2 DEF CopyInv
    <3>3. CASE ~("sink" \in Faults /\ proc' = "aborted")
      <4>1. /\ CopyTypes' /\ InOrder' /\ NeverAhead' /\ CancelledBehind'
            /\ outq'["stdout"] = << >> /\ stage' = "reading" /\ UNCHANGED <<proc, calls, taken>>
        BY <1>1, <2>7, <3>1, <3>3, CatWriteKeeps
      <4>2. NothingYet' /\ ClosesAtEnd' /\ OneAtATime' /\ StopsOnlyBehind'
        BY <3>1, <4>1 DEF NothingYet, ClosesAtEnd, OneAtATime, StopsOnlyBehind
      <4> QED BY <4>1, <4>2 DEF CopyInv
    <3> QED BY <3>2, <3>3
  <2> QED BY <1>1, <2>1, <2>2, <2>3, <2>4, <2>5, <2>6, <2>7 DEF CopyNext, CopyLoop
<1>2. CASE /\ UNCHANGED <<program, copyVars>>
           /\ proc' = "write_failed" => proc = "write_failed"
  BY <1>0, <1>2 DEF CopyInv, CopyTypes, Streams, NothingYet, ClosesAtEnd, AtEnd, OneAtATime, InOrder,
     Copied, Open, Clean, Written, NeverAhead, CancelledBehind, StopsOnlyBehind, copyVars, streamVars
<1> QED BY <1>1, <1>2, CopySteps

\* For inputs of any size, read in any pieces, and sinks that take it in any
\* pieces: what a sink got and is still to get is the input so far, in order and
\* once, unless an error was met; a tee or 02-uvcat that ends has copied it all.
THEOREM CopiesEverything == Spec => []CopiesInOrder
<1>1. CopyInv => CopiesInOrder
  BY DEF CopyInv, InOrder, ClosesAtEnd, CopiesInOrder, Copiers, Copied, Clean
<1> QED BY <1>1, CopyInitially, CopyInductive, PTL DEF Spec

\* If no sink fails, the assertion of write_cb (03-uvtee/main.c:45) can stop a tee
\* only after the end of its input, on a write that was cancelled by then.
THEOREM AssertsOnlyBehind == Spec => []StopsOnlyBehind
<1>1. CopyInv => StopsOnlyBehind
  BY DEF CopyInv
<1> QED BY <1>1, CopyInitially, CopyInductive, PTL DEF Spec
=============================================================================
