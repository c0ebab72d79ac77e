----------------------------- MODULE WorkQueue ------------------------------
(***************************************************************************)
(* examples/11-queue-work and examples/12-queue-cancel: main() queues      *)
(* FIB_UNTIL requests, worker threads of libuv's pool execute them, and    *)
(* the loop calls after_work_cb for each.  12-queue-cancel also listens    *)
(* for SIGINT and cancels every request when it comes.                     *)
(*                                                                         *)
(* The pool (external) runs work_cb on its threads at any time, also while *)
(* main() is still queueing.  uv_cancel takes the pool's lock: it either   *)
(* removes a request nobody executes, or fails.  signal_cb calls it once   *)
(* per request, and the workers may take requests between two such calls.  *)
(***************************************************************************)
EXTENDS Integers, FiniteSets

CONSTANTS
  FIB_UNTIL,   \* how many requests
  Workers,     \* the threads of the pool
  Programs,    \* which of the two: "11-queue-work", "12-queue-cancel"
  MaxSignals   \* how often SIGINT is sent at most

Reqs == 0..(FIB_UNTIL - 1)
None == -1

ASSUME UntilNat == FIB_UNTIL \in Nat
ASSUME ProgramsKnown == Programs \subseteq {"11-queue-work", "12-queue-cancel"}
ASSUME MaxSignalsNat == MaxSignals \in Nat

VARIABLES
  program,   \* the one that runs, for good
  main,      \* where main() is: "queue", "run", "exited", "killed", "undefined"
  i,         \* its loop counter
  queue,     \* requests that wait for a worker; they are taken lowest first
  doing,     \* [Workers -> Reqs \cup {None}]
  done,      \* what the pool handed to the loop: [req |-> , status |-> ]
  reported,  \* what after_work_cb was called with so far, the same way
  active,    \* the loop's count of requests in progress
  signal,    \* the handle of listen_for_sigint: "none", "started", "stopped"
  at,        \* the request signal_cb cancels next, None outside of it
  caught,    \* a SIGINT is on its way to the loop
  sent       \* SIGINTs so far

vars == <<program, main, i, queue, doing, done, reported, active, signal, at, caught, sent>>

Init ==
  /\ program \in Programs
  /\ main = "queue"
  /\ i = 0
  /\ queue = {}
  /\ doing = [w \in Workers |-> None]
  /\ done = {} /\ reported = {}
  /\ active = 0
  /\ signal = "none" /\ at = None /\ caught = FALSE /\ sent = 0

Cancels == program = "12-queue-cancel"
Alive == main \in {"queue", "run"}

-----------------------------------------------------------------------------
(* The loop's thread.                                                       *)

\* uv_queue_work in main()'s for loop.
QueueWork ==
  /\ main = "queue" /\ i < FIB_UNTIL
  /\ queue' = queue \cup {i}
  /\ active' = active + 1
  /\ i' = i + 1
  /\ UNCHANGED <<main, doing, done, reported, signal, caught, sent, at, program>>

\* listen_for_sigint, then uv_run.
Run ==
  /\ main = "queue" /\ i = FIB_UNTIL
  /\ main' = "run"
  /\ signal' = IF Cancels THEN "started" ELSE "none"
  /\ UNCHANGED <<i, queue, doing, done, reported, active, caught, sent, at, program>>

\* after_work_cb; 11-queue-work asserts that the status is 0.
AfterWork(d) ==
  /\ main = "run" /\ at = None /\ d \in done
  /\ done' = done \ {d}
  /\ reported' = reported \cup {d}
  /\ active' = active - 1
  /\ main' = IF d.status # "0" /\ ~Cancels THEN "killed" ELSE main
  /\ UNCHANGED <<i, queue, doing, signal, caught, sent, at, program>>

\* Mutants of the next two: a uv_cancel that does not ask the pool, and a loop
\* that stops one short.
Cancellable_Any(q) == q \in queue \/ \E w \in Workers : doing[w] = q
CancelsLeft_Short == at \in 0..(FIB_UNTIL - 2)

\* uv_cancel fails for what is executing, executed, or called back.
Cancellable(q) == q \in queue

\* for (i = 0; i < FIB_UNTIL; i++)
CancelsLeft == at \in Reqs

\* signal_cb is called.  Its handle is a local variable of listen_for_sigint,
\* which has returned: the program is undefined unless the frame still holds it.
OnSignal ==
  /\ main = "run" /\ at = None /\ caught /\ signal = "started"
  /\ caught' = FALSE
  /\ \/ at' = 0 /\ UNCHANGED main
     \/ main' = "undefined" /\ UNCHANGED at
  /\ UNCHANGED <<i, queue, doing, done, reported, active, signal, sent, program>>

\* One uv_cancel of its loop.
Cancel ==
  /\ main = "run" /\ CancelsLeft
  /\ IF Cancellable(at)
     THEN /\ queue' = queue \ {at}
          /\ done' = done \cup {[req |-> at, status |-> "UV_ECANCELED"]}
     ELSE UNCHANGED <<queue, done>>
  /\ at' = at + 1
  /\ UNCHANGED <<main, i, doing, reported, active, signal, caught, sent, program>>

\* Mutants of the next one: the handle is not stopped, and the loop is, by uv_stop.
SignalStop_Kept ==
  /\ main = "run" /\ at # None /\ ~CancelsLeft
  /\ at' = None
  /\ UNCHANGED <<main, i, queue, doing, done, reported, active, signal, caught, sent, program>>

SignalStop_StopsLoop ==
  /\ main = "run" /\ at # None /\ ~CancelsLeft
  /\ signal' = "stopped" /\ at' = None
  /\ main' = "exited"
  /\ UNCHANGED <<i, queue, doing, done, reported, active, caught, sent, program>>

\* uv_signal_stop, and signal_cb returns.
SignalStop ==
  /\ main = "run" /\ at # None /\ ~CancelsLeft
  /\ signal' = "stopped" /\ at' = None
  /\ UNCHANGED <<main, i, queue, doing, done, reported, active, caught, sent, program>>

\* uv_run returns when no request is in progress and no handle is started.
LoopEnds == active = 0 /\ signal # "started"

Return ==
  /\ main = "run" /\ at = None /\ LoopEnds
  /\ main' = "exited"
  /\ UNCHANGED <<i, queue, doing, done, reported, active, signal, caught, sent, at, program>>

-----------------------------------------------------------------------------
(* The pool, and whoever presses Ctrl-C.                                    *)

Take(w) ==
  /\ Alive /\ doing[w] = None
  /\ \E q \in queue :
       /\ \A p \in queue : q <= p
       /\ doing' = [doing EXCEPT ![w] = q]
       /\ queue' = queue \ {q}
  /\ UNCHANGED <<main, i, done, reported, active, signal, caught, sent, at, program>>

\* work_cb returns.
WorkDone(w) ==
  /\ Alive /\ doing[w] # None
  /\ done' = done \cup {[req |-> doing[w], status |-> "0"]}
  /\ doing' = [doing EXCEPT ![w] = None]
  /\ UNCHANGED <<main, i, queue, reported, active, signal, caught, sent, at, program>>

\* SIGINT: for the handler while there is one, else the default is to die.
Interrupt ==
  /\ Alive /\ sent < MaxSignals
  /\ sent' = sent + 1
  /\ IF signal = "started"
     THEN caught' = TRUE /\ UNCHANGED main
     ELSE main' = "killed" /\ UNCHANGED caught
  /\ UNCHANGED <<i, queue, doing, done, reported, active, signal, at, program>>

Over == ~Alive /\ UNCHANGED vars
\* The loop blocks in poll, for ever if nothing comes: 12-queue-cancel does when
\* all its requests are through and nobody sends the signal.
Polls == main = "run" /\ at = None /\ ~LoopEnds /\ UNCHANGED vars

Next ==
  \/ QueueWork \/ Run \/ OnSignal \/ Cancel \/ SignalStop \/ Return \/ Interrupt \/ Over \/ Polls
  \/ \E d \in done : AfterWork(d)
  \/ \E w \in Workers : Take(w) \/ WorkDone(w)

Spec == Init /\ [][Next]_vars

\* Threads run, work_cb returns, and uv_run calls back what is done.
Fairness ==
  /\ WF_vars(QueueWork) /\ WF_vars(Run) /\ WF_vars(Return)
  /\ WF_vars(OnSignal) /\ WF_vars(Cancel) /\ WF_vars(SignalStop)
  /\ \A w \in Workers : WF_vars(Take(w)) /\ WF_vars(WorkDone(w))
  /\ WF_vars(\E d \in done : AfterWork(d))

FairSpec == Spec /\ Fairness

-----------------------------------------------------------------------------
(* What is checked.                                                         *)

Outcomes == [req : Reqs, status : {"0", "UV_ECANCELED"}]

TypeOK ==
  /\ program \in Programs
  /\ main \in {"queue", "run", "exited", "killed", "undefined"}
  /\ i \in 0..FIB_UNTIL
  /\ queue \in SUBSET Reqs
  /\ doing \in [Workers -> Reqs \cup {None}]
  /\ done \in SUBSET Outcomes /\ reported \in SUBSET Outcomes
  /\ active \in Nat
  /\ signal \in {"none", "started", "stopped"}
  /\ at \in Reqs \cup {None, FIB_UNTIL}
  /\ caught \in BOOLEAN
  /\ sent \in 0..MaxSignals

Reported == {d.req : d \in reported}

\* The request is somewhere between uv_queue_work and its callback.
InHand(q) == \/ q \in queue
             \/ \E w \in Workers : doing[w] = q
             \/ \E d \in done : d.req = q

\* Requests and their data are in main()'s frame: uv_run does not return while
\* one of them is still with the pool or on its way back.
FrameOutlivesRequests ==
  main = "exited" => /\ \A q \in Reqs : ~InHand(q)
                     /\ Reported = Reqs

\* The loop's count of requests is the number of those it has not called back.
ActiveIsExact == active = Cardinality({q \in 0..(i - 1) : q \notin Reported})

\* A worker takes a request.
Begins(w) == doing[w] = None /\ doing'[w] # None

\* What signal_cb has called uv_cancel for is not begun any more, also while its
\* loop goes on, and once it has returned nothing is.
NothingStartsAfterCancel ==
  [][\A w \in Workers : Begins(w) => signal # "stopped" /\ at <= doing'[w]]_vars

\* A SIGINT that reaches the handler ends the program: what executes is
\* finished, the rest is cancelled, and the loop is left.  11-queue-work needs none.
Terminates == (caught ~> ~Alive) /\ (program = "11-queue-work" => <>~Alive)

Outcome(q, s) == [req |-> q, status |-> s]

\* What has become of a request, as its caller may see it.
StateOf(q) ==
  IF Outcome(q, "0") \in reported THEN "0"
  ELSE IF Outcome(q, "UV_ECANCELED") \in reported THEN "UV_ECANCELED"
  ELSE IF Outcome(q, "0") \in done THEN "executed"
  ELSE IF Outcome(q, "UV_ECANCELED") \in done THEN "cancelled"
  ELSE IF \E w \in Workers : doing[w] = q THEN "executing"
  ELSE IF q \in queue THEN "pending" ELSE "new"

\* The programs keep what methods.md promises of each request: executed at most
\* once, cancelled only before, called back once and with the status that fits.
Contract == INSTANCE WorkRequests WITH state <- [q \in Reqs |-> StateOf(q)]
ImplementsWorkRequests == Contract!Spec

-----------------------------------------------------------------------------
(* The inductive invariant of WorkQueueProofs.                              *)

\* No request is in two places, or in one place twice.
Apart ==
  /\ \A w \in Workers : doing[w] \notin queue
  /\ \A w, v \in Workers : w # v /\ doing[w] = doing[v] => doing[w] = None
  /\ \A d \in done \cup reported :
       d.req \notin queue /\ \A w \in Workers : doing[w] # d.req
  /\ \A d, e \in done \cup reported : d.req = e.req => d = e
  /\ done \cap reported = {}

\* What was queued, and nothing else, is in hand or reported.
Covered == \A q \in Reqs : q < i <=> InHand(q) \/ q \in Reported

Ended == /\ main \in {"run", "exited"} => i = FIB_UNTIL
         /\ main = "exited" => active = 0

IInv == TypeOK /\ Apart /\ Covered /\ ActiveIsExact /\ Ended

\* What the loop of signal_cb has passed does not wait for a worker, and after it
\* nothing does, as main() is past the loop that queues.
Quenched ==
  /\ main = "queue" => signal = "none" /\ at = None
  /\ signal = "stopped" => queue = {} /\ at = None
  /\ \A q \in queue : at <= q
=============================================================================
