----------------------------- MODULE MultiEcho ------------------------------
(***************************************************************************)
(* examples/20-multi-echo-server: main.c spawns one worker process per cpu *)
(* and hands the connections it accepts to them in turn, through a pipe    *)
(* each; worker.c takes them out of its pipe and serves them as the pipe   *)
(* server of EchoServer does, which is left out here: a worker serves a    *)
(* connection until it closes it, or until an assertion stops the worker   *)
(* and all it serves with it.                                              *)
(*                                                                         *)
(* libuv (external): uv_write2 sends the handle at once if the pipe has    *)
(* room and nothing waits before it, and else keeps a request that refers  *)
(* to the handle.  A write to a worker that is gone raises SIGPIPE, which  *)
(* nothing ignores or handles: it kills main.c, and what waits in its      *)
(* queues, for any worker, is sent no more.                                *)
(***************************************************************************)
EXTENDS Integers, Sequences, SequencesExt

CONSTANTS
  Conns,     \* clients that connect, once each
  CpuCount,  \* workers
  Faults     \* what may go wrong, see FaultKinds

\* "setup":   uv_spawn, uv_tcp_bind or uv_listen fails;
\* "badconn": connection_cb is called with an error; "refused": uv_accept fails
\* in main.c or in worker.c; "unknown": a worker finds no handle in its pipe;
\* "abort":   a write of a worker fails.
FaultKinds == {"setup", "badconn", "refused", "unknown", "abort"}

Workers == 0..(CpuCount - 1)
Nobody == -1

ASSUME ConnsFinite == IsFiniteSet(Conns)
ASSUME CpusPositive == CpuCount \in Nat \ {0}
ASSUME FaultsKnown == Faults \subseteq FaultKinds

VARIABLES
  main,                 \* "setup", "listening", "aborted" or, by SIGPIPE, "killed"
  cpu_count,            \* workers setup_workers has yet to spawn
  round_robin_counter,
  child,                \* [Workers -> "none", "running", "aborted", "exited"]
  exited,               \* the workers whose process handle on_exit closed
  given,                \* [Conns -> Workers \cup {Nobody}], whom main.c chose
  unsent,               \* [Workers -> Seq(Conns)], write requests of their pipes;
                        \* those of a main.c that was killed stay here for good
  pipe,                 \* [Workers -> Seq(Conns)], handles sent and not received
  serving,              \* [Workers -> SUBSET Conns]
  over                  \* connections that are refused, closed by a worker, or
                        \* not found in its pipe

masterVars == <<main, cpu_count, round_robin_counter, exited, given>>
vars == <<masterVars, child, unsent, pipe, serving, over>>

Init ==
  /\ main = "setup" /\ cpu_count = CpuCount /\ round_robin_counter = 0
  /\ child = [w \in Workers |-> "none"] /\ exited = {}
  /\ given = [c \in Conns |-> Nobody] /\ over = {}
  /\ unsent = [w \in Workers |-> << >>] /\ pipe = [w \in Workers |-> << >>]
  /\ serving = [w \in Workers |-> {}]

-----------------------------------------------------------------------------
(* main.c                                                                   *)

\* An iteration of setup_workers: workers are spawned last first.
Spawn ==
  /\ main = "setup" /\ cpu_count > 0
  /\ cpu_count' = cpu_count - 1
  /\ \/ child' = [child EXCEPT ![cpu_count - 1] = "running"] /\ UNCHANGED main
     \/ "setup" \in Faults /\ main' = "aborted" /\ UNCHANGED child
  /\ UNCHANGED <<round_robin_counter, exited, given, unsent, pipe, serving, over>>

Listen ==
  /\ main = "setup" /\ cpu_count = 0
  /\ main' \in {"listening"} \cup (IF "setup" \in Faults THEN {"aborted"} ELSE {})
  /\ UNCHANGED <<cpu_count, round_robin_counter, exited, given>>
  /\ UNCHANGED <<child, unsent, pipe, serving, over>>

\* The kernel is given a handle for a worker that is gone.
SigPipe(w) == child[w] # "running" /\ main' = "killed" /\ UNCHANGED <<unsent, pipe>>

\* uv_write2 of the client's handle to worker w, if it returns.
UvWrite2(c, w) ==
  /\ UNCHANGED main
  /\ \/ /\ unsent[w] = << >> /\ child[w] = "running"
        /\ pipe' = [pipe EXCEPT ![w] = Append(@, c)]
        /\ UNCHANGED unsent
     \/ /\ unsent[w] # << >> \/ child[w] = "running"
        /\ unsent' = [unsent EXCEPT ![w] = Append(@, c)]
        /\ UNCHANGED pipe

NextWorker == (round_robin_counter + 1) % CpuCount

\* main.c keeps the client's handle, and never closes it.
HandOver(c) ==
  /\ \/ /\ UvWrite2(c, round_robin_counter)
        /\ given' = [given EXCEPT ![c] = round_robin_counter]
        /\ round_robin_counter' = NextWorker
     \/ /\ unsent[round_robin_counter] = << >> /\ SigPipe(round_robin_counter)
        /\ UNCHANGED <<given, round_robin_counter>>
  /\ UNCHANGED over

\* A mutant of the next one: a refused client uses up a turn.
TurnAway_Counted(c) ==
  /\ over' = over \cup {c}
  /\ round_robin_counter' = NextWorker
  /\ UNCHANGED <<main, given, unsent, pipe>>

\* A failed connection is logged; a client that is not accepted is closed.
TurnAway(c) ==
  /\ over' = over \cup {c}
  /\ UNCHANGED <<main, round_robin_counter, given, unsent, pipe>>

ConnectionCb(c) ==
  /\ main = "listening" /\ given[c] = Nobody /\ c \notin over
  /\ HandOver(c) \/ ({"badconn", "refused"} \cap Faults # {} /\ TurnAway(c))
  /\ UNCHANGED <<cpu_count, exited, child, serving>>

\* libuv: the pipe has room again, or nobody reads it any more.
Pollout(w) ==
  /\ main = "listening" /\ unsent[w] # << >>
  /\ \/ /\ child[w] = "running"
        /\ unsent' = [unsent EXCEPT ![w] = Tail(@)]
        /\ pipe' = [pipe EXCEPT ![w] = Append(@, Head(unsent[w]))]
        /\ UNCHANGED main
     \/ SigPipe(w)
  /\ UNCHANGED <<cpu_count, round_robin_counter, exited, given, child, serving, over>>

\* on_exit closes the process handle: no other worker is started, and the pipe
\* keeps its turn.
OnExit(w) ==
  /\ main = "listening" /\ child[w] \in {"aborted", "exited"} /\ w \notin exited
  /\ exited' = exited \cup {w}
  /\ UNCHANGED <<main, cpu_count, round_robin_counter, given>>
  /\ UNCHANGED <<child, unsent, pipe, serving, over>>

-----------------------------------------------------------------------------
(* worker.c                                                                 *)

Received(w) == pipe' = [pipe EXCEPT ![w] = Tail(@)]

\* A mutant of the next one: a client that was accepted, and is not read.
Serve_Unread(w, c) == UNCHANGED <<serving, over>>
Serve(w, c) ==
  /\ serving' = [serving EXCEPT ![w] = @ \cup {c}]
  /\ UNCHANGED over

ConnectCb(w) ==
  /\ child[w] = "running" /\ pipe[w] # << >>
  /\ Received(w)
  /\ \/ Serve(w, Head(pipe[w]))
     \/ /\ {"unknown", "refused"} \cap Faults # {}
        /\ over' = over \cup {Head(pipe[w])}
        /\ UNCHANGED serving
  /\ UNCHANGED <<masterVars, child, unsent>>

\* read_cb: the client is through, or an error says so.
Close(w) ==
  /\ child[w] = "running"
  /\ \E c \in serving[w] : /\ serving' = [serving EXCEPT ![w] = @ \ {c}]
                           /\ over' = over \cup {c}
  /\ UNCHANGED <<masterVars, child, unsent, pipe>>

\* write_cb: ERROR of a status below 0.
WriteCbAborts(w) ==
  /\ "abort" \in Faults /\ child[w] = "running" /\ serving[w] # {}
  /\ child' = [child EXCEPT ![w] = "aborted"]
  /\ serving' = [serving EXCEPT ![w] = {}]
  /\ pipe' = [pipe EXCEPT ![w] = << >>]
  /\ UNCHANGED <<masterVars, unsent, over>>

\* main.c is gone, and so is the other end of the pipe: connect_cb is called
\* with an unknown handle, and uv_run has nothing left to wait for.
PipeEnds(w) ==
  /\ main \in {"aborted", "killed"} /\ child[w] = "running"
  /\ pipe[w] = << >> /\ serving[w] = {}
  /\ child' = [child EXCEPT ![w] = "exited"]
  /\ UNCHANGED <<masterVars, unsent, pipe, serving, over>>

Worker(w) == ConnectCb(w) \/ Close(w) \/ WriteCbAborts(w) \/ PipeEnds(w)

\* main.c listens for good, unless it failed before or is killed.
Idle == main # "setup" /\ UNCHANGED vars

Next ==
  \/ Spawn \/ Listen \/ Idle
  \/ \E c \in Conns : ConnectionCb(c)
  \/ \E w \in Workers : Pollout(w) \/ OnExit(w) \/ Worker(w)

Spec == Init /\ [][Next]_vars

\* uv_run of each process calls back what is ready; a worker empties its pipe,
\* which therefore has room again and again.
Fairness ==
  /\ WF_vars(Spawn) /\ WF_vars(Listen)
  /\ \A w \in Workers : WF_vars(Pollout(w)) /\ WF_vars(ConnectCb(w)) /\ WF_vars(PipeEnds(w))

FairSpec == Spec /\ Fairness

-----------------------------------------------------------------------------
(* What is checked.                                                         *)

TypeOK ==
  /\ main \in {"setup", "listening", "aborted", "killed"}
  /\ cpu_count \in 0..CpuCount /\ round_robin_counter \in Workers
  /\ child \in [Workers -> {"none", "running", "aborted", "exited"}]
  /\ exited \in SUBSET Workers /\ given \in [Conns -> Workers \cup {Nobody}]
  /\ over \in SUBSET Conns
  /\ unsent \in [Workers -> Seq(Conns)] /\ pipe \in [Workers -> Seq(Conns)]
  /\ serving \in [Workers -> SUBSET Conns]

GivenTo(w) == {c \in Conns : given[c] = w}

\* The workers get their turns: whatever clients are turned away and whatever
\* workers are gone, no worker is given two connections more than another.
Balanced ==
  \A w, v \in Workers : Cardinality(GivenTo(w)) <= Cardinality(GivenTo(v)) + 1

Places(w) == <<ToSet(unsent[w]), ToSet(pipe[w]), serving[w], GivenTo(w) \cap over>>

\* A connection is lost only with a worker: on its way through two queues and two
\* processes it is in exactly one place while the worker it was given to runs, and
\* main.c dies, with what is left in its queues, only after some worker did.
LostOnlyWithWorker ==
  /\ \A w \in Workers : child[w] = "running" =>
       \A c \in Conns :
         /\ given[c] = w <=> \E k \in 1..4 : c \in Places(w)[k]
         /\ \A j, k \in 1..4 : c \in Places(w)[j] /\ c \in Places(w)[k] => j = k
  /\ main = "killed" => \E w \in Workers : child[w] = "aborted"

\* Who is given to a worker that stays is served by it, or closed, unless the loss
\* of another worker kills main.c before it has sent the connection on.
EveryConnectionServed ==
  \A c \in Conns : \A w \in Workers :
    (given[c] = w) ~> \/ c \in serving[w] \cup over
                      \/ child[w] # "running"
                      \/ main = "killed" /\ c \in ToSet(unsent[w])
=============================================================================
