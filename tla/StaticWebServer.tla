-------------------------- MODULE StaticWebServer ---------------------------
(***************************************************************************)
(* examples/static-web-server: main.c accepts connections, has what they   *)
(* send parsed, resolve-resource.c asks for the size of the file, and      *)
(* pipe-file.c (PipeFile) sends it.  Everything runs on one loop; between  *)
(* two callbacks of a connection any callback of another may run, and the  *)
(* client may do anything.                                                 *)
(*                                                                         *)
(* A resource stands for its file and is named by the length of it, or is  *)
(* Missing.  Of what the parser does with a message, which RequestParser   *)
(* has in full, two things come back here: whether a pointer of its record *)
(* is still unset when the connection is released, and the assertion that  *)
(* a header line cut by a read can fail.  A read that does neither and     *)
(* ends no message, or that reports an error, changes nothing.             *)
(***************************************************************************)
EXTENDS PipeFile

CONSTANTS
  Missing,    \* a url without a file
  NotFound,   \* what "/404.html" is: a length, or Missing
  ClientActs, \* what clients may do, see ClientActKinds
  MaxReqs     \* [Conns -> Nat], messages a client sends on its connection at most

\* "second":    another message after the first; "eof": it half-closes early;
\* "malformed": bytes that are no request; "headless": a message without header
\* lines; "cut": a read that ends in a header value, or right behind it or a field;
\* "refused":   uv_accept fails; "failed": on_connect is called with an error.
ClientActKinds == {"second", "eof", "malformed", "headless", "cut", "refused", "failed"}
Resources == Lengths \cup {Missing}

ASSUME NotFoundKnown == NotFound \in Resources
ASSUME ActsKnown == ClientActs \subseteq ClientActKinds
ASSUME MaxReqsNat == MaxReqs \in [Conns -> Nat]

VARIABLES
  arrived,    \* [Conns -> BOOLEAN], on_connect ran for the connection
  asked,      \* [Conns -> Nat], messages parsed, or found malformed
  path,       \* [Conns -> Resources], resource_info.full_path
  stats,      \* [Conns -> [Resources -> Nat]], uv_fs_stat requests in flight
  unset       \* [Conns -> BOOLEAN], no header line was parsed: pointers are unset

reqVars == <<arrived, asked, path, stats, unset>>
vars == <<pipeVars, reqVars>>

ServerInit ==
  /\ Init
  /\ arrived = [c \in Conns |-> FALSE]
  /\ asked = [c \in Conns |-> 0]
  /\ path = [c \in Conns |-> Missing]
  /\ stats = [c \in Conns |-> [r \in Resources |-> 0]]
  /\ unset = [c \in Conns |-> TRUE]

\* uv_close(tcp, cb): on_res_end will free the connection, NULL will not.
UvClose(c, cb) ==
  /\ tcp' = [tcp EXCEPT ![c] = IF cb = "on_res_end" THEN "closing" ELSE "dropping"]
  /\ UNCHANGED <<proc, pipe, active, file, burst, queued, flushed>>

ProcStops(how) ==
  proc' = how /\ UNCHANGED <<tcp, pipe, active, file, burst, queued, flushed>>

OnConnect(c) ==
  /\ LoopFree /\ ~arrived[c]
  /\ arrived' = [arrived EXCEPT ![c] = TRUE]
  /\ \/ UNCHANGED pipeVars
     \/ "refused" \in ClientActs /\ UvClose(c, "NULL")
     \/ "failed" \in ClientActs /\ ProcStops("exited")          \* CHECK(status)
  /\ UNCHANGED <<asked, path, stats, unset>>

\* sws_resolve_resource_start: the path is kept in the connection, its stat is
\* a request of its own.
Resolve(c, r, pending) ==
  /\ path' = [path EXCEPT ![c] = r]
  /\ stats' = [stats EXCEPT ![c] = [pending EXCEPT ![r] = @ + 1]]

\* on_message_complete calls on_parse_complete, for every message.
OnParseComplete(c) ==
  /\ \E r \in Resources : Resolve(c, r, stats[c])
  /\ UNCHANGED <<pipeVars, arrived>>

ParseErrorCloses == "on_res_end"
EofCloses_Freeing == "on_res_end"
EofCloses == "NULL"

\* A header line that was parsed sets the pointers it came to, for good; bytes
\* that are no request may be found out before one, or after.
OnMessage(c) ==
  /\ asked[c] < MaxReqs[c]
  /\ asked[c] > 0 => "second" \in ClientActs
  /\ asked' = [asked EXCEPT ![c] = @ + 1]
  /\ \E headless \in BOOLEAN :
       /\ unset' = [unset EXCEPT ![c] = @ /\ headless]
       /\ \/ /\ headless => "headless" \in ClientActs
             /\ OnParseComplete(c)
          \/ /\ "malformed" \in ClientActs
             /\ UvClose(c, ParseErrorCloses)
             /\ UNCHANGED <<arrived, path, stats>>

OnReqRead(c) ==
  /\ LoopFree /\ arrived[c] /\ tcp[c] = "open"
  /\ \/ OnMessage(c)
     \/ "cut" \in ClientActs /\ ProcStops("assert_header") /\ UNCHANGED reqVars
     \/ "eof" \in ClientActs /\ UvClose(c, EofCloses) /\ UNCHANGED reqVars

\* fs_stat_cb and on_resolve_resource in it; the request points into the
\* connection's memory.  What is opened is whatever the path says by now.
Fallback_Missing == Missing
Fallback == NotFound

\* The stat request r that is called back is no longer in flight.
StatDone_Kept(c, r) == stats[c]
StatDone(c, r) == [stats[c] EXCEPT ![r] = @ - 1]

OnStat(c, r) ==
  /\ LoopFree /\ stats[c][r] > 0
  /\ \/ tcp[c] = "freed" /\ ProcStops("undefined") /\ UNCHANGED reqVars
     \/ /\ tcp[c] # "freed" /\ r = Missing
        /\ Resolve(c, Fallback, StatDone(c, r))
        /\ UNCHANGED <<pipeVars, arrived, asked, unset>>
     \/ /\ tcp[c] # "freed" /\ r # Missing /\ path[c] # Missing
        /\ SwsPipeFile(c, r, path[c])
        /\ stats' = [stats EXCEPT ![c] = StatDone(c, r)]
        /\ UNCHANGED <<arrived, asked, path, unset>>
     \/ /\ tcp[c] # "freed" /\ r # Missing /\ path[c] = Missing
        /\ ProcStops(IF TcpDataFree(c) THEN "exited" ELSE "assert_data")
        /\ UNCHANGED reqVars

\* libuv: a handle closed with NULL is done, its memory stays allocated.
OnDropped(c) ==
  /\ LoopFree
  /\ tcp[c] = "dropping" /\ queued[c] = 0 /\ flushed[c] = 0
  /\ tcp' = [tcp EXCEPT ![c] = "dropped"]
  /\ UNCHANGED <<proc, pipe, active, file, burst, queued, flushed, reqVars>>

\* A process that stopped, or whose connections are all over or silent.
ServerOver ==
  /\ \/ proc # "running"
     \/ \A c \in Conns : tcp[c] \in {"freed", "dropped"} \/ (arrived[c] /\ asked[c] = 0)
  /\ UNCHANGED vars

PipeStep(c) ==
  (Transfer(c) \/ OnResEnd(c, unset[c]) \/ FileGrows(c)) /\ UNCHANGED reqVars

ServerNext ==
  \/ ServerOver
  \/ \E c \in Conns : \/ OnConnect(c) \/ OnReqRead(c) \/ OnDropped(c) \/ PipeStep(c)
                      \/ \E r \in Resources : OnStat(c, r)

ServerSpec == ServerInit /\ [][ServerNext]_vars

\* uv_run calls back what is ready of each connection, and its client reads; what
\* it sends is its own affair.
LoopStep(c) ==
  \/ OnDropped(c) \/ \E r \in Resources : OnStat(c, r)
  \/ /\ \/ PollFile(c) \/ OnFileRead(c) \/ OnWriteRes(c) \/ OnWriteError(c)
        \/ Pollout(c) \/ OnResEnd(c, unset[c])
     /\ UNCHANGED reqVars

ServerFairness == \A c \in Conns : WF_vars(LoopStep(c))

ServerFairSpec == ServerSpec /\ ServerFairness

-----------------------------------------------------------------------------
(* What is checked.                                                         *)

\* The server is written for one message on a connection.  A second one, which
\* nothing in main.c refuses, is the exception of the next three.
Single(c) == asked[c] <= 1

\* Memory is released only when nothing will come back to it: no stat, no write
\* and no read of a file refers to a connection that on_res_end freed.
ReleasedWhenIdle ==
  \A c \in Conns : proc = "running" /\ tcp[c] = "freed" /\ Single(c) =>
    /\ \A r \in Resources : stats[c][r] = 0
    /\ queued[c] = 0 /\ flushed[c] = 0
    /\ active[c] => file[c].left = 0

\* What a request in progress needs has one owner on its connection: a stat, or
\* a record, but never two of them, whatever other connections do.
OneStageAtATime ==
  \A c \in Conns : Single(c) =>
    /\ \A r, q \in Resources : stats[c][r] > 0 /\ stats[c][q] > 0 => r = q
    /\ (\E r \in Resources : stats[c][r] > 0) => pipe[c].mem = "none"

\* Whatever clients and files do, the process they are all served by stops only
\* at a CHECK (exit), never at an assertion or in memory that is not its own,
\* except that a client that half-closes early (main.c:92) leaves a closing handle
\* behind; that a file longer than a poll event may fail the size assertion
\* (pipe-file.c:188); that a read may cut a header line, which only a client that
\* is still connected does (request-parser.c:132-133); and that the release of a
\* connection may free pointers it never set, if its client sent a message and
\* none of its header lines was parsed (request-parser.c:52-54).
StopsAreDeliberate ==
  \/ proc \in {"running", "exited"}
  \/ \E c \in Conns : tcp[c] \in {"dropping", "dropped"} \/ ~Single(c)
  \/ proc = "assert_size" /\ \E c \in Conns : pipe[c].size > Batch
  \/ proc = "assert_header" /\ \E c \in Conns : arrived[c] /\ tcp[c] = "open"
  \/ proc = "bad_free" /\ \E c \in Conns : tcp[c] = "closing" /\ asked[c] > 0 /\ unset[c]

\* A request is answered, with its file or with /404.html, and its connection
\* is then closed and released, if its client did not half-close meanwhile.
EveryRequestAnswered ==
  \A c \in Conns :
    (asked[c] > 0) ~> (tcp[c] \in {"freed", "dropping", "dropped"} \/ proc # "running")
=============================================================================
