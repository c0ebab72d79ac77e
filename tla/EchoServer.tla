----------------------------- MODULE EchoServer -----------------------------
(***************************************************************************)
(* The echo servers: examples/05-tcp-echo-server, and the code that        *)
(* examples/19-pipe-echo-server shares with the workers of                 *)
(* examples/20-multi-echo-server.  Each writes back what it reads; they    *)
(* differ in how much of the buffer they write, and in what they do with   *)
(* an end of file, an error and an empty read.                             *)
(*                                                                         *)
(* libuv (external): uv_read_start allocates a buffer for every read;      *)
(* writes are those of UvStream, with a stream for every connection.       *)
(***************************************************************************)
EXTENDS Integers, Example, UvStream

CONSTANTS
  Conns,
  BufSize,    \* bytes alloc_cb provides for a read
  MaxBytes    \* bytes a client sends at most

\* "early": the client ends before it has its echo; "reset": it is gone;
\* "empty": libuv reports a read of nothing; "refused": uv_accept fails;
\* "badconn": the connection callback reports an error; "sigint": Ctrl-C.
Acts == {"early", "reset", "empty", "refused", "badconn", "sigint"}

ASSUME ProgramsKnown == Programs \subseteq {"tcp", "pipe"}
ASSUME SizesNat == BufSize \in Nat \ {0} /\ MaxBytes \in Nat
ASSUME FaultsKnown == Faults \subseteq Acts

Junk == 0   \* what malloc left in the buffer behind the bytes read
UV_EOF == -1
Error == -2  \* any other nread below 0

\* proc may stop as "aborted" by a failed write, or by "bad_connection";
\* "exited" or "not_unlinked" by SIGINT.
VARIABLES
  conn,     \* [Conns -> "none", "open", "failed" (a read error was reported,
            \*            and nothing done), "closed"]
  sent,     \* [Conns -> Nat], bytes 1, 2, ... the client sent
  ended,    \* [Conns -> how the client ended: "no", "patient", "early", "reset"]
  taken,    \* [Conns -> Nat], bytes the server has read
  bufs      \* [Conns -> Nat], buffers allocated and not freed

vars == <<program, proc, conn, sent, ended, taken, streamVars, bufs>>

Init ==
  /\ program \in Programs /\ proc = "running"
  /\ conn = [c \in Conns |-> "none"] /\ ended = [c \in Conns |-> "no"]
  /\ sent = [c \in Conns |-> 0] /\ taken = [c \in Conns |-> 0]
  /\ bufs = [c \in Conns |-> 0]
  /\ StreamsInit(Conns)

-----------------------------------------------------------------------------
(* The server's callbacks.                                                  *)

Accept(c) ==
  /\ \/ conn' = [conn EXCEPT ![c] = "open"]
     \/ "refused" \in Faults /\ conn' = [conn EXCEPT ![c] = "closed"]
  /\ UNCHANGED proc

\* An error of the connection is an assertion in one program, is logged in the
\* others.
TcpConnectionCb(c) ==
  \/ Accept(c)
  \/ "badconn" \in Faults /\ proc' = "bad_connection" /\ UNCHANGED conn

PipeConnectCb(c) ==
  \/ Accept(c)
  \/ "badconn" \in Faults /\ conn' = [conn EXCEPT ![c] = "closed"] /\ UNCHANGED proc

OnConnection(c) ==
  /\ Running /\ conn[c] = "none"
  /\ IF program = "tcp" THEN TcpConnectionCb(c) ELSE PipeConnectCb(c)
  /\ UNCHANGED <<program, sent, ended, taken, streamVars, bufs>>

Close(c) == UvClose({c}) /\ conn' = [conn EXCEPT ![c] = "closed"]
Write(c, bytes) == UvWrite({c}, bytes) /\ UNCHANGED conn

\* Mutants of the next one: the buffer of the first read is written again and
\* again, and a length that is one short.
Read_Again(c, n) == [k \in 1..n |-> k]
Read_Short(c, n) == [k \in 1..(n - 1) |-> taken[c] + k]
\* What a read of n bytes leaves in the buffer.
Read(c, n) == [k \in 1..n |-> taken[c] + k]
Buffer(c, n) == Read(c, n) \o [k \in 1..(BufSize - n) |-> Junk]

\* A mutant of the next one: an empty read taken for the end of file.
TcpReadCb_ZeroCloses(c, nread) ==
  \/ /\ nread \in {UV_EOF, 0}
     /\ Close(c)
     /\ bufs' = [bufs EXCEPT ![c] = @ + 1]
  \/ /\ nread \in 1..BufSize
     /\ Write(c, Read(c, nread))
     /\ bufs' = [bufs EXCEPT ![c] = @ + 1]

\* 05-tcp-echo-server: a buffer that is not written is freed, or forgotten.
TcpReadCb(c, nread) ==
  \/ /\ nread = UV_EOF
     /\ Close(c)
     /\ bufs' = [bufs EXCEPT ![c] = @ + 1]
  \/ /\ nread = Error
     /\ conn' = [conn EXCEPT ![c] = "failed"]
     /\ bufs' = [bufs EXCEPT ![c] = @ + 1]
     /\ UNCHANGED streamVars
  \/ /\ nread = 0
     /\ UNCHANGED <<conn, streamVars, bufs>>
  \/ /\ nread \in 1..BufSize
     /\ Write(c, Read(c, nread))
     /\ bufs' = [bufs EXCEPT ![c] = @ + 1]

\* 19-pipe-echo-server: the whole buffer is written.
PipeReadCb(c, nread) ==
  /\ bufs' = [bufs EXCEPT ![c] = @ + 1]
  /\ \/ nread \in {UV_EOF, Error} /\ Close(c)
     \/ nread \in 0..BufSize /\ Write(c, Buffer(c, nread))

ReadCb(c, nread) == IF program = "tcp" THEN TcpReadCb(c, nread) ELSE PipeReadCb(c, nread)

OnData(c) ==
  /\ Running /\ conn[c] = "open" /\ ended[c] # "reset"
  /\ \E n \in 1..BufSize :
       /\ taken[c] + n <= sent[c]
       /\ taken' = [taken EXCEPT ![c] = @ + n]
       /\ ReadCb(c, n)
  /\ UNCHANGED <<program, proc, sent, ended>>

OnNothing(c) ==
  /\ Running /\ conn[c] = "open" /\ ended[c] # "reset" /\ "empty" \in Faults
  /\ Len(Written(c)) <= MaxBytes \* bounds how often
  /\ ReadCb(c, 0)
  /\ UNCHANGED <<program, proc, sent, ended, taken>>

OnEnd(c) ==
  /\ Running /\ conn[c] = "open"
  /\ \/ ended[c] \in {"patient", "early"} /\ taken[c] = sent[c] /\ ReadCb(c, UV_EOF)
     \/ ended[c] = "reset" /\ ReadCb(c, Error)
  /\ UNCHANGED <<program, proc, sent, ended, taken>>

WriteCb_Keeps(c) ==
  /\ Running /\ calls[c] # << >>
  /\ IF Head(calls[c]) = "0" THEN CalledBack(c) /\ UNCHANGED proc
                             ELSE proc' = "aborted" /\ UNCHANGED streamVars
  /\ UNCHANGED <<program, conn, sent, ended, taken, bufs>>

\* write_cb: a failed write is an assertion, else buffer and request are freed.
WriteCb(c) ==
  /\ Running /\ calls[c] # << >>
  /\ IF Head(calls[c]) = "0"
     THEN CalledBack(c) /\ bufs' = [bufs EXCEPT ![c] = @ - 1] /\ UNCHANGED proc
     ELSE proc' = "aborted" /\ UNCHANGED <<streamVars, bufs>>
  /\ UNCHANGED <<program, conn, sent, ended, taken>>

-----------------------------------------------------------------------------
(* The socket, and the client.                                              *)

Pollout(c) ==
  /\ Running /\ IF ended[c] = "reset" THEN Refused(c) ELSE Taken(c)
  /\ UNCHANGED <<program, proc, conn, sent, ended, taken, bufs>>

ClientSends(c) ==
  /\ Running /\ conn[c] = "open" /\ ended[c] = "no" /\ sent[c] < MaxBytes
  /\ sent' = [sent EXCEPT ![c] = @ + 1]
  /\ UNCHANGED <<program, proc, conn, ended, taken, streamVars, bufs>>

\* The data bytes among some bytes, and those a client received.
Data(bytes) ==
  FlattenSeq([k \in DOMAIN bytes |-> IF bytes[k] = Junk THEN << >> ELSE <<bytes[k]>>])
Echoed(c) == Data(got[c])

\* A patient client has its echo before it ends.
ClientEnds(c) ==
  /\ Running /\ conn[c] = "open" /\ ended[c] = "no"
  /\ \/ /\ Len(Echoed(c)) >= sent[c]
        /\ ended' = [ended EXCEPT ![c] = "patient"]
     \/ /\ "early" \in Faults /\ Len(Echoed(c)) < sent[c]
        /\ ended' = [ended EXCEPT ![c] = "early"]
     \/ /\ "reset" \in Faults
        /\ ended' = [ended EXCEPT ![c] = "reset"]
  /\ UNCHANGED <<program, proc, conn, sent, taken, streamVars, bufs>>

\* 19-pipe-echo-server catches SIGINT, at any time, removes the socket and exits,
\* or finds that it cannot.
SigintCb ==
  /\ Running /\ program = "pipe" /\ "sigint" \in Faults
  /\ proc' \in {"exited", "not_unlinked"}
  /\ UNCHANGED <<program, conn, sent, ended, taken, streamVars, bufs>>

\* The server goes on listening.
Listens == UNCHANGED vars

Server(c) == OnConnection(c) \/ OnData(c) \/ OnNothing(c) \/ OnEnd(c) \/ WriteCb(c)
Env(c) == Pollout(c) \/ ClientSends(c) \/ ClientEnds(c)

Next == Listens \/ SigintCb \/ \E c \in Conns : Server(c) \/ Env(c)

Spec == Init /\ [][Next]_vars

\* uv_run calls back what is ready and clients read what they get.
Fairness ==
  \A c \in Conns : /\ WF_vars(OnData(c)) /\ WF_vars(OnEnd(c)) /\ WF_vars(WriteCb(c))
                   /\ WF_vars(Pollout(c))

FairSpec == Spec /\ Fairness

-----------------------------------------------------------------------------
(* What is checked.                                                         *)

Stream(n) == [k \in 1..n |-> k]

\* A buffer belongs to one write request until its callback frees it.
BuffersAccounted ==
  \A c \in Conns : conn[c] = "open" => bufs[c] = Len(outq[c]) + Len(calls[c])

\* What comes back, junk aside, is what was sent, whatever the client does.
AbstractEcho == INSTANCE Echo WITH got <- [c \in Conns |-> Echoed(c)]
ImplementsEcho == AbstractEcho!Spec

\* "async write" (05-tcp-echo-server/main.c:76): no write fails to a client that
\* has its echo before it ends, and stays.
WritesSucceed ==
  proc = "aborted" =>
    program = "pipe" \/ \E c \in Conns : ended[c] \in {"early", "reset"}

\* Such a client of 05-tcp-echo-server gets back all it sends.
EveryByteEchoed ==
  \A c \in Conns : \A n \in 1..MaxBytes :
    (program = "tcp" /\ sent[c] >= n) ~>
      (Len(got[c]) >= n \/ ended[c] \in {"early", "reset"} \/ proc # "running")

\* "nread is > 0 if there is data available" (callbacks.md:53): only that many
\* bytes of the buffer are data.
OnlyDataEchoed == \A c \in Conns : \A k \in 1..Len(got[c]) : got[c][k] # Junk
=============================================================================
