------------------------------ MODULE PipeFile ------------------------------
(***************************************************************************)
(* examples/static-web-server/pipe-file.c: a file is read through a        *)
(* uv_pipe_t and every buffer read is copied into a uv_write of its own on *)
(* the connection.  The callback it is always given, on_pipe_file_complete *)
(* of main.c, and the close callback that one installs are modelled here   *)
(* too, since file_tcp_pipe_end runs the first before it frees the record. *)
(*                                                                         *)
(* Lengths are counted in buffers of the size alloc_cb allocates; the last *)
(* buffer of a file may be partly filled, which only libuv's read loop     *)
(* tells apart (it stops after a read that does not fill the buffer).      *)
(***************************************************************************)
EXTENDS Naturals, FiniteSets

CONSTANTS
  Conns,      \* accepted connections
  Lengths,    \* lengths uv_fs_stat may report, in buffers
  Batch,      \* reads libuv makes at most in one poll event of a stream
  Faults      \* what else may happen, see FaultKinds

\* "again":  a read callback with nread = 0; "ioerror": one with nread < 0;
\* "reset":  a write fails because the client is gone;
\* "gone":   the file cannot be opened after it was found;
\* "resize": the file is not as long as uv_fs_stat said, or grows later;
\* "brim":   the last buffer of a file may be exactly full.
FaultKinds == {"again", "ioerror", "reset", "gone", "resize", "brim"}

ASSUME ConnsFinite == IsFiniteSet(Conns)
ASSUME LengthsNat == Lengths \subseteq Nat
ASSUME BatchPositive == Batch \in Nat \ {0}
ASSUME FaultsKnown == Faults \subseteq FaultKinds

VARIABLES
  proc,       \* "running", or how the process stopped
  tcp,        \* [Conns -> TcpStates], the connection's handle
  pipe,       \* [Conns -> Pipes], file_tcp_pipe_t
  active,     \* [Conns -> BOOLEAN], file_pipe is open and being read
  file,       \* [Conns -> Files], what is left to read
  burst,      \* [Conns -> 0..Batch], reads left in the current poll event
  queued,     \* [Conns -> Nat], writes the kernel has not taken yet
  flushed     \* [Conns -> Nat], writes taken whose callback has not run

pipeVars == <<proc, tcp, pipe, active, file, burst, queued, flushed>>

\* "bad_free" and "assert_header" are what request-parser.c may stop it with.
ProcStates == {"running", "exited", "assert_data", "assert_size", "assert_close", "undefined",
               "bad_free", "assert_header"}
\* "closing" was closed with on_res_end, "dropping" with NULL: its memory stays.
TcpStates == {"open", "closing", "freed", "dropping", "dropped"}
Pipes == [mem : {"none", "live", "freed"}, nread : Nat, nwritten : Nat, size : Nat]
Files == [left : Nat, brim : BOOLEAN]

NoPipe == [mem |-> "none", nread |-> 0, nwritten |-> 0, size |-> 0]
\* file_tcp_pipe_init, which malloc gives a record with anything in it
NewPipe(s) == [mem |-> "live", nread |-> 0, nwritten |-> 0, size |-> s]

Init ==
  /\ proc = "running"
  /\ tcp = [c \in Conns |-> "open"]
  /\ pipe = [c \in Conns |-> NoPipe]
  /\ active = [c \in Conns |-> FALSE]
  /\ file = [c \in Conns |-> [left |-> 0, brim |-> FALSE]]
  /\ burst = [c \in Conns |-> 0]
  /\ queued = [c \in Conns |-> 0]
  /\ flushed = [c \in Conns |-> 0]

\* The loop is between callbacks: no stream is in the middle of its read loop.
LoopFree == proc = "running" /\ \A c \in Conns : burst[c] = 0

\* What uv_fs_open may find behind a path that led to a file of length n.
FilesFor(n) ==
  {f \in [left : IF "resize" \in Faults THEN Lengths ELSE {n}, brim : BOOLEAN] :
     f.brim => "brim" \in Faults /\ f.left > 0}

-----------------------------------------------------------------------------
(* sws_pipe_file: the record hangs off tcp->data, which nobody resets, so a *)
(* second call for the same connection finds it set even after the end.     *)

TcpDataFree(c) == pipe[c].mem = "none"

\* s is the announced length, n that of the file that is opened.
SwsPipeFile(c, s, n) ==
  /\ UNCHANGED <<tcp, burst, queued, flushed>>
  /\ \/ /\ ~TcpDataFree(c)
        /\ proc' = "assert_data"
        /\ UNCHANGED <<pipe, active, file>>
     \/ /\ TcpDataFree(c)
        /\ \E f \in FilesFor(n) : file' = [file EXCEPT ![c] = f]
        /\ pipe' = [pipe EXCEPT ![c] = NewPipe(s)]
        /\ active' = [active EXCEPT ![c] = TRUE]
        /\ UNCHANGED proc
     \/ /\ TcpDataFree(c)              \* file_tcp_pipe_init fails, and the
        /\ "gone" \in Faults           \* caller CHECKs what it returned
        /\ proc' = "exited"
        /\ UNCHANGED <<pipe, active, file>>

-----------------------------------------------------------------------------
(* file_tcp_pipe_end with CALLBACK, and on_pipe_file_complete inside it.    *)

CompletedAs(p) == [p EXCEPT !.mem = "freed"]

\* CHECK(status) exits; uv_close asserts that the handle is not closing yet.
OnPipeFileComplete(c, status) ==
  \/ status # "ok" /\ proc' = "exited" /\ UNCHANGED tcp
  \/ /\ status = "ok" /\ tcp[c] = "open"
     /\ tcp' = [tcp EXCEPT ![c] = "closing"]
     /\ UNCHANGED proc
  \/ status = "ok" /\ tcp[c] # "open" /\ proc' = "assert_close" /\ UNCHANGED tcp

\* The record is freed only if the callback comes back.
FileTcpPipeEnd(c, p, status) ==
  /\ OnPipeFileComplete(c, status)
  /\ pipe' = [pipe EXCEPT ![c] = IF proc' = "running" THEN CompletedAs(p) ELSE p]

-----------------------------------------------------------------------------
(* on_file_read, called up to Batch times by libuv in one poll event.       *)

\* libuv: kqueue reports a regular file as readable while there is something
\* left.  The file_pipe of a record that was freed is still registered.
PollFile(c) ==
  /\ LoopFree
  /\ active[c] /\ file[c].left > 0
  /\ IF pipe[c].mem = "live" /\ tcp[c] # "freed"
     THEN burst' = [burst EXCEPT ![c] = Batch] /\ UNCHANGED proc
     ELSE proc' = "undefined" /\ UNCHANGED burst
  /\ UNCHANGED <<tcp, pipe, active, file, queued, flushed>>

\* write_data: uv_write tries at once when nothing is queued before it; on a
\* closed handle it fails, which nobody looks at, and no callback comes.
WriteData(c) ==
  \/ /\ tcp[c] = "open" /\ queued[c] = 0
     /\ flushed' = [flushed EXCEPT ![c] = @ + 1]
     /\ UNCHANGED queued
  \/ /\ tcp[c] = "open"
     /\ queued' = [queued EXCEPT ![c] = @ + 1]
     /\ UNCHANGED flushed
  \/ /\ tcp[c] # "open"
     /\ UNCHANGED <<queued, flushed>>

ReadCount_Assigned(p) == [p EXCEPT !.nread = 1]
ReadCount(p) == [p EXCEPT !.nread = @ + 1]
\* libuv leaves its read loop early when the buffer was not filled.
ReadsLeft(c) == IF file[c].left = 1 /\ ~file[c].brim THEN 0 ELSE burst[c] - 1

OnFileData(c) ==
  /\ proc = "running" /\ burst[c] > 0 /\ file[c].left > 0
  /\ pipe' = [pipe EXCEPT ![c] = ReadCount(@)]
  /\ file' = [file EXCEPT ![c].left = @ - 1]
  /\ burst' = [burst EXCEPT ![c] = ReadsLeft(c)]
  /\ WriteData(c)
  /\ UNCHANGED <<proc, tcp, active>>

\* nread is UV_EOF, 0 or another error: the same call with nread as status.
EndOfRead(c, status) ==
  /\ proc = "running" /\ burst[c] > 0
  /\ FileTcpPipeEnd(c, pipe[c], status)
  /\ burst' = [burst EXCEPT ![c] = 0]
  /\ UNCHANGED <<active, file, queued, flushed>>

OnFileEof(c) == file[c].left = 0 /\ EndOfRead(c, "EOF")
OnFileAgain(c) == "again" \in Faults /\ EndOfRead(c, "ok")
OnFileError(c) == "ioerror" \in Faults /\ EndOfRead(c, "error")

OnFileRead(c) == OnFileData(c) \/ OnFileEof(c) \/ OnFileAgain(c) \/ OnFileError(c)

-----------------------------------------------------------------------------
(* on_write_res                                                             *)

Written_Twice(p) == [p EXCEPT !.nwritten = @ + 2]
Written(p) == [p EXCEPT !.nwritten = @ + 1]

AllWritten_Early(p) == p.nwritten + 1 >= p.nread
AllWritten_Never(p) == p.nwritten > p.nread
AllWritten(p) == p.nwritten = p.nread

SizeAsserted_Dropped(p) == TRUE
SizeAsserted(p) == p.size = p.nread

WriteDone(c, p) ==
  \/ /\ ~AllWritten(p)
     /\ pipe' = [pipe EXCEPT ![c] = p]
     /\ UNCHANGED <<proc, tcp>>
  \/ /\ AllWritten(p) /\ SizeAsserted(p)
     /\ FileTcpPipeEnd(c, p, "ok")
  \/ /\ AllWritten(p) /\ ~SizeAsserted(p)
     /\ proc' = "assert_size"
     /\ pipe' = [pipe EXCEPT ![c] = p]
     /\ UNCHANGED tcp

OnWriteRes(c) ==
  /\ LoopFree
  /\ flushed[c] > 0
  /\ flushed' = [flushed EXCEPT ![c] = @ - 1]
  /\ IF pipe[c].mem = "live"
     THEN WriteDone(c, Written(pipe[c]))
     ELSE proc' = "undefined" /\ UNCHANGED <<tcp, pipe>>
  /\ UNCHANGED <<active, file, burst, queued>>

\* A write that the handle's closing cancels, or that a vanished client fails.
OnWriteError(c) ==
  /\ LoopFree
  /\ queued[c] > 0
  /\ tcp[c] # "open" \/ "reset" \in Faults
  /\ proc' = "exited"
  /\ UNCHANGED <<tcp, pipe, active, file, burst, queued, flushed>>

-----------------------------------------------------------------------------
(* libuv and the rest of the world.                                         *)

\* The client made room: the kernel takes some of the queued writes, in order.
Pollout(c) ==
  /\ LoopFree
  /\ tcp[c] = "open" /\ queued[c] > 0
  /\ \E n \in 1..queued[c] :
       /\ queued' = [queued EXCEPT ![c] = @ - n]
       /\ flushed' = [flushed EXCEPT ![c] = @ + n]
  /\ UNCHANGED <<proc, tcp, pipe, active, file, burst>>

\* Close callbacks run after those of the writes in flight.  on_res_end frees
\* the connection and, before it, the pointers its parser may have left unset:
\* free() of what malloc's memory held stops the process, unless it is NULL.
\* (A NULL callback leaves all of it allocated.)
OnResEnd(c, unset) ==
  /\ LoopFree
  /\ tcp[c] = "closing" /\ queued[c] = 0 /\ flushed[c] = 0
  /\ \/ tcp' = [tcp EXCEPT ![c] = "freed"] /\ UNCHANGED proc
     \/ unset /\ proc' = "bad_free" /\ UNCHANGED tcp
  /\ UNCHANGED <<pipe, active, file, burst, queued, flushed>>

\* Somebody appends to a file that was served, or is.
FileGrows(c) ==
  /\ LoopFree /\ "resize" \in Faults
  /\ active[c] /\ pipe[c].nread + file[c].left + 1 \in Lengths
  /\ file' = [file EXCEPT ![c].left = @ + 1]
  /\ UNCHANGED <<proc, tcp, pipe, active, burst, queued, flushed>>

\* The caller: a resource was found to be s long, see StaticWebServer.
Serve(c) ==
  /\ LoopFree
  /\ tcp[c] = "open" /\ TcpDataFree(c)
  /\ \E s \in Lengths : SwsPipeFile(c, s, s)

\* A stopped process, or one whose transfers are over, has nothing left to do.
Over ==
  /\ proc # "running" \/ \A c \in Conns : tcp[c] = "freed"
  /\ UNCHANGED pipeVars

Transfer(c) == PollFile(c) \/ OnFileRead(c) \/ OnWriteRes(c) \/ OnWriteError(c) \/ Pollout(c)

\* What the request said is not this module's: its pointers may be set or not.
Released(c) == \E unset \in BOOLEAN : OnResEnd(c, unset)

Step(c) == Transfer(c) \/ Released(c)

Next == Over \/ \E c \in Conns : Serve(c) \/ Step(c) \/ FileGrows(c)

Spec == Init /\ [][Next]_pipeVars

\* uv_run calls what is ready back, and a client keeps reading its response.
Fairness == \A c \in Conns :
  /\ WF_pipeVars(PollFile(c)) /\ WF_pipeVars(OnFileRead(c))
  /\ WF_pipeVars(OnWriteRes(c)) /\ WF_pipeVars(OnWriteError(c))
  /\ WF_pipeVars(Pollout(c)) /\ WF_pipeVars(Released(c))

FairSpec == Spec /\ Fairness

-----------------------------------------------------------------------------
(* What is checked.                                                         *)

TypeOK ==
  /\ proc \in ProcStates
  /\ tcp \in [Conns -> TcpStates]
  /\ pipe \in [Conns -> Pipes]
  /\ active \in [Conns -> BOOLEAN]
  /\ file \in [Conns -> Files]
  /\ burst \in [Conns -> 0..Batch]
  /\ queued \in [Conns -> Nat]
  /\ flushed \in [Conns -> Nat]

\* Every buffer read is written, or in flight: on_write_res compares two sums
\* (pipe-file.c:187) that differ by exactly the writes whose callbacks are due.
WritesAccounted ==
  \A c \in Conns : proc = "running" /\ tcp[c] = "open" =>
    pipe[c].nwritten + flushed[c] + queued[c] = pipe[c].nread

\* The callback gets status 0 only for a file that was sent as long as it was
\* announced, with no write left that could still refer to the freed record.
CompletionIsWhole ==
  \A c \in Conns : pipe[c].mem = "freed" =>
    pipe[c].nwritten = pipe[c].size /\ queued[c] = 0 /\ flushed[c] = 0

\* No callback of libuv is given memory that was released before.
MemorySafe == proc # "undefined"

\* The assertion of pipe-file.c:188, that all that was read and written is the
\* whole file, holds for files one poll event can read: whichever way the
\* callbacks of several transfers interleave, only a longer file can fail it.
OnlyLongFilesFail == proc = "assert_size" => \E c \in Conns : pipe[c].size > Batch

\* A transfer that starts ends with its connection closed and released, unless
\* the process stops before.
EveryTransferFinishes ==
  \A c \in Conns : (pipe[c].mem = "live") ~> (tcp[c] = "freed" \/ proc # "running")

\* Each transfer seen as the abstract one.
Outcome == [c \in Conns |-> IF pipe[c].mem = "freed" THEN "complete"
                            ELSE IF proc # "running" THEN "failed"
                            ELSE IF pipe[c].mem = "none" THEN "idle" ELSE "sending"]
Length == [c \in Conns |-> pipe[c].size]
Sent == [c \in Conns |-> pipe[c].nwritten + flushed[c]]

FT == INSTANCE FileTransfer WITH outcome <- Outcome, length <- Length, sent <- Sent

\* Pieces go out in file order, and a transfer is reported complete when
\* exactly the announced length is out; what a stop of the process cuts short
\* is never complete.
ImplementsFileTransfer == FT!Spec

-----------------------------------------------------------------------------
(* The inductive invariants behind these (StaticWebServerProofs).           *)

\* How handles and read loops follow the records.
Shape ==
  \A c \in Conns :
    /\ tcp[c] \in {"open", "closing", "freed"}
    /\ (tcp[c] = "open") <=> (pipe[c].mem # "freed")
    /\ pipe[c].mem # "live" => burst[c] = 0
    /\ pipe[c].mem = "none" => /\ pipe[c].size = 0 /\ pipe[c].nread = 0
                               /\ pipe[c].nwritten = 0 /\ ~active[c]
                               /\ queued[c] = 0 /\ flushed[c] = 0

\* Where every buffer read is, even while the connection closes.
Ledger ==
  proc # "undefined" =>
    \A c \in Conns : pipe[c].nwritten + flushed[c] + queued[c] = pipe[c].nread

\* What was read and what is left make up the announced length.
Remainder ==
  \A c \in Conns : pipe[c].mem # "none" => pipe[c].nread + file[c].left = pipe[c].size

\* A file that fits in a poll event is read by the first one, to its end.
OneBurst ==
  \A c \in Conns : proc = "running" /\ pipe[c].mem = "live" /\ pipe[c].size <= Batch =>
    IF burst[c] > 0 THEN burst[c] + pipe[c].nread = Batch
                    ELSE pipe[c].nread = 0 \/ file[c].left = 0
=============================================================================
