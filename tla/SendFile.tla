------------------------------ MODULE SendFile ------------------------------
(***************************************************************************)
(* examples/send-file/main.c, one connection: each read of the request     *)
(* starts a stat, its callback makes a file_tcp_pipe_t, hangs it off the   *)
(* connection and writes the headers, and the callback of that write       *)
(* starts the reads of the file.  Lengths are in buffers of BUFSIZE; libuv *)
(* reads at most Batch of them in one poll event.                          *)
(*                                                                         *)
(* Unlike in PipeFile the writes of one connection may belong to several   *)
(* records, so they are kept as a queue: its first `taken` entries are     *)
(* with the kernel and await their callback, the others are not.           *)
(***************************************************************************)
EXTENDS Naturals, Sequences, FiniteSets

CONSTANTS
  Lengths,    \* lengths of the file that is sent
  Batch,      \* reads in one poll event
  MaxReads,   \* reads a request may arrive in
  Faults      \* see FaultKinds

\* "eof": the client half-closes early; "reset": it vanishes; "nostat": there is
\* no file; "noopen": it cannot be opened; "brim": its last buffer is full;
\* "dirty": malloc returns memory that is not zero; "again", "ioerror": a read of the
\* file finds nothing, or fails; "failed", "refused": on_connect is called with an
\* error, or uv_accept returns one.
FaultKinds == {"eof", "reset", "nostat", "noopen", "brim", "dirty",
               "again", "ioerror", "failed", "refused"}

ASSUME LengthsNat == Lengths \subseteq Nat
ASSUME BatchPositive == Batch \in Nat \ {0}
ASSUME MaxReadsNat == MaxReads \in Nat \ {0}
ASSUME FaultsKnown == Faults \subseteq FaultKinds

Ids == 1..MaxReads
Kinds == {"headers", "data"}

VARIABLES
  proc,       \* "running", or how the process stopped
  tcp,        \* the connection's handle
  data,       \* tcp->data, the id of a record or 0
  reads,      \* reads of the request so far
  stats,      \* stat requests in flight
  pipe,       \* [Ids -> Pipes], file_tcp_pipe_t and its file_pipe
  length, brim,    \* of the file
  burst,      \* [Ids -> 0..Batch], reads left in the current poll event
  writes,     \* Seq([kind : Kinds, id : Ids]), write requests in flight
  taken,      \* how many of them the kernel took
  wire        \* [Kinds -> Nat], what the kernel took so far

vars == <<proc, tcp, data, reads, stats, pipe, length, brim, burst, writes, taken, wire>>
fileVars == <<length, brim>>

Pipes == [mem : {"none", "live", "freed"}, open : BOOLEAN, reading : BOOLEAN,
          nread : Nat, nwritten : Nat, size : Nat, left : Nat]
NoPipe == [mem |-> "none", open |-> FALSE, reading |-> FALSE,
           nread |-> 0, nwritten |-> 0, size |-> 0, left |-> 0]

\* on_connect has run.  A connection it could not accept it closes, with a
\* callback that finds no record to free, and so frees nothing.
Init ==
  /\ \/ proc = "running" /\ tcp = "open"
     \/ "failed" \in Faults /\ proc = "exited" /\ tcp = "open"     \* CHECK(status)
     \/ "refused" \in Faults /\ proc = "running" /\ tcp = "dropping"
  /\ data = 0 /\ reads = 0 /\ stats = 0
  /\ pipe = [p \in Ids |-> NoPipe]
  /\ length \in Lengths /\ brim \in {FALSE, "brim" \in Faults}
  /\ burst = [p \in Ids |-> 0]
  /\ writes = <<>> /\ taken = 0 /\ wire = [k \in Kinds |-> 0]

LoopFree == proc = "running" /\ \A p \in Ids : burst[p] = 0
Stop(how) == proc' = how /\ UNCHANGED <<tcp, data, reads, stats, pipe, fileVars, burst, writes, taken, wire>>

\* uv_write: at once if the kernel took all before it; on a closed handle the
\* error is ignored and no callback comes.  The request refers to tcp->data.
Write(kind, id) ==
  \/ /\ tcp = "open" /\ taken = Len(writes)
     /\ writes' = Append(writes, [kind |-> kind, id |-> id])
     /\ taken' = taken + 1
     /\ wire' = [wire EXCEPT ![kind] = @ + 1]
  \/ /\ tcp = "open"
     /\ writes' = Append(writes, [kind |-> kind, id |-> id])
     /\ UNCHANGED <<taken, wire>>
  \/ /\ tcp # "open"
     /\ UNCHANGED <<writes, taken, wire>>

\* Every read of a request, not every request, starts a response (stat_file).
OnReqRead ==
  /\ LoopFree /\ tcp = "open"
  /\ \/ /\ reads < MaxReads
        /\ reads' = reads + 1 /\ stats' = stats + 1
        /\ UNCHANGED tcp
     \/ /\ "eof" \in Faults
        /\ tcp' = "dropping"
        /\ UNCHANGED <<reads, stats>>
  /\ UNCHANGED <<proc, data, pipe, fileVars, burst, writes, taken, wire>>

\* init_file_tcp_pipe, which does not look at what opening the file returned
NewPipe(opened) == [NoPipe EXCEPT !.mem = "live", !.open = opened, !.size = length, !.left = length]

OnFileStat ==
  /\ LoopFree /\ stats > 0
  /\ \/ "nostat" \in Faults /\ Stop("exited")
     \/ tcp = "freed" /\ Stop("undefined")
     \/ LET p == 1 + reads - stats IN
        /\ tcp # "freed"
        /\ stats' = stats - 1
        /\ \E opened \in {TRUE, "noopen" \notin Faults} :
             pipe' = [pipe EXCEPT ![p] = NewPipe(opened)]
        /\ data' = p
        /\ Write("headers", p)                     \* write_headers
        /\ UNCHANGED <<proc, tcp, reads, fileVars, burst>>

\* The callback of the oldest write the kernel took.
CalledBack ==
  /\ LoopFree /\ taken > 0
  /\ writes' = Tail(writes) /\ taken' = taken - 1
  /\ UNCHANGED <<data, reads, stats, fileVars, burst, wire>>

\* pipe_file starts the reads of the record tcp->data refers to by now.
OnHeadersSent ==
  /\ CalledBack /\ Head(writes).kind = "headers"
  /\ IF pipe[data].open THEN pipe' = [pipe EXCEPT ![data].reading = TRUE] /\ UNCHANGED proc
                        ELSE proc' = "assert_fd" /\ UNCHANGED pipe
  /\ UNCHANGED tcp

PollFile(p) ==
  /\ LoopFree /\ pipe[p].reading /\ pipe[p].left > 0
  /\ \/ pipe[p].mem = "freed" /\ Stop("undefined")
     \/ /\ pipe[p].mem = "live"
        /\ burst' = [burst EXCEPT ![p] = Batch]
        /\ UNCHANGED <<proc, tcp, data, reads, stats, pipe, fileVars, writes, taken, wire>>

\* libuv leaves its read loop early when the buffer was not filled.
ReadsLeft_ToEnd(p) == burst[p] - 1
ReadsLeft(p) == IF pipe[p].left = 1 /\ ~brim THEN 0 ELSE burst[p] - 1

BufferRead(q) == [q EXCEPT !.nread = @ + 1, !.left = @ - 1]

ReadLoop(p) == proc = "running" /\ burst[p] > 0

\* The read counts in the record of its file, the write in that of tcp->data.
OnFileData(p) ==
  /\ ReadLoop(p) /\ pipe[p].left > 0
  /\ pipe' = [pipe EXCEPT ![p] = BufferRead(@)]
  /\ burst' = [burst EXCEPT ![p] = ReadsLeft(p)]
  /\ Write("data", data)                          \* write_data
  /\ UNCHANGED <<proc, tcp, data, reads, stats, fileVars>>

\* "oddly this never hits" (main.c:190), but it does for a file that fills its
\* last buffer: uv_close is given the address of a local variable.
OnFileEof(p) == ReadLoop(p) /\ pipe[p].left = 0 /\ Stop("eof")

\* UVERR prints, and nothing else happens.  libuv polls on after a read that found
\* nothing, and stops reading a file after an error.
OnFileError(p) ==
  /\ ReadLoop(p)
  /\ \/ "again" \in Faults /\ UNCHANGED pipe
     \/ "ioerror" \in Faults /\ pipe' = [pipe EXCEPT ![p].reading = FALSE]
  /\ burst' = [burst EXCEPT ![p] = 0]
  /\ UNCHANGED <<proc, tcp, data, reads, stats, fileVars, writes, taken, wire>>

OnFileRead(p) == OnFileData(p) \/ OnFileEof(p) \/ OnFileError(p)

Done_Early(q) == q.nwritten + 1 >= q.nread
Done_Never(q) == q.nwritten > q.nread
Done(q) == q.nwritten = q.nread

SizeAsserted_Dropped(q) == TRUE
SizeAsserted(q) == q.size = q.nread

\* nwritten += buf.len, once per callback
Counted_Twice(q) == [q EXCEPT !.nwritten = @ + 2]
Counted(q) == [q EXCEPT !.nwritten = @ + 1]

OnWriteRes ==
  /\ CalledBack /\ Head(writes).kind = "data"
  /\ LET p == Head(writes).id
         q == Counted(pipe[p])
     IN  /\ pipe' = [pipe EXCEPT ![p] = q]
         /\ \/ ~Done(q) /\ UNCHANGED <<proc, tcp>>
            \/ Done(q) /\ ~SizeAsserted(q) /\ proc' = "assert_size" /\ UNCHANGED tcp
            \/ Done(q) /\ SizeAsserted(q) /\ tcp = "open" /\ tcp' = "closing" /\ UNCHANGED proc
            \/ /\ Done(q) /\ SizeAsserted(q) /\ tcp # "open"
               /\ proc' = "assert_close" /\ UNCHANGED tcp

\* A write cancelled by the handle's closing, or failed by the client's going.
OnWriteError ==
  /\ LoopFree /\ taken < Len(writes)
  /\ tcp # "open" \/ "reset" \in Faults
  /\ Stop("exited")

\* The client made room for the next write.
Pollout ==
  /\ LoopFree /\ tcp = "open" /\ taken < Len(writes)
  /\ taken' = taken + 1
  /\ wire' = [wire EXCEPT ![writes[taken + 1].kind] = @ + 1]
  /\ UNCHANGED <<proc, tcp, data, reads, stats, pipe, fileVars, burst, writes>>

\* free_file_tcp_pipe for the record of tcp->data, and with it the connection.
\* Its file_path was never set.
FileAtEnd(p) == [pipe[p] EXCEPT !.mem = "freed"]

OnResEnd ==
  /\ LoopFree /\ tcp = "closing" /\ writes = <<>>
  /\ \/ "dirty" \in Faults /\ Stop("bad_free")
     \/ /\ tcp' = "freed"
        /\ pipe' = [pipe EXCEPT ![data] = FileAtEnd(data)]
        /\ UNCHANGED <<proc, data, reads, stats, fileVars, burst, writes, taken, wire>>

\* libuv: a handle that was closed with nothing to free is done, and stays allocated.
OnDropped ==
  /\ LoopFree /\ tcp = "dropping" /\ writes = <<>>
  /\ tcp' = "dropped"
  /\ UNCHANGED <<proc, data, reads, stats, pipe, fileVars, burst, writes, taken, wire>>

Over == (proc # "running" \/ tcp \in {"freed", "dropped"}) /\ UNCHANGED vars

Next ==
  \/ OnReqRead \/ OnFileStat \/ OnHeadersSent \/ OnWriteRes \/ OnWriteError
  \/ Pollout \/ OnResEnd \/ OnDropped \/ Over
  \/ \E p \in Ids : PollFile(p) \/ OnFileRead(p)

Spec == Init /\ [][Next]_vars

\* uv_run calls back what is ready and the client reads its response; the reads
\* that find nothing do not go on for ever.
Fairness ==
  /\ WF_vars(OnFileStat) /\ WF_vars(OnHeadersSent) /\ WF_vars(OnWriteRes)
  /\ WF_vars(OnWriteError) /\ WF_vars(Pollout) /\ WF_vars(OnResEnd) /\ WF_vars(OnDropped)
  /\ \A p \in Ids : WF_vars(PollFile(p)) /\ SF_vars(OnFileData(p) \/ OnFileEof(p))

FairSpec == Spec /\ Fairness

-----------------------------------------------------------------------------
(* What is checked.                                                         *)

\* A response is closed by the server only when the client was given the headers
\* once, and then the whole file.  For a request that arrived in one read, like
\* the properties after it: main.c:104 starts a response for every read.
InOneRead == reads <= 1

ResponseIsWhole ==
  InOneRead /\ tcp \in {"closing", "freed"} => wire = [headers |-> 1, data |-> length]

\* After the headers the file of a record is read, until a read of it fails:
\* on_file_read (main.c:196-198) leaves such a response as it is.
LeftUnread(p) ==
  /\ pipe[p].mem = "live" /\ ~pipe[p].reading
  /\ \A i \in DOMAIN writes : writes[i].kind # "headers"

\* A request that was read is answered, and connection and record are released,
\* if the client did not half-close, no check or assertion stopped the server, and
\* no read of the file failed.
RequestEnds ==
  (reads > 0) ~> \/ tcp = "freed" /\ pipe[1].mem = "freed"
                 \/ ~InOneRead \/ tcp = "dropped" \/ proc # "running" \/ LeftUnread(1)

\* Buffers 1..count[p] of the file of each record p, and the writes of file data
\* that have not been called back.
Buffers(count) == UNION {{p} \X (1..count[p]) : p \in Ids}
BuffersRead == Buffers([p \in Ids |-> pipe[p].nread])
BuffersWritten == Buffers([p \in Ids |-> pipe[p].nwritten])
DataWrites == {i \in DOMAIN writes : writes[i].kind = "data"}

\* However many records a connection ends up with, a buffer read for one of them
\* is written off for one of them: none is lost while the connection is open.
WritesAccounted ==
  proc = "running" /\ tcp = "open" =>
    Cardinality(BuffersRead) = Cardinality(BuffersWritten) + Cardinality(DataWrites)
=============================================================================
