# Models of the libuv-dox programs

libuv-dox documents libuv v0.11 with one small program per feature.  The
programs are what is verified here: their callbacks, threads and hand-made
memory management, under everything libuv, the kernel, the clients and the
scheduler may do to them.  The markdown files at the root (`methods.md`,
`types.md`, `callbacks.md`) are prose about libuv; they are quoted where a
program departs from them.  libuv, http-parser and pthreads are not in the
repository: what the programs rely on is modelled from how they use it and is
marked `external` in PROJECT.json.

## 1. The parts of the system

The programs are independent of each other, but they are made of the same
pieces: a loop that calls back, handles and requests whose memory the program
keeps, and, in some, a second thread.

| part | state it keeps | operations | what makes it correct |
|---|---|---|---|
| `static-web-server/pipe-file.c` | `file_tcp_pipe_t` (counts, size, the file's handle) hung off `tcp->data`; writes in flight | `sws_pipe_file`, `on_file_read`, `on_write_res`, `file_tcp_pipe_end` | status 0 only for a whole file; the record outlives the writes that refer to it; every transfer ends |
| `static-web-server/main.c` | `sws_handle_req_t`: handle, parser, path, result | `on_connect`, `on_req_read`, `on_parse_complete`, `on_resolve_resource`, `on_pipe_file_complete`, `on_res_end` | one request at a time per connection; a connection is freed once nothing comes back to it |
| `static-web-server/resolve-resource.c` | the path and result of the connection, a stat request of its own | `sws_resolve_resource_start`, `fs_stat_cb` | the path a stat was made for is the path that is opened |
| `static-web-server/request-parser.c` | url, field, value pointers; an array per known header | the callbacks given to http-parser; `sws_cleanup_parse_req` | the result is the message; what is freed was allocated |
| `send-file` | one record per read of a request, `tcp->data` | `on_req_read` to `on_res_end` | headers once, then the whole file |
| `10-locks`, `10-locks-try` | `shared_num`, a read-write lock, a barrier | `reader_entry`, `writer_entry`, `main` | no increment is lost; the lock is destroyed after its last use |
| `11-queue-work`, `12-queue-cancel` | requests in the frame of `main()`, the loop's count, a signal handle | `uv_queue_work`, `work_cb`, `after_work_cb`, `signal_cb` | each request is executed at most once and reported once; the frame outlives them |
| `13-progress` | a local variable of the worker that the loop reads | `work_cb`, `progress_cb`, `after_work_cb` | progress is shown, in order, from memory that is there |
| `05-tcp-echo-server`, `19-pipe-echo-server`, workers of `20-multi-echo-server` | buffers and writes of each connection | `connection_cb`, `read_cb`, `write_cb` | a client gets its own bytes back, all, in order |
| `20-multi-echo-server` (master) | workers, their pipes, whose turn it is | `setup_workers`, `connection_cb`, `on_exit`, the workers' `connect_cb` | turns are kept; a connection is lost only with a worker |
| `03-uvtee`, `-all-async`, `-reuse-buf`, `02-uvcat` | the buffers and writes between one input and its outputs | `open_cb`, `read_cb`, `write_cb`, `close_cb` | the output is the input, in order and once; an end with copies still queued is the only thing that may stop them |
| `14-spawn`, `15-detach`, `17-proc-streams`, `18-cgi` | one `uv_process_t`; in `18-cgi` the connections that use it in turn | `uv_spawn`, `on_exit`, `connection_cb` | a connection is closed after its own child; the program waits for what it refers to |
| `16-signal` | two threads, three loops, four signal handles | `thread1_entry`, `thread2_entry`, `signal_cb` | the process lives until every handle has called back |
| `01-idle-basic`, `21-uvstop`, `22-ref-timer`, `23-idle-compute`, `27-tty-gravity` | idle handles, timers, a read of a line, one write request | the callbacks, and the rounds of `uv_run` | each callback comes as often as the program counts on; the program ends |
| `06-udp-dhcp` | a sending and a receiving socket | `send_cb`, `recv_cb` | one offer is read, and nothing behind it |
| `07-dns`, `26-tty`, `09-thread-create`, `04-onchange`, `25-plugin`, `08-interfaces`, `sync-calls`, `24-uvwget`, `.scaffold` | | | not modelled, see section 6 |

How they interact:

* inside the web server, `main.c` calls the parser from its read callback; the
  parser calls `on_parse_complete` back; that starts a stat in the thread pool;
  its callback starts a transfer; the end of the transfer closes the connection.
  Everything runs on one loop, so a callback is never interrupted, but between
  two callbacks of a connection any callback of another one, and of the kernel's
  and the client's doing, may come;
* in the other servers the same holds with fewer stages;
* the master of `20` and its workers are processes that share pipes: a handle is
  queued by libuv, then by the kernel, then received;
* in `10`, `11`, `12` and `13` threads share memory: under a lock, through the
  pool's queues, or, in `13`, with no protection at all; those of `16` share the
  process's signals;
* children of `18` write to a connection that their parent closes, and the only
  link between the two is the data of a handle.

Behaviour that is hard to test, and is modelled: interleavings of callbacks of
several connections; libuv's read loop, which reads only so much per poll
event; writes that the kernel takes at once, later, in part or never; clients
that reset, half-close, or send on; files that vanish, grow or shrink between
stat and end; reads that cut a message anywhere; preemption between a load and
a store; each `uv_cancel` of a loop against the workers; sends that coalesce; a signal at
any moment, twice; workers that stop with connections on their way to them, and
what a write to their pipes then does to the master; outputs
that fall behind their input; children that overlap; timers that are late; reads
that find nothing.

## 2. The modules

Each variable and action carries the name it has in the code where TLA+ allows
it, and PROJECT.json maps each to its lines.

**FileTransfer**: what a caller of `sws_pipe_file` is promised, as a
specification of its own: begin, deliver in order, complete with exactly the
announced length, or fail for good.

**PipeFile** (`pipe-file.c`, with the two callbacks of `main.c` that always go
with it): `pipe[c]` is the record of connection `c`, `tcp[c]` its handle,
`queued`/`flushed` count its writes that the kernel has not taken, and those it
has taken whose callback is due.  Lengths are counted in buffers of the size
`alloc_cb` gives.  `PollFile` begins a poll event in which libuv makes up to
`Batch` reads (32 in libuv, 2 in the runs: what matters is a file that fits and
one that does not); `OnFileRead` is one call of `on_file_read`; while such an
event is under way nothing else runs (`LoopFree`).  `OnWriteRes` is the whole of
`on_write_res`, with the sums, the assertion, `file_tcp_pipe_end`, the callback
`on_pipe_file_complete` and the `uv_close` in it.  What `CHECK` and `assert` do
is a value of `proc`, and a callback that is given released memory makes it
`"undefined"`.

**StaticWebServer** (`main.c`, `resolve-resource.c`) extends PipeFile by the
stages before a transfer: `OnConnect`, `OnReqRead` (with `OnParseComplete` in
it), `OnStat`.  A url is represented by the length of its file, or `Missing`;
`stats[c]` counts the stat requests in flight, which point into the memory of
the connection.  `asked[c]` counts messages, well formed or not: the server is
written for one per connection, and the properties say so where it matters
(`Single`).  Of the parser, which RequestParser has in full, two outcomes reach
the process and are here too: a read that ends in or behind a header line may
fail the assertion of `request-parser.c:132` (`"assert_header"`), and
`sws_cleanup_parse_req`, which `on_res_end` calls, frees `url`, `field` and
`value`, of which `unset[c]` says that no header line has set them yet
(`OnResEnd` of PipeFile, outcome `"bad_free"`).  `MCStaticWebServer`
bounds the messages, two on one connection and one on the others: a second one is
the exception of most properties, and one connection that sends it is enough to
disturb another.

**RequestParser** (`request-parser.c`): a message is a sequence of tokens, a
token a sequence of pieces; `Execute` is one callback of http-parser, for a
token or for a part of it that a read cut off.  A read that ends right behind a
token gives the whole of it and then a part of length 0, which resets `field_len`
like any other.  Memory that `malloc` returned is
`Garbage`, as `sws_req_parser_init` clears none.  `MCRequestParser` gives TLC the
requests; `Says` is the reference definition the result is compared with.

**SendFile** (`send-file/main.c`): one connection.  Because every read starts a
response, its writes may belong to several records, so they are a queue.
`on_connect` runs before the first state, which says whether it succeeded.  A call
of `on_file_read` is `OnFileData`, `OnFileEof` or `OnFileError`; the last is
`main.c:196-198`, which prints and leaves the response as it is.

**Locks** (both lock programs): `shared_num++` is `Load` and `Store`, each under
`Lock`/`Unlock`; `Retry` is the loop round a try function that returned
`UV_EBUSY`; `Main` destroys barrier and lock.  The behaviours without `Retry`
are those of the waiting program.

**WorkRequests** / **WorkQueue** (`11`, `12`): the first is the contract of
`uv_queue_work` and `uv_cancel`; the second the programs, with the workers of the
pool as processes and SIGINT at any time.  `OnSignal` enters `signal_cb`, each
`Cancel` is one `uv_cancel` of its loop, under the pool's lock, and `SignalStop`
ends it; `at` is the loop's counter, and between two of its steps workers take
requests and finish them.  `OnSignal` may also be undefined, because its handle is
a local variable of a function that returned.

**UvStream** (external): write requests of a stream, which the kernel takes in
order and in pieces, and each of which is called back once.  EchoServer has a
stream per connection, Copy one per output.

**Echo** / **EchoServer** (`05`, `19`, workers of `20`): the first says what a
client may see; the second is both programs, with `program` choosing the
callbacks that differ.

**MultiEcho** (`20`): the master spawns workers, accepts and hands over; each
worker takes connections out of its pipe and serves them, or stops.  `unsent`
and `pipe` are the two queues a handle passes, `given` remembers whom the master
chose.  A write to a worker that is gone raises SIGPIPE, which nothing ignores:
`SigPipe` kills the master, in `uv_write2` or later in `Pollout`.  What a worker does
with the bytes of a connection is EchoServer's.

**SmallPrograms** composes the modules of the remaining programs.  In a behaviour
one of them runs (`program`, of **Example**, with the faults around it), and the
state of the others stays as it is; an action of each module says so by
`Runs(p)`.

* **Progress** (`13`): the worker's assignments and the loop's read of the same
  variable are steps of their own.  `late` remembers that the loop let a send lie
  for a whole `sleep(1)`.
* **Copy** (`03-uvtee` three times, `02-uvcat`): bytes are numbered, so that order
  and loss can be seen.  A tee reads what there is and writes it twice; `stage`
  becomes `"closing"` at the end of its input, and `"failed"` when libuv stopped
  reading after an error that `read_cb` ignores.  `lossy` is set where the code
  goes on after an open that failed or a short write.
* **Children** (`14`, `15`, `17`, `18`): `handle` and `kid` are `child_req`, `hdata`
  its data.  `UvSpawn` on a handle in use is undefined in libuv; it is modelled by
  both outcomes, because with some process ids nothing visible happens, and it is
  in those behaviours that `on_exit` must close the right connection.
* **Signals** (`16`): a signal goes to the loops of all started handles, where it
  waits; `LoopRuns` says which loop a thread is in, of the two that the second
  thread runs in turn.
* **Loops** (`01`, `21`, `22`, `23`, `27`): `phase` is where `uv_run` is in its round.
  A poll may end late, by as much as a repeat of the program's timer.
* **Dhcp** (`06`): `reading` is libuv's loop over the socket, which nothing else of
  the program interrupts.

**StaticWebServerProofs** (of PipeFile, StaticWebServer and RequestParser),
**SendFileProofs**, **LocksProofs**, **WorkQueueProofs**, **EchoServerProofs**,
**MultiEchoProofs** and **SmallProgramsProofs** hold the theorems, and
**StreamTheorems** the lemmas about UvStream and about sequences of sequences that
two of them need.

## 3. The runs

| run | what it asks | bounds |
|---|---|---|
| `pipe_file` | Is success reported only for whole files, is no freed memory used, does only a file longer than a poll event fail the size assertion, does every transfer end, is FileTransfer implemented? | two connections, files of 1 to 3 buffers, 2 reads per event; failing opens, reads and writes |
| `pipe_faults` | Is no write ever lost from the sums `on_write_res` compares? | the same with empty reads and files that change |
| `sws_server` | Is a connection released only when nothing will come back to it, has a request one stage at a time, does nothing but a CHECK stop the server, apart from the exceptions of section 5, is every request answered? | two connections, one of which may send a second message, files of 2 and 3 buffers, 2 reads per event, messages that are malformed, have no header lines or are cut by a read, clients that hang up, fail or are refused, reads, writes and opens that fail |
| `parser` | Is a message that no read cut parsed as the reference says, does only a read that ends in or behind a header line fail the assertions? | one or two messages of up to two header lines, every cut of every token, also right behind it |
| `send_file` | The same questions as for the web server, of the older program | files of 1 to 3 buffers, 2 reads per event, a request in one or two reads, a failed connection, every fault |
| `locks` | No lost update, no use after destroy, termination | two readers, two writers, two rounds |
| `queue` | Does the frame of `main()` outlive its requests, is nothing begun that the loop of `signal_cb` has passed, is the contract kept, does the program end? | four requests, two workers, two signals |
| `echo` | Does a client see its own bytes only, in order and once, are buffers accounted for, writes successful, does a client that waits get all of its echo? | a client of 3 bytes, reads of 2, every fault, SIGINT |
| `multi_echo` | Are turns kept, is a connection lost only with its worker, or all of them after the loss of one, is every other one served? | four connections, three workers, every fault |
| `small_programs` | Do copies keep the order, and does only an output that is behind stop a tee?  Is what a download sent shown, in order, and read from memory that is there?  Is a connection closed after its own child, is a signal, a line, a tick, an offer answered once?  Does every program end? | sixteen programs, every fault; 10 bytes in pieces of 0, 1 or 3; 3 bytes of input in reads of 2; three connections; two signals, lines and offers; a tty of two lines; a job after five repeats |
| `parser_cut_value` | the assertions of `request-parser.c:132-133` | one message, values cut: **violated** |
| `echo_junk` | "nread is > 0 if there is data available" | one client of the pipe server: **violated** |

The bounds are small because the code's cases are few: a poll event that reads a
file to its end and one that does not (`Batch` 2 against lengths up to 3), a
buffer that is filled and one that is not, one connection's callbacks between
two of another (two connections), a first and a second message, a request that
a worker holds and one that waits (more requests than workers), a reader and a
writer that are not alone of their kind.  Connections of the echo servers share
nothing but the process, so one is checked.  Four connections for three workers
wrap the round robin once and put two connections into one pipe.  Three bytes in
reads of two make two copies that an output may take in three pieces; the third
connection of `18-cgi` meets a handle that a second one has taken over.  Properties whose
statement has an exception name it (`OnlyLongFilesFail`, `OnlyCutLinesFail`,
`StopsOnlyBehind`, `Single`, `late`, `lossy`, `InOneRead`): the exception is where the code
departs from what it asserts, and all else is covered.

Deadlock is checked in every run; a program that is over, or a loop that polls,
stutters by an action of its own.

### Fairness

`uv_run` calls back everything that is ready before it polls again, so each
callback is weakly fair (in StaticWebServer, weaker still, those of a connection as a
whole); a worker thread is scheduled and `work_cb` returns; a
client that stays reads what it is sent (`Pollout`), without which no transfer
could end.  Nothing is assumed of what clients send or when they leave, of
signals, or of faults.  In SendFile the reads of a file that yield something are
strongly fair: a poll that finds nothing (`"again"`) does not recur for ever while
the kernel says that there is data.  In Locks each thread is weakly fair only: a thread is
given the lock only if it stays free, which no run relies on for more than it
should (`ROUNDS` is finite, so contention ends).  Progress needs one strong
assumption: `random()` does not yield an empty piece for ever.  In SmallPrograms
the steps of each program's loops and threads are fair as a whole, together with
the outputs of the tees, which somebody reads; in Progress each step is fair.
The children of `14`, `17` and `18` exit, as `mkdir`, `test` and `tick` do;
that of `15-detach` need not, nor need anybody type, answer, connect or send a
signal: `EveryProgramEnds` says what a program ends *after*.

The platform is one where libuv uses kqueue (`sys/syslimits.h` is included): a
regular file is reported readable only while data is left.  libuv v0.11.17
reads at most 32 buffers per event and leaves its loop after a short read;
`uv_close` asserts that the handle is not closing; a `uv_write` on a closed
handle fails without a callback; writes not taken at close are called back with
`UV_ECANCELED`.  Writing to a pipe whose other end is closed raises SIGPIPE, whose
default is to kill the process.

## 4. What is proved

The theorems hold for any number of connections, threads, workers, requests and
rounds, and any lengths; TLC shows each on a small instance first.

**StaticWebServerProofs, transfers.**  `TypeCorrect` for all faults.  `Books` is
TypeOK with `Shape` (the handle is open exactly while the record is not freed, and
a read loop runs only on a live record) and `Ledger` (written + due + queued = read,
also while the connection closes); it is inductive for all faults and gives
`EveryReadIsAccounted`.  `WritesAccounted` alone is not inductive: it says
nothing of a handle that is closing, whose writes are called back later.
`CompletionMeansWhole` needs `"again" \notin Faults` (see below), and, with
`Remainder` (read + left = announced, which needs files that keep their length),
gives `NoUseAfterFree`.  `SizeAssertionSound` adds `OneBurst`: a file of at most
`Batch` buffers is untouched or read to its end whenever a write callback runs,
so the sums can meet only at the end.  `PipeFileRefines`: Spec implements
FileTransfer under the mapping at the end of PipeFile, where a buffer counts as
sent when the kernel has it.

**StaticWebServerProofs, connections.**  `Stages` says where the only request of a
connection is: not sent yet, in one stat, whose path is that of the connection, or
in a record.  It is inductive for all faults and any clients (the exception
`Single` is in it, as a count of messages never shrinks) and gives `OneOwner`; the
steps of a transfer need only `PipeStepFrame`, that they belong to one connection
and neither begin a transfer nor forget one.  `FreedWhenIdle` adds `Measure` (read +
left = announced) and `Ending` (a connection closed with `on_res_end` has no stat,
and nothing left to read), for files that keep their length and without `"again"`:
`on_write_res` closes only when its sums are those of the whole file.
`ReleasedWhenIdle` alone is not inductive, since a connection becomes free some
steps after the one that closed it.  `OnlyClientsStopIt` adds `Orderly`, for
connections whose client sends one message and does not half-close first: the
handle follows the record, it closes only after a message, and all reads of a file
come before its first write callback, if it fits in one poll event.  A longer file
can fail the size assertion, the parser can fail its own on a read from an open
connection, and the release of a closing connection can free what no header line
has set; the property excepts these three, and nothing else stops the process.

**StaticWebServerProofs, parser.**  `OnlyCutsFail`: as long as no read ended in a
value, or right behind it or a field, what is left of a message has every field next
to its value (`Paired`) and the field at hand has been copied, with a length above
0, when its value comes (`FieldFirst`).  A read that ends inside a field is harmless
to the assertion, if not to the result.  `ParsesWhatWasSent`: the
result is the reference `Says`.  Its invariant `Whole`: what is left is the end of
the request (`Ahead`), the pointers are to the last token of their kind
(`Pointers`), and each array holds the value of the last line *read so far* that has
its name (`Answered`).  Both assume what http-parser guarantees: names of header
lines are not empty (`RequestsKnown`).

**SendFileProofs.**  `WholeResponses`, for all faults: `Records` (records are made in
the order of their stats, and a write belongs to one of them) and `Response`, the
stages of a response to a request in one read: nothing, headers first, dropped
unanswered, or headers out and every buffer read written or in flight.
`NoWriteIsLost` has no such restriction: however many records a connection ends up
with, the buffers read for them are those written for them and those in its
queue.  The sum over the records is a cardinality of a set of pairs (record,
buffer), so that each step adds or removes one element.

**LocksProofs.**  `IInv` joins exclusion with `LockState` (the lock is held by
exactly those inside), `BarrierState` (who arrived is past the last round) and
the count of increments.  No lost update needs exclusion *and* that a loaded
value is current; the last round needs both with the barrier.  From it:
`TypeCorrect`, `WritersAreAlone`, `ValuesAreCurrent`, `IncrementsAreKept`,
`DestroyedWhenUnused`.

**WorkQueueProofs.**  `IInv`: a request is in one place only (`Apart`), what was
queued is in hand or reported (`Covered`), and the count is exact.  From it:
`TypeCorrect`, `CountsAreExact`, `FrameIsSafe`, and `KeepsContract`, the
refinement of WorkRequests, with signals at any time and workers between any two
`uv_cancel`s.  `CancelStopsTheRest` adds `Quenched`: no request that the loop of
`signal_cb` has passed waits for a worker, and once the loop is through none does,
or ever will, as `main()` is past the loop that queues when a signal is first called
back.  A request the loop has yet to come to may still be begun, and is then
finished.

The assumptions on constants are those the modules name: finite sets of
connections and threads, natural lengths, at least one read per event.

**StreamTheorems.**  A stream's bytes are what its requests make up when they are
flattened.  The lemmas say that `FlattenSeq` of an appended, shortened or
concatenated sequence is the concatenation (`FlattenConcat` and its special
cases, all from `JoinAssociative`), that what a stream was given is what it has taken followed by what is
queued (`Written`), and which of the three actions of UvStream changes it:
`WriteAdds`, `TakenKeeps`, `RefusedDrops`, `CalledBackDrops`, `CloseCancels`.
`CountGrows` and `CountPrefix` say when such a sequence counts 1, 2, 3, ... still.
The library's induction theorems take an operator and cannot be used here;
`Induction` takes a set instead, and is proved from the well-foundedness of `<`: the
least number outside the set has a predecessor in it.

**EchoServerProofs.**  `BuffersBelongToWrites`: the count of buffers of an open
connection is that of its writes that are queued or due.  It needs `StreamTypes`
(the queues are sequences, so that a partly taken request counts as one) and
`NoneYet` (nothing is allocated before a connection is accepted).
`PatientClientsAreServed` and `ServersEcho`, the refinement of Echo, come from
`EchoInv`, which says of each connection what it is owed (`Owed`: what was written
to it are the bytes read from it, in order, as long as it lasts), what it has
(`Returned`: the first of the bytes it sent), why a write of it failed
(`WhyFailed`), and that a client which was patient has all of its echo.  `Owed` is
the part that neither property states: only with the bytes still queued do the
bytes returned say anything about the next ones.

**MultiEchoProofs.**  `Exact`: a connection of a worker that runs is once in one of
its two queues, or served, or over, which gives half of
`LostWithWorkerOnly`; `Spawned` the other: the master listens only when all
workers were started, so that one which does not run has stopped, and a write to it is
what kills the master.  `Turns`: up to
the worker whose turn it is, each has had k + 1 turns, the others k, which gives
`TurnsAreKept` for any number of workers.

**SmallProgramsProofs.**  A theorem about one program is a theorem of the whole
composition: the lemmas `...Only` and `...Steps` say that a step is one of that
program's module or leaves its state alone.  `ProgressInv` (a send that no sleep
has passed by points at a percentage that is there; shown is at most what is
computed, and that at most what is downloaded) gives `PercentageIsThere` and
`PercentagesGrow`; `ChildrenInv` (while the handle is in use, its data is the
connection of the child it stands for) gives `ClosedByItsChild`, whose point is
that a second connection moves *both*; `SignalsInv` (who has left its loops has
only handles that called back) gives `AliveUntilAllCalled`; `ComputeInv` (where in
a round the computation of the last prompt is still to come) gives
`ComputesOncePerInput`; `WriteInv` (the write of a tick is called back before the
next is due) gives `WriteRequestIsFree`; `DhcpInv` gives `ReadsOneOffer`.
`CopyInv` gives `CopiesEverything` and `AssertsOnlyBehind` for inputs of any length:
the copies written to an output that did not fail are the bytes read so far
(`InOrder`), whether the output has taken them or not; an output never has more than
was read (`NeverAhead`); `02-uvcat` uses its one buffer for one write at a time
(`OneAtATime`); and a write is cancelled only when all has been read, and its output
lacks a byte of it (`CancelledBehind`), as no request left in a queue is empty.

Only model-checked is liveness, which TLAPS cannot reach with fairness and
`ENABLED`: `EveryTransferFinishes`, `EveryRequestAnswered`, `RequestEnds`,
`Terminates`, `EverySendShown`, `EveryProgramEnds`, `EveryByteEchoed`,
`EveryConnectionServed`.  Every invariant, action property and refinement of a
passing run is a theorem.  `TypeOK` of PipeFile, Locks, WorkQueue and MultiEcho is
part of their inductive invariants and is proved instead of run, and so are
`ActiveIsExact` and `NoStaleValue`.

What liveness rests on is proved where it is not obvious, as invariants that give
the guard of a possible step instead of `ENABLED`:

* `TransfersNeverHang` (half of `EveryTransferFinishes`): until its connection is
  freed a transfer has something to wait for, a read, room for a write, a write
  callback or the close callback.  `Pending` is the inductive part: `on_write_res`
  never leaves the sums equal on a live record once something was read.  It needs
  `0 \notin Lengths`: an empty file does hang (section 5).
* `NoDeadlock` (half of `Terminates` of Locks): before main() returns, main() or
  a thread can go on, a failed try not counted.  `ThreadsRunOut` is the other half but
  for fairness: `StagesLeft`, the finite set of stages the threads have before them,
  shrinks with every step of a thread but a failed try, and never grows.
* `NoRequestStranded` (half of `Terminates` of WorkQueue): while the loop counts a
  request as in progress, one is done, or executes, or waits for a worker that has
  nothing to do.  It needs a pool with a thread.

From there to liveness is what needs fairness: that the possible step is taken.

## 5. Where the code departs from what it says

Two departures are runs of their own, as they contradict an assertion or the
docs in normal use: `parser_cut_value` (a header value that a read cuts stops the
server) and `echo_junk` (the pipe echo server writes the whole buffer).

Others are modelled and named in the properties, or are switched on by a
constant; to see one, change a cfg as said:

* a file of more than 32 buffers can stop the server at `pipe-file.c:188`, and
  send-file at `main.c:225`, when all writes of one poll event are called back
  before the next (the exception in `OnlyLongFilesFail` and `StopsAreDeliberate`);
* a read callback with `nread = 0` ends a transfer with status 0
  (`pipe-file.c:159`; `methods.md:534` says it is no error and no end): add
  `"again"` to `Faults` of `pipe_file`, and `CompletionIsWhole` fails;
* the file's handle is freed while libuv polls it (`pipe-file.c:100`): with
  `"resize"`, `MemorySafe` fails;
* an empty file is never answered: with 0 in `Lengths`, `EveryTransferFinishes`
  fails;
* a second message on a connection stops the server at `pipe-file.c:74` (the
  exception `Single` in `OneStageAtATime` and `StopsAreDeliberate`);
* a client that half-closes leaves connection and transfer allocated, and a
  transfer that ends later closes the handle twice (the exception in
  `StopsAreDeliberate`);
* a url or a field that a read cuts is replaced by its last part (the `cut = {}`
  in `ParsedAsSent`);
* a parser record is freed without having been set: `sws_req_parser_init` clears
  neither `url` nor `field` nor `value`, and the release of a connection
  (`main.c:142`, `request-parser.c:52-54`) frees them all, after a message that was
  malformed before its first header line, or had none (`unset` in
  `StopsAreDeliberate`); and so is `file_path` of send-file (`"bad_free"`);
* a read that ends in a header value, or right behind it or a field, stops the
  server while its client only waits (`"assert_header"` in `StopsAreDeliberate`);
* send-file neither closes nor answers further when a read of the file fails
  (`main.c:196-198`): the response stays as it is (`LeftUnread` in `RequestEnds`);
* send-file starts a response per read (`InOneRead`), and closes the address of a
  local variable when a file fills its last buffer (the outcome `eof`);
* `13-progress` closes its handle with a send still unseen, or reads a dead
  frame, if the loop is late;
* `05-tcp-echo-server` fails its own assertion when a client ends before it has
  its echo (the comment at `main.c:48` knows), ignores read errors, and loses the
  buffer of the last read;
* the master of `20-multi-echo-server` never closes the handle of a client it
  handed over, so a client whose worker closed the connection is not told;
* it keeps the turn of a worker that is gone, and nothing ignores SIGPIPE: the next
  connection that falls to that worker, or one that waits for its pipe to have room,
  kills the master, and whatever is queued for the other workers is lost with it
  (`"killed"`, the exceptions in `LostOnlyWithWorker` and `EveryConnectionServed`);
* the tees close their outputs with copies still queued, whose callbacks then
  fail an assertion (the exception in `StopsOnlyBehind`), write to a file that
  could not be opened (`lossy`), and wait for nothing after an error of the input;
* `02-uvcat` loses what a short write leaves (`lossy`);
* a second connection of `18-cgi` uses the process handle of the first: the first
  is then never closed (`kid # k` in `CgiClientsClosed`), or libuv's tables are
  broken (`"undefined"`);
* a socket of `06-udp-dhcp` that is readable and then is not stops it
  (`OneOfferRead` speaks of what comes once an offer was read);
* a line that fills the buffer of `23-idle-compute` writes one byte behind it
  (`StdinFsCb`).

## 6. What is not modelled, and why

Formatting, logging and layout; the rewriting of a url into a path; the
contents of headers; the number of bytes in a buffer (a buffer is the unit).  The lengths that overflow fixed
arrays in the parser are data the models abstract from.  Inside a barrier or a
read-write lock nothing is modelled: they are external.

* `07-dns`: a chain of three callbacks that cannot overlap.  Its reads end by
  freeing a handle that libuv has still to close (`main.c:58`), or, after an
  error, by a copy of negative length (`main.c:62`); nothing before that tells a
  right run from a wrong one.
* `26-tty`: two writes from one function, whose requests are in a frame that has
  ended when the loop calls them back; whether it does depends only on the
  terminal.
* `09-thread-create`: two threads that share nothing and are joined.
* `04-onchange`, `25-plugin`: a loop over the arguments and a call into the system
  for each; `08-interfaces`, `sync-calls`, `24-uvwget`, `.scaffold` print what one
  synchronous call returns, or do nothing.  None keeps a state.
* `dgb.h`, the Makefiles and the documentation hold no behaviour.

## 7. Plan

Done, in this order: PipeFile and FileTransfer with their proofs,
StaticWebServer, RequestParser, SendFile, Locks and WorkQueue with their proofs,
Progress, EchoServer, MultiEcho; then UvStream, Copy, Children, Signals, Loops
and Dhcp, their composition SmallPrograms, and its proofs; then the proofs of
MultiEcho, RequestParser and EchoServer; then those that follow bytes and sums
through a program: StaticWebServer, SendFile, Copy, and the refinement of Echo.

Every program with state of its own is now modelled, and every safety property of
it proved.  Runs stay few: programs of one shape share a module, with `program`
choosing between them, and departures are named exceptions of the properties, as
above.

Liveness stays with TLC, and so far rests on proved invariants for transfers, locks
and requests.  What may still be proved is which action is possible whenever a
response of send-file, a connection of a worker or a copy is not finished.
