----------------------- MODULE StaticWebServerProofs ------------------------
(***************************************************************************)
(* Proofs about the static web server.  The first part is about transfers  *)
(* alone, for any set of connections, any lengths, any batch and, where it *)
(* is not said otherwise, any faults: Spec is that of PipeFile.  The next  *)
(* is about the server around them, ServerSpec, for any number of          *)
(* connections, messages and lengths, whatever clients do.  The last is    *)
(* about the parser of requests, ParserSpec, for any requests, cuts and    *)
(* number of messages.                                                     *)
(***************************************************************************)
EXTENDS StaticWebServer, RequestParser, SequenceTheorems, TLAPS

\* What is behind a path is a file.
LEMMA FilesForType == ASSUME NEW s \in Lengths PROVE FilesFor(s) \subseteq Files
<1>1. (IF "resize" \in Faults THEN Lengths ELSE {s}) \subseteq Nat
  BY LengthsNat
<1>2. QED
  BY <1>1 DEF FilesFor, Files

\* The updates of a record keep it one, and what each of them changes.
LEMMA PipeUpdates ==
  ASSUME NEW p \in Pipes
  PROVE  /\ ReadCount(p) \in Pipes /\ Written(p) \in Pipes /\ CompletedAs(p) \in Pipes
         /\ ReadCount(p).nread = p.nread + 1
         /\ ReadCount(p).mem = p.mem
         /\ ReadCount(p).nwritten = p.nwritten
         /\ ReadCount(p).size = p.size
         /\ Written(p).nwritten = p.nwritten + 1
         /\ Written(p).mem = p.mem
         /\ Written(p).nread = p.nread
         /\ Written(p).size = p.size
         /\ CompletedAs(p).mem = "freed"
         /\ CompletedAs(p).nread = p.nread
         /\ CompletedAs(p).nwritten = p.nwritten
         /\ CompletedAs(p).size = p.size
  BY DEF Pipes, ReadCount, Written, CompletedAs

\* The initial state has its type.
LEMMA TypeCorrectInit == Init => TypeOK
  BY BatchPositive DEF Init, TypeOK, ProcStates, TcpStates, Pipes, Files, NoPipe

\* Every step keeps it.
LEMMA TypeCorrectStep == TypeOK /\ [Next]_pipeVars => TypeOK'
<1> SUFFICES ASSUME TypeOK, [Next]_pipeVars PROVE TypeOK'
  OBVIOUS
<1> USE DEF TypeOK, ProcStates, TcpStates
<1>1. CASE UNCHANGED pipeVars
  BY <1>1 DEF pipeVars
<1>2. ASSUME NEW c \in Conns, Serve(c) PROVE TypeOK'
  <2> PICK s \in Lengths : SwsPipeFile(c, s, s)
    BY <1>2 DEF Serve
  <2>1. FilesFor(s) \subseteq Files /\ NewPipe(s) \in Pipes
    BY FilesForType, LengthsNat DEF NewPipe, Pipes
  <2>2. pipe' \in [Conns -> Pipes] /\ file' \in [Conns -> Files]
    BY <2>1 DEF SwsPipeFile
  <2>3. QED
    BY <1>2, <2>2 DEF Serve, SwsPipeFile
<1>3. ASSUME NEW c \in Conns, PollFile(c) PROVE TypeOK'
  BY <1>3, BatchPositive DEF PollFile
<1>4. ASSUME NEW c \in Conns, OnFileData(c) PROVE TypeOK'
  <2>1. ReadCount(pipe[c]) \in Pipes
    BY PipeUpdates
  <2>2. burst' \in [Conns -> 0..Batch]
    BY <1>4, BatchPositive DEF OnFileData, ReadsLeft
  <2>3. file' \in [Conns -> Files]
    BY <1>4 DEF OnFileData, Files
  <2>4. queued' \in [Conns -> Nat] /\ flushed' \in [Conns -> Nat]
    BY <1>4 DEF OnFileData, WriteData
  <2>5. QED
    BY <1>4, <2>1, <2>2, <2>3, <2>4 DEF OnFileData
<1>5. ASSUME NEW c \in Conns, NEW s, EndOfRead(c, s) PROVE TypeOK'
  <2>1. CompletedAs(pipe[c]) \in Pipes
    BY PipeUpdates
  <2>2. QED
    BY <1>5, <2>1, BatchPositive DEF EndOfRead, FileTcpPipeEnd, OnPipeFileComplete
<1>6. ASSUME NEW c \in Conns, OnWriteRes(c) PROVE TypeOK'
  <2>1. Written(pipe[c]) \in Pipes /\ CompletedAs(Written(pipe[c])) \in Pipes
    BY PipeUpdates
  <2>2. flushed' \in [Conns -> Nat]
    BY <1>6 DEF OnWriteRes
  <2>3. QED
    BY <1>6, <2>1, <2>2 DEF OnWriteRes, WriteDone, FileTcpPipeEnd, OnPipeFileComplete
<1>7. ASSUME NEW c \in Conns, OnWriteError(c) PROVE TypeOK'
  BY <1>7 DEF OnWriteError
<1>8. ASSUME NEW c \in Conns, Pollout(c) PROVE TypeOK'
  BY <1>8 DEF Pollout
<1>9. ASSUME NEW c \in Conns, NEW u \in BOOLEAN, OnResEnd(c, u) PROVE TypeOK'
  BY <1>9 DEF OnResEnd
<1>10. ASSUME NEW c \in Conns, FileGrows(c) PROVE TypeOK'
  BY <1>10 DEF FileGrows, Files
<1>11. QED
  BY <1>1, <1>2, <1>3, <1>4, <1>5, <1>6, <1>7, <1>8, <1>9, <1>10
  DEF Next, Over, Step, Transfer, Released, OnFileRead, OnFileEof, OnFileAgain,
      OnFileError

\* Every reachable state has its type.
THEOREM TypeCorrect == Spec => []TypeOK
<1> QED
  BY TypeCorrectInit, TypeCorrectStep, PTL DEF Spec

-----------------------------------------------------------------------------
(* The books: how handles follow records, and where every buffer read is.   *)

Books == TypeOK /\ Shape /\ Ledger

\* What a callback that ends a transfer does, when the record is live.
LEMMA EndEffect ==
  ASSUME TypeOK, Shape, NEW c \in Conns, pipe[c].mem = "live", proc = "running",
         NEW p \in Pipes, p.mem = "live", NEW status, FileTcpPipeEnd(c, p, status)
  PROVE  \/ /\ status # "ok" /\ proc' = "exited" /\ tcp' = tcp
            /\ pipe' = [pipe EXCEPT ![c] = p]
         \/ /\ status = "ok" /\ proc' = proc
            /\ tcp' = [tcp EXCEPT ![c] = "closing"]
            /\ pipe' = [pipe EXCEPT ![c] = CompletedAs(p)]
  BY DEF FileTcpPipeEnd, OnPipeFileComplete, Shape

LEMMA BooksInit == Init => Books
<1> SUFFICES ASSUME Init PROVE Shape /\ Ledger
  BY TypeCorrectInit DEF Books
<1>1. QED
  BY DEF Init, Shape, Ledger, NoPipe

LEMMA BooksStep == Books /\ TypeOK' /\ [Next]_pipeVars => Shape' /\ Ledger'
<1> SUFFICES ASSUME Books, TypeOK', [Next]_pipeVars PROVE Shape' /\ Ledger'
  OBVIOUS
<1> USE DEF Books, Shape, Ledger
<1>1. CASE UNCHANGED pipeVars
  BY <1>1 DEF pipeVars
<1>2. ASSUME NEW c \in Conns, Serve(c) PROVE Shape' /\ Ledger'
  <2>1. PICK s \in Lengths : SwsPipeFile(c, s, s)
    BY <1>2 DEF Serve
  <2>2. NewPipe(s).mem = "live" /\ NewPipe(s).nread = 0 /\ NewPipe(s).nwritten = 0
    BY DEF NewPipe
  <2>3. pipe[c].mem = "none"
    BY <1>2 DEF Serve, TcpDataFree
  <2>4. CASE UNCHANGED <<pipe, active, file>>
    BY <2>1, <2>4, <1>2 DEF SwsPipeFile, Serve, LoopFree
  <2>5. CASE /\ pipe' = [pipe EXCEPT ![c] = NewPipe(s)]
             /\ active' = [active EXCEPT ![c] = TRUE]
    BY <2>1, <2>2, <2>3, <2>5, <1>2 DEF SwsPipeFile, Serve, LoopFree, TypeOK
  <2>6. QED
    BY <2>1, <2>4, <2>5 DEF SwsPipeFile
<1>3. ASSUME NEW c \in Conns, PollFile(c) PROVE Shape' /\ Ledger'
  BY <1>3 DEF PollFile, TypeOK
<1>4. ASSUME NEW c \in Conns, OnFileData(c) PROVE Shape' /\ Ledger'
  <2>1. pipe[c].mem = "live" /\ tcp[c] = "open"
    BY <1>4 DEF OnFileData, TypeOK
  <2>2. pipe[c] \in Pipes
    BY DEF TypeOK
  <2>3. /\ pipe' = [pipe EXCEPT ![c] = ReadCount(pipe[c])]
        /\ pipe'[c].mem = "live" /\ pipe'[c].nwritten = pipe[c].nwritten
        /\ pipe'[c].nread = pipe[c].nread + 1
    BY <1>4, <2>1, <2>2, PipeUpdates DEF OnFileData, TypeOK
  <2>4. flushed'[c] + queued'[c] = flushed[c] + queued[c] + 1
    BY <1>4, <2>1 DEF OnFileData, WriteData, TypeOK
  <2>5. \A d \in Conns \ {c} : flushed'[d] = flushed[d] /\ queued'[d] = queued[d]
                               /\ pipe'[d] = pipe[d] /\ burst'[d] = burst[d]
    BY <1>4, <2>3 DEF OnFileData, WriteData, TypeOK
  <2>6. Shape'
    BY <1>4, <2>1, <2>3, <2>5 DEF OnFileData, TypeOK
  <2>7. Ledger'
    BY <1>4, <2>2, <2>3, <2>4, <2>5 DEF OnFileData, TypeOK, Pipes
  <2>8. QED
    BY <2>6, <2>7
<1>5. ASSUME NEW c \in Conns, NEW status, EndOfRead(c, status) PROVE Shape' /\ Ledger'
  <2>1. pipe[c].mem = "live" /\ pipe[c] \in Pipes
    BY <1>5 DEF EndOfRead, TypeOK
  <2>2. FileTcpPipeEnd(c, pipe[c], status)
    BY <1>5 DEF EndOfRead
  <2>3. CompletedAs(pipe[c]).mem = "freed"
        /\ CompletedAs(pipe[c]).nread = pipe[c].nread
        /\ CompletedAs(pipe[c]).nwritten = pipe[c].nwritten
    BY <2>1, PipeUpdates
  <2>4. QED
    BY <1>5, <2>1, <2>2, <2>3, EndEffect DEF EndOfRead, TypeOK
<1>6. ASSUME NEW c \in Conns, OnWriteRes(c) PROVE Shape' /\ Ledger'
  <2>1. CASE pipe[c].mem # "live"
    BY <1>6, <2>1 DEF OnWriteRes, TypeOK
  <2>2. CASE pipe[c].mem = "live"
    <3> DEFINE p == Written(pipe[c])
    <3>1. /\ pipe[c] \in Pipes /\ p \in Pipes /\ p.mem = "live"
          /\ p.nread = pipe[c].nread /\ p.nwritten = pipe[c].nwritten + 1
          /\ CompletedAs(p).mem = "freed" /\ CompletedAs(p).nread = p.nread
          /\ CompletedAs(p).nwritten = p.nwritten
      BY <2>2, PipeUpdates DEF TypeOK
    <3>2. WriteDone(c, p) /\ proc = "running"
      BY <1>6, <2>2 DEF OnWriteRes, LoopFree
    <3> HIDE DEF p
    <3>3. \/ pipe' = [pipe EXCEPT ![c] = p] /\ tcp' = tcp
          \/ /\ tcp' = [tcp EXCEPT ![c] = "closing"]
             /\ pipe' = [pipe EXCEPT ![c] = CompletedAs(p)]
      BY <2>2, <3>1, <3>2, EndEffect DEF WriteDone
    <3>4. /\ pipe'[c].nwritten = pipe[c].nwritten + 1 /\ pipe'[c].nread = pipe[c].nread
          /\ \A d \in Conns \ {c} : pipe'[d] = pipe[d]
      BY <3>1, <3>3 DEF TypeOK
    <3>5. burst' = burst /\ burst[c] = 0
      BY <1>6 DEF OnWriteRes, LoopFree
    <3>6. Shape'
      BY <1>6, <2>2, <3>1, <3>3, <3>5 DEF OnWriteRes, TypeOK
    <3>7. /\ flushed'[c] = flushed[c] - 1 /\ queued' = queued
          /\ \A d \in Conns \ {c} : flushed'[d] = flushed[d]
      BY <1>6 DEF OnWriteRes, TypeOK
    <3>8. Ledger'
      <4>1. proc = "running" /\ flushed[c] > 0
        BY <1>6 DEF OnWriteRes, LoopFree
      <4>2. /\ pipe[c].nwritten \in Nat /\ pipe[c].nread \in Nat
            /\ flushed[c] \in Nat /\ queued[c] \in Nat
        BY <3>1 DEF TypeOK, Pipes
      <4>3. pipe[c].nwritten + flushed[c] + queued[c] = pipe[c].nread
        BY <4>1
      <4>4. pipe'[c].nwritten + flushed'[c] + queued'[c] = pipe'[c].nread
        BY <3>4, <3>7, <4>2, <4>3
      <4>5. QED
        BY <3>4, <3>7, <4>1, <4>4
    <3>9. QED
      BY <3>6, <3>8
  <2>3. QED
    BY <2>1, <2>2
<1>7. ASSUME NEW c \in Conns, OnWriteError(c) PROVE Shape' /\ Ledger'
  BY <1>7 DEF OnWriteError, LoopFree
<1>8. ASSUME NEW c \in Conns, Pollout(c) PROVE Shape' /\ Ledger'
  <2>1. /\ flushed'[c] + queued'[c] = flushed[c] + queued[c]
        /\ \A d \in Conns \ {c} : flushed'[d] = flushed[d] /\ queued'[d] = queued[d]
    BY <1>8 DEF Pollout, TypeOK
  <2>2. pipe[c].mem # "none"
    BY <1>8 DEF Pollout, TypeOK
  <2>3. \A d \in Conns : pipe[d] \in Pipes
    BY DEF TypeOK
  <2>4. QED
    BY <1>8, <2>1, <2>2, <2>3 DEF Pollout, TypeOK, Pipes
<1>9. ASSUME NEW c \in Conns, NEW u \in BOOLEAN, OnResEnd(c, u) PROVE Shape' /\ Ledger'
  <2>1. /\ tcp[c] = "closing" /\ tcp' \in [Conns -> TcpStates]
        /\ tcp'[c] \in {"closing", "freed"} /\ \A d \in Conns \ {c} : tcp'[d] = tcp[d]
        /\ UNCHANGED <<pipe, active, file, burst, queued, flushed>>
        /\ proc = "running"
    BY <1>9 DEF OnResEnd, TypeOK, LoopFree
  <2>2. Shape'
    BY <2>1
  <2> QED BY <2>1, <2>2
<1>10. ASSUME NEW c \in Conns, FileGrows(c) PROVE Shape' /\ Ledger'
  BY <1>10 DEF FileGrows
<1>11. QED
  BY <1>1, <1>2, <1>3, <1>4, <1>5, <1>6, <1>7, <1>8, <1>9, <1>10
  DEF Next, Over, Step, Transfer, Released, OnFileRead, OnFileEof, OnFileAgain,
      OnFileError

LEMMA BooksHold == Spec => []Books
<1>1. Books /\ TypeOK' /\ [Next]_pipeVars => Books'
  BY BooksStep DEF Books
<1>2. QED
  BY <1>1, BooksInit, TypeCorrect, PTL DEF Spec

\* Every buffer that was read is written or in flight while its connection is
\* open, so on_write_res finds equal sums only when no write is outstanding.
THEOREM EveryReadIsAccounted == Spec => []WritesAccounted
<1>1. Books => WritesAccounted
  BY DEF Books, Ledger, WritesAccounted
<1>2. QED
  BY <1>1, BooksHold, PTL

-----------------------------------------------------------------------------
(* Completion means the whole file, unless a read callback that reports     *)
(* nothing (nread = 0) is taken for the end.                                *)

\* The only callback that completes a transfer does so with everything written.
LEMMA CompletingWrite ==
  ASSUME Books, TypeOK', Ledger', NEW c \in Conns, OnWriteRes(c), pipe[c].mem = "live",
         pipe'[c].mem = "freed"
  PROVE  /\ pipe'[c].nwritten = pipe'[c].size /\ pipe'[c].nread = pipe'[c].size
         /\ pipe'[c].size = pipe[c].size
         /\ queued'[c] = 0 /\ flushed'[c] = 0 /\ tcp[c] = "open" /\ proc' = "running"
<1> DEFINE p == Written(pipe[c])
<1>1. /\ pipe[c] \in Pipes /\ p \in Pipes /\ p.mem = "live" /\ p.size = pipe[c].size
      /\ CompletedAs(p).nread = p.nread /\ CompletedAs(p).nwritten = p.nwritten
      /\ CompletedAs(p).size = p.size
  BY PipeUpdates DEF Books, TypeOK
<1>2. WriteDone(c, p) /\ proc = "running"
  BY DEF OnWriteRes, LoopFree
<1> HIDE DEF p
<1>3. AllWritten(p) /\ SizeAsserted(p) /\ FileTcpPipeEnd(c, p, "ok")
  BY <1>1, <1>2 DEF WriteDone, Books, TypeOK
<1>4. pipe' = [pipe EXCEPT ![c] = CompletedAs(p)] /\ proc' = proc /\ tcp[c] = "open"
  BY <1>1, <1>2, <1>3, EndEffect DEF Books, Shape
<1>5. pipe'[c].nwritten = pipe'[c].size /\ pipe'[c].nread = pipe'[c].size
      /\ pipe'[c].size = pipe[c].size
  BY <1>1, <1>3, <1>4 DEF AllWritten, SizeAsserted, Books, TypeOK
<1>6. proc' = "running"
  BY <1>4 DEF OnWriteRes, LoopFree
<1>7. queued'[c] \in Nat /\ flushed'[c] \in Nat /\ pipe'[c].nwritten \in Nat
  BY DEF TypeOK, Pipes
<1>8. queued'[c] = 0 /\ flushed'[c] = 0
  BY <1>5, <1>6, <1>7 DEF Ledger
<1>9. QED
  BY <1>4, <1>5, <1>6, <1>8

LEMMA WholeStep ==
  ASSUME "again" \notin Faults
  PROVE  Books /\ Books' /\ CompletionIsWhole /\ [Next]_pipeVars => CompletionIsWhole'
<1> SUFFICES ASSUME Books, Books', CompletionIsWhole, [Next]_pipeVars
             PROVE  CompletionIsWhole'
  OBVIOUS
<1> USE DEF CompletionIsWhole
<1>1. CASE UNCHANGED <<pipe, queued, flushed>>
  BY <1>1
<1>2. ASSUME NEW c \in Conns, Serve(c) PROVE CompletionIsWhole'
  <2>1. PICK s \in Lengths : SwsPipeFile(c, s, s)
    BY <1>2 DEF Serve
  <2>2. NewPipe(s).mem = "live"
    BY DEF NewPipe
  <2>3. QED
    BY <2>1, <2>2 DEF SwsPipeFile, Books, TypeOK
<1>3. ASSUME NEW c \in Conns, OnFileData(c) PROVE CompletionIsWhole'
  <2>1. pipe[c].mem = "live" /\ pipe[c] \in Pipes
    BY <1>3 DEF OnFileData, Books, Shape, TypeOK
  <2>2. ReadCount(pipe[c]).mem = "live"
    BY <2>1, PipeUpdates
  <2>3. QED
    BY <1>3, <2>2 DEF OnFileData, WriteData, Books, TypeOK
<1>4. ASSUME NEW c \in Conns, NEW status, status # "ok", EndOfRead(c, status)
      PROVE  CompletionIsWhole'
  BY <1>4 DEF EndOfRead, FileTcpPipeEnd, OnPipeFileComplete, Books, TypeOK
<1>5. ASSUME NEW c \in Conns, OnWriteRes(c) PROVE CompletionIsWhole'
  <2>1. \A d \in Conns \ {c} : pipe'[d] = pipe[d] /\ flushed'[d] = flushed[d]
    BY <1>5 DEF OnWriteRes, WriteDone, FileTcpPipeEnd, OnPipeFileComplete, Books, TypeOK
  <2>2. queued' = queued /\ flushed[c] > 0
    BY <1>5 DEF OnWriteRes
  <2>3. pipe[c].mem = "live"
    BY <2>2 DEF Books, Shape, TypeOK, Pipes
  <2>4. CASE pipe'[c].mem = "freed"
    BY <1>5, <2>1, <2>2, <2>3, <2>4, CompletingWrite DEF Books
  <2>5. CASE pipe'[c].mem # "freed"
    BY <2>1, <2>2, <2>5
  <2>6. QED
    BY <2>4, <2>5
<1>6. ASSUME NEW c \in Conns, Pollout(c) PROVE CompletionIsWhole'
  BY <1>6 DEF Pollout, Books, TypeOK
<1>7. QED
  BY <1>1, <1>2, <1>3, <1>4, <1>5, <1>6
  DEF Next, Over, Step, Transfer, Released, OnFileRead, OnFileEof, OnFileAgain,
      OnFileError, pipeVars,
      PollFile, OnWriteError, OnResEnd, FileGrows

\* The callback of sws_pipe_file reports success only when exactly the announced
\* length was written and no write is in flight that could use the freed record.
THEOREM CompletionMeansWhole ==
  ASSUME "again" \notin Faults
  PROVE  Spec => []CompletionIsWhole
<1>1. Init => CompletionIsWhole
  BY DEF Init, CompletionIsWhole, NoPipe
<1>2. Books /\ Books' /\ CompletionIsWhole /\ [Next]_pipeVars => CompletionIsWhole'
  BY WholeStep
<1>3. QED
  BY <1>1, <1>2, BooksHold, PTL DEF Spec

-----------------------------------------------------------------------------
(* A file that keeps the length it was announced with.                      *)

LEMMA RemainderStep ==
  ASSUME "resize" \notin Faults
  PROVE  Books /\ Remainder /\ [Next]_pipeVars => Remainder'
<1> SUFFICES ASSUME Books, Remainder, [Next]_pipeVars PROVE Remainder'
  OBVIOUS
<1> USE DEF Remainder
<1>1. CASE UNCHANGED <<pipe, file>>
  BY <1>1
<1>2. ASSUME NEW c \in Conns, Serve(c) PROVE Remainder'
  <2>1. PICK s \in Lengths : SwsPipeFile(c, s, s)
    BY <1>2 DEF Serve
  <2>2. \A f \in FilesFor(s) : f.left = s
    BY DEF FilesFor
  <2>3. NewPipe(s).nread = 0 /\ NewPipe(s).size = s
    BY DEF NewPipe
  <2>4. QED
    BY <2>1, <2>2, <2>3, LengthsNat DEF SwsPipeFile, Books, TypeOK
<1>3. ASSUME NEW c \in Conns, OnFileData(c) PROVE Remainder'
  <2>1. pipe[c] \in Pipes /\ pipe[c].nread \in Nat /\ file[c].left \in Nat
    BY DEF Books, TypeOK, Pipes, Files
  <2>2. pipe'[c].nread = pipe[c].nread + 1 /\ pipe'[c].size = pipe[c].size
        /\ pipe'[c].mem = pipe[c].mem
    BY <1>3, <2>1, PipeUpdates DEF OnFileData, Books, TypeOK
  <2>3. file'[c].left = file[c].left - 1
    BY <1>3 DEF OnFileData, Books, TypeOK, Files
  <2>4. \A d \in Conns \ {c} : pipe'[d] = pipe[d] /\ file'[d] = file[d]
    BY <1>3 DEF OnFileData, Books, TypeOK
  <2>5. QED
    BY <2>1, <2>2, <2>3, <2>4
<1>4. ASSUME NEW c \in Conns, NEW status, EndOfRead(c, status) PROVE Remainder'
  <2>1. /\ pipe[c].mem = "live" /\ pipe[c] \in Pipes
        /\ CompletedAs(pipe[c]).nread = pipe[c].nread
        /\ CompletedAs(pipe[c]).size = pipe[c].size
    BY <1>4, PipeUpdates DEF EndOfRead, Books, Shape, TypeOK
  <2>2. QED
    BY <1>4, <2>1 DEF EndOfRead, FileTcpPipeEnd, OnPipeFileComplete, Books, TypeOK
<1>5. ASSUME NEW c \in Conns, OnWriteRes(c) PROVE Remainder'
  <2>1. /\ pipe[c] \in Pipes /\ Written(pipe[c]) \in Pipes
        /\ Written(pipe[c]).nread = pipe[c].nread
        /\ Written(pipe[c]).size = pipe[c].size
        /\ CompletedAs(Written(pipe[c])).nread = pipe[c].nread
        /\ CompletedAs(Written(pipe[c])).size = pipe[c].size
    BY PipeUpdates DEF Books, TypeOK
  <2>2. file' = file
    BY <1>5 DEF OnWriteRes
  <2>3. CASE pipe[c].mem = "live"
    BY <1>5, <2>1, <2>2, <2>3 DEF OnWriteRes, WriteDone, FileTcpPipeEnd, OnPipeFileComplete, Books, TypeOK
  <2>4. CASE pipe[c].mem # "live"
    BY <1>5, <2>2, <2>4 DEF OnWriteRes
  <2>5. QED
    BY <2>3, <2>4
<1>6. QED
  BY <1>1, <1>2, <1>3, <1>4, <1>5
  DEF Next, Over, Step, Transfer, Released, OnFileRead, OnFileEof, OnFileAgain,
      OnFileError, pipeVars,
      PollFile, OnWriteError, OnResEnd, Pollout, FileGrows

LEMMA RemainderHolds ==
  ASSUME "resize" \notin Faults
  PROVE  Spec => []Remainder
<1>1. Init => Remainder
  BY DEF Init, Remainder, NoPipe
<1>2. Books /\ Remainder /\ [Next]_pipeVars => Remainder'
  BY RemainderStep
<1>3. QED
  BY <1>1, <1>2, BooksHold, PTL DEF Spec

\* No callback finds memory that was released: a completed transfer has no
\* write in flight and, as long as files do not grow, nothing left to read.
THEOREM NoUseAfterFree ==
  ASSUME "again" \notin Faults, "resize" \notin Faults
  PROVE  Spec => []MemorySafe
<1> DEFINE I == CompletionIsWhole /\ Books /\ Remainder
<1>1. Init => MemorySafe
  BY DEF Init, MemorySafe
<1>2. I /\ MemorySafe /\ [Next]_pipeVars => MemorySafe'
  <2> SUFFICES ASSUME I, MemorySafe, [Next]_pipeVars, proc' # proc
               PROVE  proc' # "undefined"
    BY DEF MemorySafe
  <2>1. ASSUME NEW c \in Conns, Serve(c) PROVE proc' # "undefined"
    BY <2>1 DEF Serve, SwsPipeFile, MemorySafe
  <2>2. ASSUME NEW c \in Conns, PollFile(c) PROVE proc' # "undefined"
    <3>1. active[c] /\ file[c].left > 0 /\ proc = "running"
      BY <2>2 DEF PollFile, LoopFree
    <3>2. /\ pipe[c].nread \in Nat /\ pipe[c].nwritten \in Nat /\ pipe[c].size \in Nat
          /\ file[c].left \in Nat /\ queued[c] \in Nat /\ flushed[c] \in Nat
          /\ pipe[c].mem \in {"none", "live", "freed"}
      BY DEF Books, TypeOK, Pipes, Files
    <3>3. pipe[c].nwritten + flushed[c] + queued[c] = pipe[c].nread
      BY <3>1 DEF Books, Ledger
    <3>4. pipe[c].mem # "freed"
      BY <3>1, <3>2, <3>3 DEF CompletionIsWhole, Remainder
    <3>5. pipe[c].mem = "live" /\ tcp[c] = "open"
      BY <3>1, <3>2, <3>4 DEF Books, Shape
    <3>6. QED
      BY <2>2, <3>5 DEF PollFile, MemorySafe
  <2>3. ASSUME NEW c \in Conns, NEW status, EndOfRead(c, status) PROVE proc' # "undefined"
    BY <2>3 DEF EndOfRead, FileTcpPipeEnd, OnPipeFileComplete, MemorySafe
  <2>4. ASSUME NEW c \in Conns, OnWriteRes(c) PROVE proc' # "undefined"
    <3>1. flushed[c] > 0
      BY <2>4 DEF OnWriteRes
    <3>2. pipe[c].mem = "live"
      BY <3>1 DEF Books, Shape, CompletionIsWhole, TypeOK, Pipes
    <3>3. QED
      BY <2>4, <3>2 DEF OnWriteRes, WriteDone, FileTcpPipeEnd, OnPipeFileComplete, MemorySafe
  <2>5. QED
    BY <2>1, <2>2, <2>3, <2>4
    DEF Next, Over, Step, Transfer, Released, OnFileRead, OnFileEof, OnFileAgain,
      OnFileError, OnFileData,
        OnWriteError, OnResEnd, Pollout, FileGrows, pipeVars
<1>3. QED
  BY <1>1, <1>2, BooksHold, CompletionMeansWhole, RemainderHolds, PTL DEF Spec

-----------------------------------------------------------------------------
(* No transfer hangs.                                                       *)

\* The file of a transfer stays registered with the loop, and a transfer whose
\* sums meet after its first read is over: on_write_res does not miss that moment.
Pending ==
  \A c \in Conns :
    /\ pipe[c].mem # "none" => active[c]
    /\ proc = "running" /\ pipe[c].mem = "live" /\ pipe[c].nwritten = pipe[c].nread
         => pipe[c].nread = 0

LEMMA PendingStep == Books /\ Books' /\ Pending /\ [Next]_pipeVars => Pending'
<1> SUFFICES ASSUME Books, Books', Pending, [Next]_pipeVars PROVE Pending'
  OBVIOUS
<1> USE DEF Pending
<1>1. CASE UNCHANGED <<proc, pipe, active>>
  BY <1>1
<1>2. ASSUME NEW c \in Conns, Serve(c) PROVE Pending'
  <2>1. PICK s \in Lengths : SwsPipeFile(c, s, s)
    BY <1>2 DEF Serve
  <2>2. proc = "running"
    BY <1>2 DEF Serve, LoopFree
  <2>3. CASE UNCHANGED <<pipe, active>>
    BY <2>2, <2>3
  <2>4. CASE pipe' = [pipe EXCEPT ![c] = NewPipe(s)] /\ active' = [active EXCEPT ![c] = TRUE]
             /\ UNCHANGED proc
    <3>1. /\ pipe'[c] = NewPipe(s) /\ active'[c]
          /\ \A d \in Conns \ {c} : pipe'[d] = pipe[d] /\ active'[d] = active[d]
      BY <2>4 DEF Books, TypeOK
    <3>2. NewPipe(s).nread = 0
      BY DEF NewPipe
    <3> QED BY <2>4, <3>1, <3>2
  <2> QED BY <2>1, <2>3, <2>4 DEF SwsPipeFile
<1>3. ASSUME NEW c \in Conns, OnFileData(c) PROVE Pending'
  <2>1. /\ pipe[c] \in Pipes /\ pipe[c].mem = "live" /\ tcp[c] = "open" /\ proc = "running"
    BY <1>3 DEF OnFileData, Books, Shape, TypeOK
  <2>2. /\ pipe'[c].nread = pipe[c].nread + 1 /\ pipe'[c].nwritten = pipe[c].nwritten
        /\ pipe'[c].mem = "live" /\ UNCHANGED <<proc, active>>
        /\ \A d \in Conns \ {c} : pipe'[d] = pipe[d]
    BY <1>3, <2>1, PipeUpdates DEF OnFileData, Books, TypeOK
  <2>3. pipe[c].nwritten + flushed[c] + queued[c] = pipe[c].nread
    BY <2>1 DEF Books, Ledger
  <2>4. /\ pipe[c].nwritten \in Nat /\ pipe[c].nread \in Nat
        /\ flushed[c] \in Nat /\ queued[c] \in Nat
    BY DEF Books, TypeOK, Pipes
  <2>5. pipe'[c].nwritten # pipe'[c].nread
    BY <2>2, <2>3, <2>4
  <2> QED BY <2>1, <2>2, <2>5
<1>4. ASSUME NEW c \in Conns, NEW status, EndOfRead(c, status) PROVE Pending'
  <2>1. pipe[c].mem = "live" /\ pipe[c] \in Pipes /\ proc = "running" /\ UNCHANGED active
    BY <1>4 DEF EndOfRead, Books, Shape, TypeOK
  <2>2. CompletedAs(pipe[c]).mem = "freed"
    BY <2>1, PipeUpdates
  <2>3. \A d \in Conns \ {c} : pipe'[d] = pipe[d]
    BY <1>4 DEF EndOfRead, FileTcpPipeEnd, Books, TypeOK
  <2>4. proc' = "running" => pipe'[c].mem = "freed"
    BY <1>4, <2>2 DEF EndOfRead, FileTcpPipeEnd, Books, TypeOK
  <2>5. active[c]
    BY <2>1
  <2> QED BY <2>1, <2>3, <2>4, <2>5
<1>5. ASSUME NEW c \in Conns, OnWriteRes(c) PROVE Pending'
  <2>1. pipe[c] \in Pipes /\ proc = "running" /\ UNCHANGED active
    BY <1>5 DEF OnWriteRes, LoopFree, Books, TypeOK
  <2>2. /\ Written(pipe[c]) \in Pipes /\ Written(pipe[c]).mem = pipe[c].mem
        /\ CompletedAs(Written(pipe[c])).mem = "freed"
    BY <2>1, PipeUpdates
  <2>3. CASE pipe[c].mem # "live"
    BY <1>5, <2>1, <2>3 DEF OnWriteRes
  <2>4. CASE pipe[c].mem = "live"
    <3>1. WriteDone(c, Written(pipe[c])) /\ active[c]
      BY <1>5, <2>4 DEF OnWriteRes
    <3>2. \A d \in Conns \ {c} : pipe'[d] = pipe[d]
      BY <3>1 DEF WriteDone, FileTcpPipeEnd, Books, TypeOK
    <3>3. proc' = "running" => pipe'[c].mem = "freed" \/ pipe'[c].nwritten # pipe'[c].nread
      BY <2>2, <3>1 DEF WriteDone, AllWritten, FileTcpPipeEnd, Books, TypeOK
    <3> QED BY <2>1, <3>1, <3>2, <3>3
  <2> QED BY <2>3, <2>4
<1>6. QED
  BY <1>1, <1>2, <1>3, <1>4, <1>5
  DEF Next, Over, Step, Transfer, Released, OnFileRead, OnFileEof, OnFileAgain,
      OnFileError, pipeVars,
      PollFile, OnWriteError, OnResEnd, Pollout, FileGrows

\* What the loop can do next for a connection: a callback of its own, unless it
\* is still in the read loop of some stream.
CanGoOn(c) ==
  \/ \E d \in Conns : burst[d] > 0
  \/ LoopFree /\ \/ active[c] /\ file[c].left > 0
                 \/ tcp[c] = "open" /\ queued[c] > 0
                 \/ flushed[c] > 0
                 \/ tcp[c] = "closing" /\ queued[c] = 0 /\ flushed[c] = 0

\* A transfer that began has something left to wait for until its connection is freed.
NeverHangs ==
  \A c \in Conns : proc = "running" /\ pipe[c].mem # "none" /\ tcp[c] # "freed" => CanGoOn(c)

\* The safety half of EveryTransferFinishes: no interleaving of reads, writes and
\* callbacks leaves a transfer with nothing to read, no write in flight and its
\* connection open.  It needs a file that is not empty: the completion is found in
\* on_write_res only, and an empty file is never written.
THEOREM TransfersNeverHang ==
  ASSUME "again" \notin Faults, "resize" \notin Faults, 0 \notin Lengths
  PROVE  Spec => []NeverHangs
<1> DEFINE Sized == \A c \in Conns : pipe[c].mem # "none" => pipe[c].size # 0
<1>1. Init => Sized /\ Pending
  BY DEF Init, Pending, NoPipe
<1>2. Books /\ Sized /\ [Next]_pipeVars => Sized'
  <2> SUFFICES ASSUME Books, Sized, [Next]_pipeVars PROVE Sized'
    OBVIOUS
  <2>1. ASSUME NEW c \in Conns, Serve(c) PROVE Sized'
    <3>1. PICK s \in Lengths : SwsPipeFile(c, s, s)
      BY <2>1 DEF Serve
    <3>2. NewPipe(s).size # 0
      BY DEF NewPipe
    <3> QED BY <3>1, <3>2 DEF SwsPipeFile, Books, TypeOK
  <2>2. ASSUME NEW c \in Conns, NEW p \in Pipes, p.mem = pipe[c].mem, p.size = pipe[c].size,
               pipe' = [pipe EXCEPT ![c] = p] \/ pipe' = [pipe EXCEPT ![c] = CompletedAs(p)],
               pipe[c].mem # "none"
        PROVE  Sized'
    <3>1. CompletedAs(p).size = p.size
      BY PipeUpdates
    <3> QED BY <2>2, <3>1 DEF Books, TypeOK
  <2>3. ASSUME NEW c \in Conns, OnFileData(c) PROVE Sized'
    <3>1. pipe[c] \in Pipes /\ pipe[c].mem = "live" /\ pipe' = [pipe EXCEPT ![c] = ReadCount(pipe[c])]
      BY <2>3 DEF OnFileData, Books, Shape, TypeOK
    <3> QED BY <2>2, <3>1, PipeUpdates
  <2>4. ASSUME NEW c \in Conns, NEW status, EndOfRead(c, status) PROVE Sized'
    <3>1. pipe[c] \in Pipes /\ pipe[c].mem = "live"
      BY <2>4 DEF EndOfRead, Books, Shape, TypeOK
    <3>2. pipe' = [pipe EXCEPT ![c] = pipe[c]] \/ pipe' = [pipe EXCEPT ![c] = CompletedAs(pipe[c])]
      BY <2>4 DEF EndOfRead, FileTcpPipeEnd
    <3> QED BY <2>2, <3>1, <3>2
  <2>5. ASSUME NEW c \in Conns, OnWriteRes(c) PROVE Sized'
    <3> DEFINE p == Written(pipe[c])
    <3>1. p \in Pipes /\ p.mem = pipe[c].mem /\ p.size = pipe[c].size
      BY PipeUpdates DEF Books, TypeOK
    <3>2. CASE pipe[c].mem = "live"
      <4>1. pipe' = [pipe EXCEPT ![c] = p] \/ pipe' = [pipe EXCEPT ![c] = CompletedAs(p)]
        BY <2>5, <3>2 DEF OnWriteRes, WriteDone, FileTcpPipeEnd
      <4> QED BY <2>2, <3>1, <3>2, <4>1
    <3>3. CASE pipe[c].mem # "live"
      BY <2>5, <3>3 DEF OnWriteRes
    <3> QED BY <3>2, <3>3
  <2> QED
    BY <2>1, <2>3, <2>4, <2>5
    DEF Next, Over, Step, Transfer, Released, OnFileRead, OnFileEof, OnFileAgain,
      OnFileError, pipeVars,
        PollFile, OnWriteError, OnResEnd, Pollout, FileGrows
<1>3. Books /\ Remainder /\ CompletionIsWhole /\ Pending /\ Sized => NeverHangs
  <2> SUFFICES ASSUME Books, Remainder, CompletionIsWhole, Pending, Sized, NEW c \in Conns,
                      proc = "running", pipe[c].mem # "none", tcp[c] # "freed", LoopFree
               PROVE  CanGoOn(c)
    BY DEF NeverHangs, CanGoOn, LoopFree, Books, TypeOK
  <2>1. /\ pipe[c].nread \in Nat /\ pipe[c].nwritten \in Nat /\ pipe[c].size \in Nat
        /\ file[c].left \in Nat /\ queued[c] \in Nat /\ flushed[c] \in Nat
        /\ pipe[c].mem \in {"live", "freed"}
    BY DEF Books, TypeOK, Pipes, Files
  <2>2. CASE pipe[c].mem = "freed"
    <3>1. tcp[c] = "closing"
      BY <2>2 DEF Books, Shape
    <3>2. queued[c] = 0 /\ flushed[c] = 0
      BY <2>2 DEF CompletionIsWhole
    <3> QED BY <3>1, <3>2 DEF CanGoOn
  <2>3. CASE pipe[c].mem = "live"
    <3>1. tcp[c] = "open" /\ active[c]
      BY <2>3 DEF Books, Shape, Pending
    <3>2. CASE file[c].left > 0
      BY <3>1, <3>2 DEF CanGoOn
    <3>3. CASE file[c].left = 0
      <4>1. pipe[c].nread # 0
        <5>1. pipe[c].nread + file[c].left = pipe[c].size /\ pipe[c].size # 0
          BY <2>3 DEF Remainder
        <5> QED BY <2>1, <3>3, <5>1
      <4>2. pipe[c].nwritten # pipe[c].nread
        BY <2>3, <4>1 DEF Pending
      <4>3. pipe[c].nwritten + flushed[c] + queued[c] = pipe[c].nread
        BY DEF Books, Ledger
      <4>4. flushed[c] > 0 \/ queued[c] > 0
        BY <2>1, <4>2, <4>3
      <4> QED BY <3>1, <4>4 DEF CanGoOn
    <3> QED BY <2>1, <3>2, <3>3
  <2> QED BY <2>1, <2>2, <2>3
<1>4. Books /\ Books' /\ Pending /\ [Next]_pipeVars => Pending'
  BY PendingStep
<1> HIDE DEF Sized
<1> QED
  BY <1>1, <1>2, <1>3, <1>4, BooksHold, CompletionMeansWhole, RemainderHolds, PTL DEF Spec

-----------------------------------------------------------------------------
(* Files that fit in one poll event of libuv: all reads come before the     *)
(* first write callback, so the sums of on_write_res meet only at the end.  *)

LEMMA OneBurstStep ==
  ASSUME "resize" \notin Faults
  PROVE  Books /\ Remainder /\ OneBurst /\ [Next]_pipeVars => OneBurst'
<1> SUFFICES ASSUME Books, Remainder, OneBurst, [Next]_pipeVars PROVE OneBurst'
  OBVIOUS
<1> USE DEF OneBurst
<1>1. CASE UNCHANGED <<proc, pipe, file, burst>>
  BY <1>1
<1>2. ASSUME NEW c \in Conns, Serve(c) PROVE OneBurst'
  <2>1. PICK s \in Lengths : SwsPipeFile(c, s, s)
    BY <1>2 DEF Serve
  <2>2. NewPipe(s).nread = 0
    BY DEF NewPipe
  <2>3. QED
    BY <1>2, <2>1, <2>2 DEF Serve, LoopFree, SwsPipeFile, Books, TypeOK
<1>3. ASSUME NEW c \in Conns, PollFile(c) PROVE OneBurst'
  <2>1. pipe[c].nread \in Nat /\ Batch > 0 /\ file[c].left > 0 /\ file[c].left \in Nat
        /\ burst[c] = 0 /\ proc = "running"
    BY <1>3, BatchPositive DEF PollFile, LoopFree, Books, TypeOK, Pipes, Files
  <2>2. CASE proc' # "running"
    BY <2>2
  <2>3. CASE proc' = "running"
    <3>1. burst' = [burst EXCEPT ![c] = Batch] /\ pipe[c].mem = "live"
      BY <1>3, <2>3 DEF PollFile
    <3>2. pipe[c].size <= Batch => pipe[c].nread = 0
      BY <2>1, <3>1
    <3>3. QED
      BY <1>3, <2>1, <3>1, <3>2, BatchPositive DEF PollFile, Books, TypeOK
  <2>4. QED
    BY <2>2, <2>3
<1>4. ASSUME NEW c \in Conns, OnFileData(c) PROVE OneBurst'
  <2>1. /\ pipe[c].mem = "live" /\ pipe[c] \in Pipes /\ proc = "running"
        /\ burst[c] > 0 /\ burst[c] \in Nat /\ pipe[c].nread \in Nat
        /\ file[c].left \in Nat /\ pipe[c].size \in Nat /\ Batch \in Nat
    BY <1>4, BatchPositive DEF OnFileData, Books, Shape, TypeOK, Pipes, Files
  <2>2. /\ pipe'[c].nread = pipe[c].nread + 1 /\ pipe'[c].size = pipe[c].size
        /\ pipe'[c].mem = "live"
    BY <1>4, <2>1, PipeUpdates DEF OnFileData, Books, TypeOK
  <2>3. file'[c].left = file[c].left - 1 /\ file[c].left > 0
    BY <1>4 DEF OnFileData, Books, TypeOK, Files
  <2>4. \A d \in Conns \ {c} : pipe'[d] = pipe[d] /\ file'[d] = file[d]
                               /\ burst'[d] = burst[d]
    BY <1>4 DEF OnFileData, Books, TypeOK
  <2>5. /\ pipe[c].size <= Batch => burst[c] + pipe[c].nread = Batch
        /\ pipe[c].nread + file[c].left = pipe[c].size
    BY <2>1 DEF Remainder
  <2>6. \/ burst'[c] = 0 /\ file'[c].left = 0
        \/ burst'[c] = burst[c] - 1
    BY <1>4, <2>1, <2>3 DEF OnFileData, ReadsLeft, Books, TypeOK
  <2>7. pipe[c].size <= Batch =>
        IF burst'[c] > 0 THEN burst'[c] + pipe'[c].nread = Batch
                         ELSE pipe'[c].nread = 0 \/ file'[c].left = 0
    BY <2>1, <2>2, <2>3, <2>5, <2>6
  <2>8. proc' = proc
    BY <1>4 DEF OnFileData
  <2>9. QED
    BY <2>1, <2>2, <2>4, <2>7, <2>8
<1>5. ASSUME NEW c \in Conns, NEW status, EndOfRead(c, status) PROVE OneBurst'
  <2>1. pipe[c].mem = "live" /\ pipe[c] \in Pipes /\ CompletedAs(pipe[c]).mem = "freed"
    BY <1>5, PipeUpdates DEF EndOfRead, Books, Shape, TypeOK
  <2>2. QED
    BY <1>5, <2>1 DEF EndOfRead, FileTcpPipeEnd, OnPipeFileComplete, Books, TypeOK
<1>6. ASSUME NEW c \in Conns, OnWriteRes(c) PROVE OneBurst'
  <2>1. /\ pipe[c] \in Pipes /\ Written(pipe[c]).nread = pipe[c].nread
        /\ Written(pipe[c]).mem = pipe[c].mem
        /\ Written(pipe[c]).size = pipe[c].size
        /\ CompletedAs(Written(pipe[c])).mem = "freed"
    BY PipeUpdates DEF Books, TypeOK
  <2>2. proc = "running" /\ file' = file /\ burst' = burst /\ TypeOK
    BY <1>6 DEF OnWriteRes, LoopFree, Books
  <2>3. \A d \in Conns : pipe'[d].mem = "live" =>
          /\ pipe[d].mem = "live" /\ pipe'[d].nread = pipe[d].nread
          /\ pipe'[d].size = pipe[d].size
    <3>1. \/ pipe' = pipe
          \/ pipe' = [pipe EXCEPT ![c] = Written(pipe[c])]
          \/ pipe' = [pipe EXCEPT ![c] = CompletedAs(Written(pipe[c]))]
      BY <1>6 DEF OnWriteRes, WriteDone, FileTcpPipeEnd
    <3>2. QED
      BY <2>1, <2>2, <3>1 DEF TypeOK
  <2>4. QED
    BY <2>2, <2>3
<1>7. ASSUME NEW c \in Conns, OnWriteError(c) PROVE OneBurst'
  BY <1>7 DEF OnWriteError
<1>8. QED
  BY <1>1, <1>2, <1>3, <1>4, <1>5, <1>6, <1>7
  DEF Next, Over, Step, Transfer, Released, OnFileRead, OnFileEof, OnFileAgain,
      OnFileError, pipeVars,
      OnResEnd, Pollout, FileGrows

\* The assertion of on_write_res (pipe-file.c:188) fails for no file of at most
\* as many buffers as libuv reads in one poll event of a stream.
THEOREM SizeAssertionSound ==
  ASSUME "resize" \notin Faults
  PROVE  Spec => []OnlyLongFilesFail
<1>1. Init => OneBurst /\ OnlyLongFilesFail
  BY DEF Init, OneBurst, OnlyLongFilesFail, NoPipe
<1>2. Books /\ Remainder /\ OneBurst /\ [Next]_pipeVars => OneBurst'
  BY OneBurstStep
<1>3. Books /\ Remainder /\ OneBurst /\ OnlyLongFilesFail /\ [Next]_pipeVars
        => OnlyLongFilesFail'
  <2> SUFFICES ASSUME Books, Remainder, OneBurst, OnlyLongFilesFail, [Next]_pipeVars
               PROVE  OnlyLongFilesFail'
    OBVIOUS
  <2>1. CASE UNCHANGED pipeVars
    BY <2>1 DEF pipeVars, OnlyLongFilesFail
  <2>2. CASE proc' # "assert_size"
    BY <2>2 DEF OnlyLongFilesFail
  <2>3. ASSUME NEW c \in Conns, OnWriteRes(c), proc' = "assert_size"
        PROVE  OnlyLongFilesFail'
    <3> DEFINE p == Written(pipe[c])
    <3>1. pipe[c].mem = "live" /\ WriteDone(c, p)
      BY <2>3 DEF OnWriteRes
    <3>2. /\ pipe[c] \in Pipes /\ p.nwritten = pipe[c].nwritten + 1
          /\ p.nread = pipe[c].nread /\ p.size = pipe[c].size
          /\ pipe[c].nwritten \in Nat /\ pipe[c].nread \in Nat
          /\ pipe[c].size \in Nat /\ file[c].left \in Nat
      BY PipeUpdates DEF Books, TypeOK, Pipes, Files
    <3>3. pipe[c].size <= Batch => pipe[c].nread = 0 \/ file[c].left = 0
      BY <2>3, <3>1 DEF OnWriteRes, LoopFree, OneBurst
    <3>4. pipe[c].nread + file[c].left = pipe[c].size
      BY <3>1 DEF Remainder
    <3>5. pipe[c].size <= Batch /\ AllWritten(p) => SizeAsserted(p)
      BY <3>2, <3>3, <3>4 DEF AllWritten, SizeAsserted
    <3>6. proc = "running"
      BY <2>3 DEF OnWriteRes, LoopFree
    <3> HIDE DEF p
    <3>7. AllWritten(p) /\ ~SizeAsserted(p) /\ pipe' = [pipe EXCEPT ![c] = p]
      BY <2>3, <3>1, <3>6 DEF WriteDone, FileTcpPipeEnd, OnPipeFileComplete
    <3>8. pipe'[c].size > Batch
      BY <3>2, <3>5, <3>7, BatchPositive DEF Books, TypeOK
    <3>9. QED
      BY <3>8 DEF OnlyLongFilesFail
  <2>4. ASSUME NEW c \in Conns, NEW status, EndOfRead(c, status)
        PROVE  proc' # "assert_size"
    BY <2>4 DEF EndOfRead, FileTcpPipeEnd, OnPipeFileComplete
  <2>5. ASSUME NEW c \in Conns, Serve(c) PROVE proc' # "assert_size"
    BY <2>5 DEF Serve, SwsPipeFile, LoopFree
  <2>6. QED
    BY <2>1, <2>2, <2>3, <2>4, <2>5
    DEF Next, Over, Step, Transfer, Released, OnFileRead, OnFileEof, OnFileAgain,
      OnFileError, OnFileData,
        PollFile, OnWriteError, OnResEnd, Pollout, FileGrows, LoopFree
<1>4. QED
  BY <1>1, <1>2, <1>3, BooksHold, RemainderHolds, PTL DEF Spec

-----------------------------------------------------------------------------
(* Piping a file implements FileTransfer.                                   *)

\* A stopped process takes no step.
LEMMA StoppedStays == proc # "running" /\ [Next]_pipeVars => UNCHANGED pipeVars
  BY DEF Next, Over, Step, Transfer, Released, OnFileRead, OnFileEof, OnFileAgain,
      OnFileError, OnFileData,
         EndOfRead, PollFile, OnWriteRes, OnWriteError, OnResEnd, Pollout, FileGrows,
         Serve, LoopFree, pipeVars

\* A step that stops the process and leaves the sums and the completed transfers
\* alone fails every other transfer.
LEMMA StopFails ==
  ASSUME proc = "running", proc' # "running",
         \A c \in Conns : /\ pipe'[c].mem = "freed" <=> pipe[c].mem = "freed"
                          /\ pipe'[c].size = pipe[c].size
                          /\ pipe'[c].nwritten + flushed'[c] = pipe[c].nwritten + flushed[c]
  PROVE  FT!Fail
<1>1. Outcome' = [c \in Conns |-> IF Outcome[c] = "complete" THEN "complete" ELSE "failed"]
  BY DEF Outcome
<1>2. Length' = Length /\ Sent' = Sent
  BY DEF Length, Sent
<1>3. QED
  BY <1>1, <1>2 DEF FT!Fail

\* A step that moves no record between states and no sum is none of FileTransfer.
LEMMA QuietStep ==
  ASSUME proc' = proc,
         \A c \in Conns : /\ pipe'[c].mem = pipe[c].mem
                          /\ pipe'[c].size = pipe[c].size
                          /\ pipe'[c].nwritten + flushed'[c] = pipe[c].nwritten + flushed[c]
  PROVE  UNCHANGED FT!ftVars
<1>1. Outcome' = Outcome
  BY DEF Outcome
<1>2. Length' = Length /\ Sent' = Sent
  BY DEF Length, Sent
<1>3. QED
  BY <1>1, <1>2 DEF FT!ftVars

\* Handing part of a live transfer to the kernel delivers it.
LEMMA DeliverStep ==
  ASSUME NEW c \in Conns, proc = "running", proc' = proc, pipe[c].mem = "live",
         TypeOK, TypeOK',
         \A d \in Conns : /\ pipe'[d].mem = pipe[d].mem
                          /\ pipe'[d].size = pipe[d].size
                          /\ pipe'[d].nwritten = pipe[d].nwritten,
         \A d \in Conns \ {c} : flushed'[d] = flushed[d],
         flushed'[c] > flushed[c]
  PROVE  FT!Deliver(c)
<1>1. Outcome' = Outcome /\ Length' = Length /\ Outcome[c] = "sending"
  BY DEF Outcome, Length
<1>2. Sent'[c] > Sent[c]
  BY DEF Sent, TypeOK, Pipes
<1>3. Sent' = [Sent EXCEPT ![c] = Sent'[c]]
  BY DEF Sent
<1>4. QED
  BY <1>1, <1>2, <1>3 DEF FT!Deliver

LEMMA ServeRefines ==
  ASSUME Books, NEW c \in Conns, Serve(c)
  PROVE  [FT!Next]_FT!ftVars
<1>1. PICK s \in Lengths : SwsPipeFile(c, s, s)
  BY DEF Serve
<1>2. /\ pipe[c].mem = "none" /\ pipe[c].nwritten = 0 /\ flushed[c] = 0
      /\ proc = "running" /\ flushed' = flushed
  BY <1>1 DEF Serve, LoopFree, TcpDataFree, Books, Shape, SwsPipeFile
<1>3. CASE pipe' = pipe /\ proc' = "exited"
  BY <1>2, <1>3, StopFails DEF FT!Next
<1>4. CASE pipe' = [pipe EXCEPT ![c] = NewPipe(s)] /\ proc' = proc
  <2>1. NewPipe(s).mem = "live" /\ NewPipe(s).nwritten = 0
    BY DEF NewPipe
  <2>2. Outcome[c] = "idle" /\ Outcome' = [Outcome EXCEPT ![c] = "sending"]
    BY <1>2, <1>4, <2>1 DEF Outcome, Books, TypeOK
  <2>3. Length' = [Length EXCEPT ![c] = Length'[c]]
    BY <1>4 DEF Length, Books, TypeOK
  <2>4. Sent' = Sent
    BY <1>2, <1>4, <2>1 DEF Sent, Books, TypeOK
  <2>5. QED
    BY <2>2, <2>3, <2>4 DEF FT!Next, FT!Begin
<1>5. QED
  BY <1>1, <1>2, <1>3, <1>4 DEF SwsPipeFile, TcpDataFree

LEMMA OnFileDataRefines ==
  ASSUME Books, Books', NEW c \in Conns, OnFileData(c)
  PROVE  [FT!Next]_FT!ftVars
<1>1. pipe[c].mem = "live" /\ tcp[c] = "open" /\ pipe[c] \in Pipes /\ proc = "running"
      /\ proc' = proc
  BY DEF OnFileData, Books, Shape, TypeOK
<1>2. \A d \in Conns : /\ pipe'[d].mem = pipe[d].mem
                       /\ pipe'[d].size = pipe[d].size
                       /\ pipe'[d].nwritten = pipe[d].nwritten
  BY <1>1, PipeUpdates DEF OnFileData, Books, TypeOK
<1>3. CASE flushed' = flushed
  BY <1>1, <1>2, <1>3, QuietStep
<1>4. CASE flushed' = [flushed EXCEPT ![c] = @ + 1]
  <2>1. flushed'[c] > flushed[c] /\ \A d \in Conns \ {c} : flushed'[d] = flushed[d]
    BY <1>4 DEF Books, TypeOK
  <2>2. FT!Deliver(c)
    BY <1>1, <1>2, <2>1, DeliverStep DEF Books
  <2>3. QED
    BY <2>2 DEF FT!Next
<1>5. QED
  BY <1>3, <1>4 DEF OnFileData, WriteData

LEMMA OnWriteResRefines ==
  ASSUME Books, Books', CompletionIsWhole, CompletionIsWhole', NEW c \in Conns, OnWriteRes(c)
  PROVE  [FT!Next]_FT!ftVars
<1> DEFINE p == Written(pipe[c])
<1>1. /\ proc = "running" /\ flushed[c] > 0 /\ flushed[c] \in Nat
      /\ flushed' = [flushed EXCEPT ![c] = @ - 1]
  BY DEF OnWriteRes, LoopFree, Books, TypeOK
<1>2. pipe[c].mem = "live"
  BY <1>1 DEF Books, Shape, CompletionIsWhole, TypeOK, Pipes
<1>3. /\ pipe[c] \in Pipes /\ p \in Pipes /\ p.mem = "live" /\ p.size = pipe[c].size
      /\ p.nwritten = pipe[c].nwritten + 1 /\ pipe[c].nwritten \in Nat
      /\ CompletedAs(p).mem = "freed" /\ CompletedAs(p).size = p.size
      /\ CompletedAs(p).nwritten = p.nwritten
  BY <1>2, PipeUpdates DEF Books, TypeOK, Pipes
<1>4. WriteDone(c, p)
  BY <1>2 DEF OnWriteRes
<1> HIDE DEF p
<1>5. \/ pipe' = [pipe EXCEPT ![c] = p]
      \/ pipe' = [pipe EXCEPT ![c] = CompletedAs(p)] /\ proc' = proc
  BY <1>1, <1>2, <1>3, <1>4, EndEffect DEF WriteDone, Books
<1>6. \A d \in Conns : /\ pipe'[d].size = pipe[d].size
                       /\ pipe'[d].nwritten + flushed'[d] = pipe[d].nwritten + flushed[d]
                       /\ d # c => pipe'[d] = pipe[d]
  BY <1>1, <1>3, <1>5 DEF Books, TypeOK
<1>7. CASE pipe'[c].mem = "freed"
  <2>1. /\ pipe'[c].nwritten = pipe'[c].size /\ flushed'[c] = 0
        /\ proc' = "running" /\ pipe'[c].size \in Nat
    BY <1>2, <1>7, CompletingWrite DEF Books, TypeOK, Pipes
  <2>2. Length' = Length /\ Sent' = Sent /\ Sent'[c] = Length'[c]
    BY <1>6, <2>1 DEF Length, Sent
  <2>3. Outcome[c] = "sending" /\ Outcome' = [Outcome EXCEPT ![c] = "complete"]
    BY <1>1, <1>2, <1>6, <1>7, <2>1 DEF Outcome
  <2>4. FT!Complete(c)
    BY <2>2, <2>3 DEF FT!Complete
  <2>5. QED
    BY <2>4 DEF FT!Next
<1>8. CASE pipe'[c].mem # "freed"
  <2>1. pipe'[c].mem = pipe[c].mem
    BY <1>2, <1>3, <1>5, <1>8 DEF Books, TypeOK
  <2>2. CASE proc' = "running"
    BY <1>1, <1>6, <2>1, <2>2, QuietStep
  <2>3. CASE proc' # "running"
    BY <1>1, <1>6, <2>1, <2>3, StopFails DEF FT!Next
  <2>4. QED
    BY <2>2, <2>3
<1>9. QED
  BY <1>7, <1>8

LEMMA StepRefines ==
  ASSUME "again" \notin Faults
  PROVE  Books /\ Books' /\ CompletionIsWhole /\ CompletionIsWhole' /\ [Next]_pipeVars
           => [FT!Next]_FT!ftVars
<1> SUFFICES ASSUME Books, Books', CompletionIsWhole, CompletionIsWhole', [Next]_pipeVars
             PROVE  [FT!Next]_FT!ftVars
  OBVIOUS
<1>1. CASE UNCHANGED pipeVars
  BY <1>1, QuietStep DEF pipeVars
<1>2. CASE proc # "running"
  BY <1>1, <1>2, StoppedStays
<1>3. CASE proc = "running" /\ UNCHANGED <<pipe, flushed>>
  BY <1>3, QuietStep, StopFails DEF FT!Next
<1>4. ASSUME NEW c \in Conns, Serve(c) PROVE [FT!Next]_FT!ftVars
  BY <1>4, ServeRefines
<1>5. ASSUME NEW c \in Conns, OnFileData(c) PROVE [FT!Next]_FT!ftVars
  BY <1>5, OnFileDataRefines
<1>6. ASSUME NEW c \in Conns, NEW status, status # "ok", EndOfRead(c, status)
      PROVE  [FT!Next]_FT!ftVars
  <2>1. pipe' = pipe /\ flushed' = flushed /\ proc = "running"
    BY <1>6 DEF EndOfRead, FileTcpPipeEnd, OnPipeFileComplete, Books, TypeOK
  <2>2. QED
    BY <1>3, <2>1
<1>7. ASSUME NEW c \in Conns, OnWriteRes(c) PROVE [FT!Next]_FT!ftVars
  BY <1>7, OnWriteResRefines
<1>8. ASSUME NEW c \in Conns, Pollout(c) PROVE [FT!Next]_FT!ftVars
  <2>1. /\ proc = "running" /\ proc' = proc /\ pipe' = pipe /\ pipe[c].mem = "live"
        /\ flushed'[c] > flushed[c] /\ \A d \in Conns \ {c} : flushed'[d] = flushed[d]
    BY <1>8 DEF Pollout, LoopFree, Books, Shape, TypeOK, Pipes
  <2>2. FT!Deliver(c)
    BY <2>1, DeliverStep DEF Books
  <2>3. QED
    BY <2>2 DEF FT!Next
<1>9. QED
  BY <1>1, <1>2, <1>3, <1>4, <1>5, <1>6, <1>7, <1>8
  DEF Next, Over, Step, Transfer, Released, OnFileRead, OnFileEof, OnFileAgain,
      OnFileError,
      PollFile, OnWriteError, OnResEnd, FileGrows

\* pipe-file.c implements the abstract transfer: pieces go out in order, and
\* complete is reported for exactly the announced length.
THEOREM PipeFileRefines ==
  ASSUME "again" \notin Faults
  PROVE  Spec => ImplementsFileTransfer
<1>1. Init => FT!Init
  BY DEF Init, FT!Init, Outcome, Length, Sent, NoPipe
<1>2. Books /\ Books' /\ CompletionIsWhole /\ CompletionIsWhole' /\ [Next]_pipeVars
        => [FT!Next]_FT!ftVars
  BY StepRefines
<1>3. QED
  BY <1>1, <1>2, BooksHold, CompletionMeansWhole, PTL
  DEF Spec, ImplementsFileTransfer, FT!Spec

-----------------------------------------------------------------------------
(* The server around the transfers.                                         *)

ServerTypes ==
  /\ TypeOK
  /\ arrived \in [Conns -> BOOLEAN] /\ asked \in [Conns -> Nat]
  /\ path \in [Conns -> Resources] /\ stats \in [Conns -> [Resources -> Nat]]
  /\ unset \in [Conns -> BOOLEAN]

\* Nothing of a transfer is under way on a connection without a record.
Quiet ==
  \A c \in Conns :
    /\ burst[c] > 0 => active[c]
    /\ pipe[c].mem = "none" => ~active[c] /\ queued[c] = 0 /\ flushed[c] = 0

\* Where the only request of a connection is: not sent yet, in its stat, whose path
\* is that of the connection, or in a transfer.
OneRequest ==
  \A c \in Conns :
    /\ asked[c] = 0 => pipe[c].mem = "none" /\ \A r \in Resources : stats[c][r] = 0
    /\ Single(c) => \A r \in Resources :
         stats[c][r] > 0 => stats[c][r] = 1 /\ path[c] = r /\ pipe[c].mem = "none"

Stages == ServerTypes /\ Quiet /\ OneRequest

-----------------------------------------------------------------------------
(* What the steps of a transfer leave alone.                                *)

LEMMA PipeStepType == ASSUME ServerTypes, NEW c \in Conns, PipeStep(c) PROVE TypeOK'
<1>1. TypeOK /\ unset[c] \in BOOLEAN
  BY DEF ServerTypes
<1>2. Step(c) \/ FileGrows(c)
  BY <1>1 DEF PipeStep, Step, Released
<1> QED BY <1>1, <1>2, TypeCorrectStep DEF Next

Same(d) ==
  /\ tcp'[d] = tcp[d] /\ pipe'[d] = pipe[d] /\ active'[d] = active[d] /\ file'[d] = file[d]
  /\ burst'[d] = burst[d] /\ queued'[d] = queued[d] /\ flushed'[d] = flushed[d]

\* A step of a transfer is one of its connection, and neither begins a transfer nor
\* forgets one.
LEMMA PipeStepFrame ==
  ASSUME ServerTypes, Quiet, NEW c \in Conns, PipeStep(c)
  PROVE  /\ UNCHANGED <<active, reqVars>> /\ \A d \in Conns \ {c} : Same(d)
         /\ (pipe'[c].mem = "none") <=> (pipe[c].mem = "none")
         /\ pipe[c].mem = "none" => queued'[c] = queued[c] /\ flushed'[c] = flushed[c]
         /\ burst'[c] > 0 => active[c]
<1> USE DEF Same
<1>1. TypeOK /\ pipe[c] \in Pipes /\ UNCHANGED reqVars
      /\ burst[c] \in Nat /\ queued[c] \in Nat /\ flushed[c] \in Nat
  BY BatchPositive DEF ServerTypes, TypeOK, PipeStep
<1>2. ReadCount(pipe[c]).mem = pipe[c].mem /\ Written(pipe[c]) \in Pipes
      /\ Written(pipe[c]).mem = pipe[c].mem
      /\ CompletedAs(pipe[c]).mem = "freed" /\ CompletedAs(Written(pipe[c])).mem = "freed"
  BY <1>1, PipeUpdates
<1>3. CASE PollFile(c)
  BY <1>1, <1>3 DEF PollFile, TypeOK
<1>4. CASE OnFileData(c)
  <2>1. pipe[c].mem # "none" /\ active[c]
    BY <1>1, <1>4 DEF OnFileData, Quiet
  <2> QED BY <1>1, <1>2, <1>4, <2>1 DEF OnFileData, WriteData, TypeOK
<1>5. ASSUME NEW status, EndOfRead(c, status)
      PROVE  /\ UNCHANGED <<active, queued, flushed>> /\ \A d \in Conns \ {c} : Same(d)
             /\ burst'[c] = 0 /\ (pipe'[c].mem = "none" <=> pipe[c].mem = "none")
  <2>1. pipe[c].mem # "none"
    BY <1>1, <1>5 DEF EndOfRead, Quiet
  <2> QED
    BY <1>1, <1>2, <1>5, <2>1 DEF EndOfRead, FileTcpPipeEnd, OnPipeFileComplete, TypeOK
<1>6. CASE OnWriteRes(c)
  <2>1. pipe[c].mem # "none"
    BY <1>1, <1>6 DEF OnWriteRes, Quiet
  <2> QED
    BY <1>1, <1>2, <1>6, <2>1
    DEF OnWriteRes, WriteDone, FileTcpPipeEnd, OnPipeFileComplete, LoopFree, TypeOK
<1>7. CASE OnWriteError(c)
  BY <1>1, <1>7 DEF OnWriteError, Quiet
<1>8. CASE Pollout(c)
  BY <1>1, <1>8 DEF Pollout, Quiet, TypeOK
<1>9. CASE OnResEnd(c, unset[c])
  BY <1>1, <1>9 DEF OnResEnd, Quiet, TypeOK
<1>10. CASE FileGrows(c)
  BY <1>1, <1>10 DEF FileGrows, Quiet, TypeOK
<1> QED
  BY <1>1, <1>3, <1>4, <1>5, <1>6, <1>7, <1>8, <1>9, <1>10
  DEF PipeStep, Transfer, OnFileRead, OnFileEof, OnFileAgain, OnFileError, Quiet

-----------------------------------------------------------------------------
(* The stages of a request.                                                 *)

LEMMA StagesInit == ServerInit => Stages
<1> SUFFICES ASSUME ServerInit PROVE Stages
  OBVIOUS
<1>1. TypeOK
  BY TypeCorrectInit DEF ServerInit
<1>2. ServerTypes
  BY <1>1 DEF ServerInit, ServerTypes, Resources
<1>3. Quiet /\ OneRequest
  BY DEF ServerInit, Init, NoPipe, Quiet, OneRequest
<1> QED BY <1>2, <1>3 DEF Stages

LEMMA PipeStepStages ==
  ASSUME Stages, NEW c \in Conns, PipeStep(c) PROVE Stages'
<1>1. ServerTypes'
  BY PipeStepType DEF Stages, ServerTypes, PipeStep, reqVars
<1>2. /\ UNCHANGED <<active, arrived, asked, path, stats>> /\ \A d \in Conns \ {c} : Same(d)
      /\ (pipe'[c].mem = "none") <=> (pipe[c].mem = "none")
      /\ pipe[c].mem = "none" => queued'[c] = queued[c] /\ flushed'[c] = flushed[c]
      /\ burst'[c] > 0 => active[c]
  BY PipeStepFrame DEF Stages, reqVars
<1>3. Quiet'
  BY <1>2 DEF Stages, Quiet, Same
<1>4. OneRequest'
  BY <1>2 DEF Stages, OneRequest, Single, Same
<1> QED BY <1>1, <1>3, <1>4 DEF Stages

\* Closing the connection, or stopping, is no stage of the request.
LEMMA OthersStages ==
  ASSUME Stages, ServerTypes',
         UNCHANGED <<pipe, active, burst, queued, flushed, asked, path, stats>>
  PROVE  Stages'
BY DEF Stages, Quiet, OneRequest, Single

LEMMA UvCloseType ==
  ASSUME TypeOK, NEW c \in Conns, NEW cb, UvClose(c, cb) PROVE TypeOK'
BY DEF UvClose, TypeOK, TcpStates

LEMMA OnMessageStages ==
  ASSUME Stages, NEW c \in Conns, OnMessage(c) PROVE Stages'
<1>1. /\ ServerTypes /\ asked' = [asked EXCEPT ![c] = @ + 1] /\ asked[c] \in Nat
      /\ asked'[c] = asked[c] + 1 /\ \A d \in Conns \ {c} : asked'[d] = asked[d]
  BY DEF OnMessage, Stages, ServerTypes
<1>2. asked' \in [Conns -> Nat] /\ unset' \in [Conns -> BOOLEAN]
  <2>1. PICK headless \in BOOLEAN : unset' = [unset EXCEPT ![c] = @ /\ headless]
    BY DEF OnMessage
  <2> QED BY <1>1, <2>1 DEF ServerTypes
<1>3. CASE OnParseComplete(c)
  <2>1. PICK r \in Resources : Resolve(c, r, stats[c])
    BY <1>3 DEF OnParseComplete
  <2>2. /\ path' \in [Conns -> Resources] /\ path'[c] = r
        /\ \A d \in Conns \ {c} : path'[d] = path[d]
    BY <1>1, <2>1 DEF Resolve, ServerTypes
  <2>3. /\ stats' \in [Conns -> [Resources -> Nat]]
        /\ stats'[c][r] = stats[c][r] + 1
        /\ \A q \in Resources \ {r} : stats'[c][q] = stats[c][q]
        /\ \A d \in Conns \ {c} : stats'[d] = stats[d]
    BY <1>1, <2>1 DEF Resolve, ServerTypes
  <2>4. UNCHANGED <<proc, tcp, pipe, active, file, burst, queued, flushed, arrived>>
    BY <1>3 DEF OnParseComplete, pipeVars
  <2>5. ServerTypes'
    BY <1>1, <1>2, <2>2, <2>3, <2>4 DEF ServerTypes, TypeOK
  <2>6. Quiet'
    BY <2>4 DEF Stages, Quiet
  <2>7. OneRequest'
    <3> SUFFICES ASSUME NEW d \in Conns
                 PROVE  /\ asked'[d] = 0 => pipe'[d].mem = "none" /\ \A q \in Resources : stats'[d][q] = 0
                        /\ asked'[d] <= 1 => \A q \in Resources : stats'[d][q] > 0 =>
                             stats'[d][q] = 1 /\ path'[d] = q /\ pipe'[d].mem = "none"
      BY DEF OneRequest, Single
    <3>1. CASE d # c
      BY <1>1, <2>2, <2>3, <2>4, <3>1 DEF Stages, OneRequest, Single
    <3>2. CASE d = c
      <4>1. asked'[c] # 0
        BY <1>1
      <4>2. asked'[c] <= 1 => asked[c] = 0
        BY <1>1
      <4>3. asked'[c] <= 1 => /\ pipe'[c].mem = "none" /\ stats'[c][r] = 1
                              /\ \A q \in Resources \ {r} : stats'[c][q] = 0
        BY <2>3, <2>4, <4>2 DEF Stages, OneRequest
      <4> QED BY <2>2, <3>2, <4>1, <4>3
    <3> QED BY <3>1, <3>2
  <2> QED BY <2>5, <2>6, <2>7 DEF Stages
<1>4. CASE UvClose(c, ParseErrorCloses) /\ UNCHANGED <<arrived, path, stats>>
  <2>1. ServerTypes'
    BY <1>1, <1>2, <1>4, UvCloseType DEF ServerTypes
  <2>2. UNCHANGED <<pipe, active, burst, queued, flushed>>
    BY <1>4 DEF UvClose
  <2>3. Quiet'
    BY <2>2 DEF Stages, Quiet
  <2>4. OneRequest'
    BY <1>1, <1>4, <2>2 DEF Stages, OneRequest, Single
  <2> QED BY <2>1, <2>3, <2>4 DEF Stages
<1> QED BY <1>3, <1>4 DEF OnMessage

\* The number of stats that are in flight for each resource, once one is called back.
LEMMA StatDoneCounts ==
  ASSUME ServerTypes, NEW c \in Conns, NEW r \in Resources, stats[c][r] > 0
  PROVE  /\ StatDone(c, r) \in [Resources -> Nat] /\ StatDone(c, r)[r] = stats[c][r] - 1
         /\ \A q \in Resources \ {r} : StatDone(c, r)[q] = stats[c][q]
<1>1. stats[c] \in [Resources -> Nat] /\ stats[c][r] - 1 \in Nat
  BY DEF ServerTypes
<1> QED BY <1>1 DEF StatDone

LEMMA OnStatStages ==
  ASSUME Stages, NEW c \in Conns, NEW r \in Resources, OnStat(c, r) PROVE Stages'
<1>1. ServerTypes /\ TypeOK /\ stats[c][r] > 0 /\ stats[c] \in [Resources -> Nat]
  BY DEF OnStat, Stages, ServerTypes
<1> DEFINE pending == StatDone(c, r)
<1>2. /\ pending \in [Resources -> Nat] /\ pending[r] = stats[c][r] - 1
      /\ \A q \in Resources \ {r} : pending[q] = stats[c][q]
  BY <1>1, StatDoneCounts
<1>3. /\ asked[c] # 0
      /\ Single(c) => /\ pipe[c].mem = "none" /\ path[c] = r /\ stats[c][r] = 1
                      /\ \A q \in Resources \ {r} : stats[c][q] = 0
  BY <1>1 DEF Stages, OneRequest
<1>4. Single(c) => \A q \in Resources : pending[q] = 0
  BY <1>2, <1>3
<1> HIDE DEF pending
<1>5. CASE UNCHANGED <<tcp, pipe, active, file, burst, queued, flushed, reqVars>> /\ proc' \in ProcStates
  BY <1>1, <1>5, OthersStages DEF reqVars, ServerTypes, TypeOK
<1>6. CASE Resolve(c, Fallback, pending) /\ UNCHANGED <<pipeVars, arrived, asked, unset>>
  <2>1. Fallback \in Resources
    BY NotFoundKnown DEF Fallback
  <2>2. /\ path' \in [Conns -> Resources] /\ path'[c] = Fallback
        /\ \A d \in Conns \ {c} : path'[d] = path[d]
    BY <1>1, <1>6, <2>1 DEF Resolve, ServerTypes
  <2>3. /\ stats' \in [Conns -> [Resources -> Nat]]
        /\ stats'[c][Fallback] = pending[Fallback] + 1
        /\ \A q \in Resources \ {Fallback} : stats'[c][q] = pending[q]
        /\ \A d \in Conns \ {c} : stats'[d] = stats[d]
    BY <1>1, <1>2, <1>6, <2>1 DEF Resolve, ServerTypes
  <2>4. UNCHANGED <<proc, tcp, pipe, active, file, burst, queued, flushed, arrived, asked, unset>>
    BY <1>6 DEF pipeVars
  <2>5. ServerTypes' /\ Quiet'
    BY <1>1, <2>2, <2>3, <2>4 DEF ServerTypes, TypeOK, Stages, Quiet
  <2>6. OneRequest'
    <3> SUFFICES ASSUME NEW d \in Conns
                 PROVE  /\ asked[d] = 0 => pipe[d].mem = "none" /\ \A q \in Resources : stats'[d][q] = 0
                        /\ asked[d] <= 1 => \A q \in Resources : stats'[d][q] > 0 =>
                             stats'[d][q] = 1 /\ path'[d] = q /\ pipe[d].mem = "none"
      BY <2>4 DEF OneRequest, Single
    <3>1. CASE d # c
      BY <2>2, <2>3, <3>1 DEF Stages, OneRequest, Single
    <3>2. CASE d = c
      <4>1. asked[c] <= 1 => /\ pipe[c].mem = "none" /\ stats'[c][Fallback] = 1
                             /\ \A q \in Resources \ {Fallback} : stats'[c][q] = 0
        BY <1>3, <1>4, <2>1, <2>3 DEF Single
      <4> QED BY <1>3, <2>2, <3>2, <4>1
    <3> QED BY <3>1, <3>2
  <2> QED BY <2>5, <2>6 DEF Stages
<1>7. CASE /\ r # Missing /\ path[c] # Missing /\ SwsPipeFile(c, r, path[c])
           /\ stats' = [stats EXCEPT ![c] = pending] /\ UNCHANGED <<arrived, asked, path, unset>>
  <2>1. r \in Lengths /\ path[c] \in Lengths
    BY <1>1, <1>7 DEF Resources, ServerTypes
  <2>2. /\ stats' \in [Conns -> [Resources -> Nat]] /\ stats'[c] = pending
        /\ \A d \in Conns \ {c} : stats'[d] = stats[d]
    BY <1>1, <1>2, <1>7 DEF ServerTypes
  <2>3. /\ UNCHANGED <<tcp, burst, queued, flushed>> /\ proc' \in ProcStates
        /\ \/ UNCHANGED <<pipe, active, file>>
           \/ /\ \E f \in FilesFor(path[c]) : file' = [file EXCEPT ![c] = f]
              /\ pipe' = [pipe EXCEPT ![c] = NewPipe(r)]
              /\ active' = [active EXCEPT ![c] = TRUE]
    BY <1>1, <1>7 DEF SwsPipeFile, TypeOK, ProcStates
  <2>4. FilesFor(path[c]) \subseteq Files /\ NewPipe(r) \in Pipes /\ NewPipe(r).mem = "live"
    BY <2>1, FilesForType, LengthsNat DEF NewPipe, Pipes
  <2>5. pipe' \in [Conns -> Pipes] /\ file' \in [Conns -> Files] /\ active' \in [Conns -> BOOLEAN]
    BY <1>1, <2>3, <2>4 DEF TypeOK
  <2>6. ServerTypes'
    BY <1>1, <1>7, <2>2, <2>3, <2>5 DEF ServerTypes, TypeOK
  <2>7. /\ \A d \in Conns \ {c} : pipe'[d] = pipe[d] /\ active'[d] = active[d]
        /\ \/ pipe'[c] = pipe[c] /\ active'[c] = active[c]
           \/ pipe'[c].mem = "live" /\ active'[c] = TRUE
    BY <1>1, <2>3, <2>4 DEF TypeOK
  <2>8. Quiet'
    BY <2>3, <2>7 DEF Stages, Quiet
  <2>9. OneRequest'
    BY <1>3, <1>4, <1>7, <2>2, <2>7 DEF Stages, OneRequest, Single
  <2> QED BY <2>6, <2>8, <2>9 DEF Stages
<1>8. "undefined" \in ProcStates /\ "exited" \in ProcStates /\ "assert_data" \in ProcStates
  BY DEF ProcStates
<1> QED BY <1>5, <1>6, <1>7, <1>8 DEF OnStat, ProcStops, pending

LEMMA StagesStep == Stages /\ [ServerNext]_vars => Stages'
<1> SUFFICES ASSUME Stages, [ServerNext]_vars PROVE Stages'
  OBVIOUS
<1>1. CASE UNCHANGED vars
  BY <1>1, OthersStages DEF vars, pipeVars, reqVars, Stages, ServerTypes, TypeOK
<1>2. ASSUME NEW c \in Conns, NEW cb, UvClose(c, cb), UNCHANGED <<asked, path, stats, unset>>,
             arrived' \in [Conns -> BOOLEAN]
      PROVE  Stages'
  <2>1. ServerTypes'
    BY <1>2, UvCloseType DEF Stages, ServerTypes
  <2> QED BY <1>2, <2>1, OthersStages DEF UvClose
<1>6. ASSUME NEW how \in ProcStates, ProcStops(how), UNCHANGED <<asked, path, stats, unset>>,
             arrived' \in [Conns -> BOOLEAN]
      PROVE  Stages'
  <2>1. ServerTypes'
    BY <1>6 DEF ProcStops, Stages, ServerTypes, TypeOK
  <2> QED BY <1>6, <2>1, OthersStages DEF ProcStops
<1>7. "exited" \in ProcStates /\ "assert_header" \in ProcStates
  BY DEF ProcStates
<1>3. ASSUME NEW c \in Conns, OnConnect(c) PROVE Stages'
  <2>1. arrived' \in [Conns -> BOOLEAN]
    BY <1>3 DEF OnConnect, Stages, ServerTypes
  <2>2. CASE UNCHANGED pipeVars
    BY <1>3, <2>1, <2>2, OthersStages DEF OnConnect, pipeVars, Stages, ServerTypes, TypeOK
  <2> QED BY <1>2, <1>3, <1>6, <1>7, <2>1, <2>2 DEF OnConnect
<1>4. ASSUME NEW c \in Conns, OnReqRead(c) PROVE Stages'
  <2>1. arrived \in [Conns -> BOOLEAN]
    BY DEF Stages, ServerTypes
  <2> QED BY <1>2, <1>4, <1>6, <1>7, <2>1, OnMessageStages DEF OnReqRead, reqVars
<1>5. ASSUME NEW c \in Conns, OnDropped(c) PROVE Stages'
  <2>1. ServerTypes'
    BY <1>5 DEF OnDropped, Stages, ServerTypes, TypeOK, TcpStates, reqVars
  <2> QED BY <1>5, <2>1, OthersStages DEF OnDropped, reqVars
<1> QED
  BY <1>1, <1>3, <1>4, <1>5, PipeStepStages, OnStatStages DEF ServerNext, ServerOver

LEMMA StagesHold == ServerSpec => []Stages
<1> QED BY StagesInit, StagesStep, PTL DEF ServerSpec

\* What the one request of a connection needs (resolve-resource.c:89, pipe-file.c:74)
\* is in the hands of one stat or of one record, however the callbacks of other
\* connections fall between, and whatever clients do.
THEOREM OneOwner == ServerSpec => []OneStageAtATime
<1>1. Stages => OneStageAtATime
  BY DEF Stages, OneRequest, OneStageAtATime
<1> QED BY <1>1, StagesHold, PTL

-----------------------------------------------------------------------------
(* The end of a request, if files keep their lengths, and a read that finds *)
(* nothing is not taken for the end.                                        *)

\* What was read and what is left make up the announced length.
Measure ==
  \A c \in Conns : Single(c) /\ pipe[c].mem # "none" =>
    pipe[c].nread + file[c].left = pipe[c].size

\* A connection that was closed to be freed has nothing before it.
Ending ==
  \A c \in Conns :
    /\ tcp[c] \in {"closing", "freed"} /\ Single(c) =>
         /\ \A r \in Resources : stats[c][r] = 0
         /\ active[c] => file[c].left = 0
    /\ tcp[c] = "freed" => queued[c] = 0 /\ flushed[c] = 0

\* on_write_res closes the connection only when all of the file was read.
LEMMA ClosingWrite ==
  ASSUME Stages, Measure, Ending, NEW c \in Conns, OnWriteRes(c)
  PROVE  /\ UNCHANGED <<file, active, queued>>
         /\ tcp[c] # "freed"
         /\ pipe'[c].nread = pipe[c].nread /\ pipe'[c].size = pipe[c].size
         /\ \/ tcp'[c] = tcp[c]
            \/ tcp'[c] = "closing" /\ pipe[c].size = pipe[c].nread
         /\ pipe[c].mem # "none"
<1> DEFINE p == Written(pipe[c])
<1>1. /\ pipe[c] \in Pipes /\ p \in Pipes /\ p.size = pipe[c].size /\ p.nread = pipe[c].nread
      /\ CompletedAs(p).nread = p.nread /\ CompletedAs(p).size = p.size
  BY PipeUpdates DEF Stages, ServerTypes, TypeOK
<1>2. flushed[c] > 0 /\ UNCHANGED <<file, active, queued>>
      /\ (WriteDone(c, p) \/ UNCHANGED <<tcp, pipe>>)
  BY DEF OnWriteRes
<1>3. tcp[c] # "freed" /\ pipe[c].mem # "none"
  BY <1>2 DEF Ending, Stages, Quiet
<1> HIDE DEF p
<1>4. CASE WriteDone(c, p)
  BY <1>1, <1>2, <1>3, <1>4
  DEF WriteDone, FileTcpPipeEnd, OnPipeFileComplete, SizeAsserted, Stages, ServerTypes, TypeOK
<1> QED BY <1>2, <1>3, <1>4

LEMMA PipeStepEnds ==
  ASSUME "again" \notin Faults, "resize" \notin Faults,
         Stages, Measure, Ending, NEW c \in Conns, PipeStep(c)
  PROVE  Measure' /\ Ending'
<1>1. /\ UNCHANGED <<active, asked, stats>> /\ \A d \in Conns \ {c} : Same(d)
      /\ (pipe'[c].mem = "none") <=> (pipe[c].mem = "none")
  BY PipeStepFrame DEF Stages, reqVars
<1>2. /\ pipe[c] \in Pipes /\ pipe[c].nread \in Nat /\ pipe[c].size \in Nat
      /\ file[c] \in Files /\ file[c].left \in Nat /\ asked[c] \in Nat
      /\ queued[c] \in Nat /\ flushed[c] \in Nat
  BY DEF Stages, ServerTypes, TypeOK, Pipes, Files
<1>3. SUFFICES
        /\ Single(c) /\ pipe[c].mem # "none" => pipe'[c].nread + file'[c].left = pipe'[c].size
        /\ tcp'[c] \in {"closing", "freed"} /\ Single(c) =>
             /\ \A r \in Resources : stats[c][r] = 0
             /\ active[c] => file'[c].left = 0
        /\ tcp'[c] = "freed" => queued'[c] = 0 /\ flushed'[c] = 0
  BY <1>1 DEF Measure, Ending, Single, Same
<1>4. CASE PollFile(c)
  BY <1>4 DEF PollFile, Measure, Ending
<1>5. CASE OnFileData(c)
  <2>1. active[c] /\ pipe[c].mem # "none" /\ file[c].left > 0
    BY <1>5 DEF OnFileData, Stages, Quiet
  <2>2. tcp'[c] = tcp[c] /\ pipe'[c] = ReadCount(pipe[c]) /\ file'[c].left = file[c].left - 1
    BY <1>2, <1>5 DEF OnFileData, Stages, ServerTypes, TypeOK, Files
  <2>3. pipe'[c].nread = pipe[c].nread + 1 /\ pipe'[c].size = pipe[c].size
    BY <1>2, <2>2, PipeUpdates
  <2>4. Single(c) => pipe'[c].nread + file'[c].left = pipe'[c].size
    BY <1>2, <2>1, <2>2, <2>3 DEF Measure
  <2>5. tcp[c] \in {"closing", "freed"} => ~Single(c)
    BY <1>2, <2>1 DEF Ending
  <2>6. tcp[c] = "freed" => queued'[c] = 0 /\ flushed'[c] = 0
    BY <1>5 DEF OnFileData, WriteData, Ending
  <2> QED BY <2>2, <2>4, <2>5, <2>6
<1>6. ASSUME NEW status, status # "ok", EndOfRead(c, status)
      PROVE  UNCHANGED <<tcp, pipe, file, queued, flushed>>
  <2>1. UNCHANGED <<tcp, file, queued, flushed>> /\ proc' = "exited"
    BY <1>6 DEF EndOfRead, FileTcpPipeEnd, OnPipeFileComplete
  <2>2. pipe' = [pipe EXCEPT ![c] = pipe[c]]
    BY <1>6, <2>1 DEF EndOfRead, FileTcpPipeEnd
  <2> QED BY <2>1, <2>2 DEF Stages, ServerTypes, TypeOK
<1>7. CASE UNCHANGED <<tcp, pipe, file, queued, flushed>>
  BY <1>7 DEF Measure, Ending
<1>8. CASE OnWriteRes(c)
  <2>1. /\ UNCHANGED <<file, queued>> /\ tcp[c] # "freed" /\ pipe[c].mem # "none"
        /\ pipe'[c].nread = pipe[c].nread /\ pipe'[c].size = pipe[c].size
        /\ \/ tcp'[c] = tcp[c]
           \/ tcp'[c] = "closing" /\ pipe[c].size = pipe[c].nread
    BY <1>8, ClosingWrite
  <2>2. Single(c) => pipe[c].nread + file[c].left = pipe[c].size
    BY <2>1 DEF Measure
  <2>3. Single(c) => \A r \in Resources : stats[c][r] = 0
    BY <2>1 DEF Stages, OneRequest, ServerTypes
  <2>4. Single(c) /\ pipe[c].size = pipe[c].nread => file[c].left = 0
    BY <1>2, <2>2
  <2> QED BY <2>1, <2>2, <2>3, <2>4 DEF Ending
<1>9. CASE Pollout(c)
  BY <1>9 DEF Pollout, Measure, Ending
<1>10. CASE OnResEnd(c, unset[c])
  <2>1. tcp[c] = "closing" /\ queued'[c] = 0 /\ flushed'[c] = 0 /\ UNCHANGED <<pipe, file>>
    BY <1>10 DEF OnResEnd
  <2> QED BY <2>1 DEF Measure, Ending
<1> QED
  BY <1>4, <1>5, <1>6, <1>7, <1>8, <1>9, <1>10
  DEF PipeStep, Transfer, OnFileRead, OnFileEof, OnFileAgain, OnFileError, FileGrows, OnWriteError

\* Closing a connection that has nothing before it.
LEMMA UvCloseEnds ==
  ASSUME Stages, Measure, Ending, NEW c \in Conns, NEW cb, UvClose(c, cb),
         UNCHANGED stats, tcp[c] = "open",
         \A d \in Conns : Single(d)' => Single(d),
         cb = "on_res_end" => (Single(c)' => asked[c] = 0)
  PROVE  Measure' /\ Ending'
<1>1. /\ UNCHANGED <<pipe, active, file, queued, flushed>>
      /\ \A d \in Conns \ {c} : tcp'[d] = tcp[d]
      /\ tcp'[c] \in {"closing", "dropping"} /\ (tcp'[c] = "closing" => cb = "on_res_end")
  BY DEF UvClose, Stages, ServerTypes, TypeOK
<1>2. Measure'
  BY <1>1 DEF Measure
<1>3. asked[c] = 0 => ~active[c] /\ \A r \in Resources : stats[c][r] = 0
  BY DEF Stages, Quiet, OneRequest
<1>4. Ending'
  BY <1>1, <1>3 DEF Ending
<1> QED BY <1>2, <1>4

LEMMA OnReqReadEnds ==
  ASSUME Stages, Measure, Ending, NEW c \in Conns, OnReqRead(c)
  PROVE  Measure' /\ Ending'
<1>1. tcp[c] = "open" /\ asked[c] \in Nat
  BY DEF OnReqRead, Stages, ServerTypes
<1>2. CASE UvClose(c, EofCloses) /\ UNCHANGED reqVars
  BY <1>1, <1>2, UvCloseEnds DEF EofCloses, reqVars, Single
<1>3. CASE OnMessage(c)
  <2>1. /\ asked'[c] = asked[c] + 1 /\ \A d \in Conns \ {c} : asked'[d] = asked[d]
    BY <1>3 DEF OnMessage, Stages, ServerTypes
  <2>2. \A d \in Conns : Single(d)' => Single(d)
    BY <1>1, <2>1 DEF Single
  <2>3. Single(c)' => asked[c] = 0
    BY <1>1, <2>1 DEF Single
  <2>4. CASE OnParseComplete(c)
    <3>1. /\ UNCHANGED <<tcp, pipe, active, file, queued, flushed>>
          /\ \A d \in Conns \ {c} : stats'[d] = stats[d]
      BY <2>4 DEF OnParseComplete, Resolve, pipeVars, Stages, ServerTypes
    <3> QED BY <1>1, <2>2, <3>1 DEF Measure, Ending
  <2>5. CASE UvClose(c, ParseErrorCloses) /\ UNCHANGED <<arrived, path, stats>>
    BY <1>1, <2>2, <2>3, <2>5, UvCloseEnds
  <2> QED BY <1>3, <2>4, <2>5 DEF OnMessage
<1>4. CASE ProcStops("assert_header") /\ UNCHANGED reqVars
  BY <1>4 DEF ProcStops, reqVars, Measure, Ending, Single
<1> QED BY <1>2, <1>3, <1>4 DEF OnReqRead

\* A stat is called back on a connection that is still in use, and what it starts
\* reads the file it was made for.
LEMMA OnStatEnds ==
  ASSUME "resize" \notin Faults, Stages, Measure, Ending,
         NEW c \in Conns, NEW r \in Resources, OnStat(c, r)
  PROVE  Measure' /\ Ending'
<1>1. /\ UNCHANGED <<tcp, asked, queued, flushed>> /\ stats[c][r] > 0
      /\ \A d \in Conns \ {c} : stats'[d] = stats[d]
  BY DEF OnStat, ProcStops, Resolve, SwsPipeFile, pipeVars, reqVars, Stages, ServerTypes
<1>2. Single(c) => tcp[c] \notin {"closing", "freed"} /\ path[c] = r /\ pipe[c].mem = "none"
  BY <1>1 DEF Ending, Stages, OneRequest
<1>3. CASE UNCHANGED <<pipe, active, file>>
  BY <1>1, <1>2, <1>3 DEF Measure, Ending, Single
<1>4. CASE /\ r # Missing /\ path[c] # Missing
           /\ \E f \in FilesFor(path[c]) : file' = [file EXCEPT ![c] = f]
           /\ pipe' = [pipe EXCEPT ![c] = NewPipe(r)]
           /\ active' = [active EXCEPT ![c] = TRUE]
  <2>1. r \in Nat
    BY <1>4, LengthsNat DEF Resources
  <2>2. /\ pipe'[c].nread = 0 /\ pipe'[c].size = r /\ file'[c].left = path[c]
        /\ \A d \in Conns \ {c} : pipe'[d] = pipe[d] /\ file'[d] = file[d] /\ active'[d] = active[d]
    BY <1>4 DEF NewPipe, FilesFor, Stages, ServerTypes, TypeOK
  <2>3. Measure'
    BY <1>1, <1>2, <2>1, <2>2 DEF Measure, Single
  <2>4. Ending'
    BY <1>1, <1>2, <2>2 DEF Ending, Single
  <2> QED BY <2>3, <2>4
<1> QED BY <1>3, <1>4 DEF OnStat, ProcStops, SwsPipeFile, pipeVars

LEMMA EndsStep ==
  ASSUME "again" \notin Faults, "resize" \notin Faults
  PROVE  Stages /\ Measure /\ Ending /\ [ServerNext]_vars => Measure' /\ Ending'
<1> SUFFICES ASSUME Stages, Measure, Ending, [ServerNext]_vars PROVE Measure' /\ Ending'
  OBVIOUS
<1>1. CASE UNCHANGED vars
  BY <1>1 DEF vars, pipeVars, reqVars, Measure, Ending, Single
<1>2. ASSUME NEW c \in Conns, OnConnect(c) PROVE Measure' /\ Ending'
  <2>1. CASE UNCHANGED pipeVars
    BY <1>2, <2>1 DEF OnConnect, pipeVars, Measure, Ending, Single
  <2>2. CASE UvClose(c, "NULL")
    <3>1. UNCHANGED <<pipe, active, file, queued, flushed, asked, stats>>
          /\ tcp'[c] = "dropping" /\ \A d \in Conns \ {c} : tcp'[d] = tcp[d]
      BY <1>2, <2>2 DEF OnConnect, UvClose, Stages, ServerTypes, TypeOK
    <3> QED BY <3>1 DEF Measure, Ending, Single
  <2>3. CASE ProcStops("exited")
    BY <1>2, <2>3 DEF OnConnect, ProcStops, Measure, Ending, Single
  <2> QED BY <1>2, <2>1, <2>2, <2>3 DEF OnConnect
<1>3. ASSUME NEW c \in Conns, OnDropped(c) PROVE Measure' /\ Ending'
  <2>1. UNCHANGED <<pipe, active, file, queued, flushed, asked, stats>>
        /\ tcp'[c] = "dropped" /\ \A d \in Conns \ {c} : tcp'[d] = tcp[d]
    BY <1>3 DEF OnDropped, reqVars, Stages, ServerTypes, TypeOK
  <2> QED BY <2>1 DEF Measure, Ending, Single
<1> QED
  BY <1>1, <1>2, <1>3, PipeStepEnds, OnReqReadEnds, OnStatEnds DEF ServerNext, ServerOver

LEMMA EndsInit == ServerInit => Measure /\ Ending
BY DEF ServerInit, Init, NoPipe, Measure, Ending

\* When on_res_end frees a connection (main.c:136), no stat, no write and no read of
\* its file comes back to it, however its callbacks and those of the others fall.
THEOREM FreedWhenIdle ==
  ASSUME "again" \notin Faults, "resize" \notin Faults
  PROVE  ServerSpec => []ReleasedWhenIdle
<1>1. Measure /\ Ending => ReleasedWhenIdle
  BY DEF Ending, ReleasedWhenIdle
<1>2. Stages /\ Measure /\ Ending /\ [ServerNext]_vars => Stages' /\ Measure' /\ Ending'
  BY StagesStep, EndsStep
<1>3. ServerInit => Stages /\ Measure /\ Ending
  BY StagesInit, EndsInit
<1> QED BY <1>1, <1>2, <1>3, PTL DEF ServerSpec

-----------------------------------------------------------------------------
(* Why the process stops.                                                   *)

\* A connection whose client sends one message and half-closes no earlier than
\* the server does.
Clean(c) == Single(c) /\ tcp[c] \notin {"dropping", "dropped"}

\* The handle follows the record of such a connection, and is closed to be freed
\* when there was a message only; every buffer that was read
\* is written or in flight, and all reads of a file that fits in one poll event come
\* before its first write callback.
Orderly(c) ==
  /\ pipe[c].mem # "live" => burst[c] = 0
  /\ tcp[c] = "closing" => asked[c] > 0
  /\ pipe[c].mem = "freed" =>
       tcp[c] \in {"closing", "freed"} /\ queued[c] = 0 /\ flushed[c] = 0
  /\ pipe[c].mem = "live" =>
       /\ tcp[c] = "open" /\ pipe[c].size \in Lengths
       /\ pipe[c].nwritten + flushed[c] + queued[c] = pipe[c].nread
       /\ pipe[c].size <= Batch =>
            IF burst[c] > 0 THEN burst[c] + pipe[c].nread = Batch
                            ELSE pipe[c].nread = 0 \/ file[c].left = 0

Order == proc = "running" => \A c \in Conns : Clean(c) => Orderly(c)

\* What is said below of a connection and of its file at a time.
LEMMA OrderlyTypes ==
  ASSUME Stages, NEW c \in Conns
  PROVE  /\ TypeOK /\ pipe[c] \in Pipes /\ pipe[c].mem \in {"none", "live", "freed"}
         /\ pipe[c].nread \in Nat /\ pipe[c].nwritten \in Nat /\ pipe[c].size \in Nat
         /\ file[c] \in Files /\ file[c].left \in Nat /\ burst[c] \in Nat /\ Batch \in Nat
         /\ queued[c] \in Nat /\ flushed[c] \in Nat
BY BatchPositive DEF Stages, ServerTypes, TypeOK, Pipes, Files

\* No step makes a connection clean again.
LEMMA CleanBefore ==
  ASSUME Stages, [ServerNext]_vars, NEW c \in Conns, Clean(c)' PROVE Clean(c)
<1>1. Stages' /\ TypeOK /\ asked[c] \in Nat
  BY StagesStep DEF Stages, ServerTypes
<1>2. asked'[c] \in {asked[c], asked[c] + 1}
  BY <1>1 DEF ServerNext, ServerOver, OnConnect, OnReqRead, OnMessage, OnDropped, PipeStep,
              OnStat, ProcStops, Resolve, vars, reqVars, Stages, ServerTypes
<1>3. tcp[c] \in {"dropping", "dropped"} => tcp'[c] \in {"dropping", "dropped"}
  <2>1. ASSUME NEW d \in Conns, OnConnect(d) PROVE tcp'[c] \in {tcp[c], "dropping"}
    BY <1>1, <2>1 DEF OnConnect, ProcStops, UvClose, pipeVars, TypeOK
  <2>2. ASSUME NEW d \in Conns, OnReqRead(d) PROVE tcp'[c] = tcp[c] \/ tcp[c] = "open"
    BY <1>1, <2>2 DEF OnReqRead, OnMessage, OnParseComplete, ProcStops, UvClose, pipeVars, TypeOK
  <2>3. ASSUME NEW d \in Conns, OnDropped(d) PROVE tcp'[c] \in {tcp[c], "dropped"}
    BY <1>1, <2>3 DEF OnDropped, TypeOK
  <2>4. ASSUME NEW d \in Conns, NEW r \in Resources, OnStat(d, r) PROVE tcp'[c] = tcp[c]
    BY <2>4 DEF OnStat, ProcStops, SwsPipeFile, pipeVars
  <2>5. ASSUME NEW d \in Conns, NEW p, NEW status, FileTcpPipeEnd(d, p, status)
        PROVE  tcp'[c] = tcp[c] \/ tcp[c] = "open"
    BY <1>1, <2>5 DEF FileTcpPipeEnd, OnPipeFileComplete, TypeOK
  <2>6. ASSUME NEW d \in Conns, PipeStep(d)
        PROVE  tcp'[c] = tcp[c] \/ tcp[c] \in {"open", "closing"}
    <3>1. CASE OnWriteRes(d)
      BY <2>5, <3>1 DEF OnWriteRes, WriteDone
    <3>2. CASE OnResEnd(d, unset[d])
      BY <1>1, <3>2 DEF OnResEnd, TypeOK
    <3>3. ASSUME NEW status, EndOfRead(d, status)
          PROVE  tcp'[c] = tcp[c] \/ tcp[c] = "open"
      BY <2>5, <3>3 DEF EndOfRead
    <3> QED
      BY <2>6, <3>1, <3>2, <3>3
      DEF PipeStep, Transfer, OnFileRead, OnFileData, OnFileEof, OnFileAgain, OnFileError,
          PollFile, OnWriteError, Pollout, FileGrows
  <2> QED
    BY <2>1, <2>2, <2>3, <2>4, <2>6 DEF ServerNext, ServerOver, vars, pipeVars
<1> QED BY <1>1, <1>2, <1>3 DEF Clean, Single

\* How the process may stop at a callback of the connection.
Stopping(c) ==
  \/ proc' \in {"running", "exited"}
  \/ proc' = "assert_size" /\ pipe'[c].size > Batch
  \/ proc' = "bad_free" /\ tcp'[c] = "closing" /\ asked'[c] > 0 /\ unset'[c]

\* A callback of libuv for a clean connection leaves it in order, and stops the
\* process in no memory that was released, and at no assertion unless its file is
\* too long for one poll event.
LEMMA PipeStepOrderly ==
  ASSUME "again" \notin Faults, "resize" \notin Faults,
         Stages, Measure, Ending, proc = "running",
         NEW c \in Conns, PipeStep(c), Clean(c), Orderly(c)
  PROVE  Stopping(c) /\ (proc' = "running" => Orderly(c)')
<1>1. /\ TypeOK /\ pipe[c] \in Pipes /\ pipe[c].mem \in {"none", "live", "freed"}
      /\ pipe[c].nread \in Nat /\ pipe[c].nwritten \in Nat /\ pipe[c].size \in Nat
      /\ file[c] \in Files /\ file[c].left \in Nat /\ burst[c] \in Nat /\ Batch \in Nat
      /\ queued[c] \in Nat /\ flushed[c] \in Nat
  BY OrderlyTypes
<1>2. /\ pipe[c].mem = "none" => ~active[c] /\ queued[c] = 0 /\ flushed[c] = 0
      /\ pipe[c].mem # "none" => pipe[c].nread + file[c].left = pipe[c].size
      /\ pipe[c].mem = "freed" /\ active[c] => file[c].left = 0
  BY DEF Stages, Quiet, Measure, Ending, Clean, Orderly
<1>10. UNCHANGED <<asked, unset>> /\ (pipe[c].mem # "none" => asked[c] > 0)
  BY DEF PipeStep, reqVars, Stages, ServerTypes, OneRequest
<1>3. CASE PollFile(c)
  <2>1. /\ active[c] /\ file[c].left > 0 /\ burst[c] = 0 /\ pipe[c].mem = "live"
        /\ UNCHANGED <<tcp, pipe, file, queued, flushed>>
    BY <1>1, <1>2, <1>3 DEF PollFile, LoopFree
  <2>2. tcp[c] = "open" /\ (pipe[c].size <= Batch => pipe[c].nread = 0)
    BY <2>1 DEF Orderly
  <2>3. UNCHANGED proc /\ burst'[c] = Batch
    BY <1>1, <1>3, <2>1, <2>2 DEF PollFile, TypeOK
  <2> QED BY <1>1, <1>10, <2>1, <2>2, <2>3, BatchPositive DEF Orderly, Stopping
<1>4. CASE OnFileData(c)
  <2>1. /\ burst[c] > 0 /\ file[c].left > 0 /\ pipe[c].mem = "live"
        /\ UNCHANGED <<proc, tcp>>
    BY <1>4 DEF OnFileData, Orderly
  <2>2. /\ pipe'[c] = ReadCount(pipe[c]) /\ file'[c].left = file[c].left - 1
        /\ burst'[c] = ReadsLeft(c)
    BY <1>1, <1>4 DEF OnFileData, TypeOK, Files
  <2>3. /\ pipe'[c].mem = "live" /\ pipe'[c].size = pipe[c].size
        /\ pipe'[c].nwritten = pipe[c].nwritten /\ pipe'[c].nread = pipe[c].nread + 1
    BY <1>1, <2>1, <2>2, PipeUpdates
  <2>4. \/ flushed'[c] = flushed[c] + 1 /\ queued'[c] = queued[c]
        \/ flushed'[c] = flushed[c] /\ queued'[c] = queued[c] + 1
    BY <1>1, <1>4, <2>1 DEF OnFileData, WriteData, TypeOK, Orderly
  <2>5. pipe'[c].nwritten + flushed'[c] + queued'[c] = pipe'[c].nread
    BY <1>1, <2>1, <2>3, <2>4 DEF Orderly
  <2>6. pipe[c].size <= Batch => burst[c] + pipe[c].nread = Batch
    BY <2>1 DEF Orderly
  <2>7. \/ burst'[c] = 0 /\ file'[c].left = 0
        \/ burst'[c] = burst[c] - 1
    BY <1>1, <2>1, <2>2 DEF ReadsLeft
  <2>8. pipe[c].size <= Batch /\ Batch <= pipe'[c].nread => file'[c].left = 0
    BY <1>1, <1>2, <2>1, <2>2, <2>3 DEF Orderly
  <2>9. pipe'[c].size <= Batch =>
          IF burst'[c] > 0 THEN burst'[c] + pipe'[c].nread = Batch ELSE file'[c].left = 0
    BY <1>1, <2>1, <2>3, <2>6, <2>7, <2>8
  <2> QED BY <1>10, <2>1, <2>3, <2>5, <2>9 DEF Orderly, Stopping
<1>5. ASSUME NEW status, status # "ok", EndOfRead(c, status) PROVE proc' = "exited"
  BY <1>5 DEF EndOfRead, FileTcpPipeEnd, OnPipeFileComplete
<1>6. CASE OnWriteRes(c)
  <2> DEFINE p == Written(pipe[c])
  <2>1. /\ flushed[c] > 0 /\ burst[c] = 0 /\ pipe[c].mem = "live"
        /\ flushed'[c] = flushed[c] - 1 /\ UNCHANGED <<file, burst, queued>>
    BY <1>1, <1>2, <1>6 DEF OnWriteRes, LoopFree, TypeOK, Orderly
  <2>2. /\ tcp[c] = "open" /\ pipe[c].size \in Lengths
        /\ pipe[c].nwritten + flushed[c] + queued[c] = pipe[c].nread
        /\ pipe[c].size <= Batch => pipe[c].nread = 0 \/ file[c].left = 0
    BY <1>1, <2>1 DEF Orderly
  <2>3. /\ p \in Pipes /\ p.mem = "live" /\ p.size = pipe[c].size
        /\ p.nwritten = pipe[c].nwritten + 1 /\ p.nread = pipe[c].nread
        /\ CompletedAs(p).mem = "freed"
    BY <1>1, <2>1, PipeUpdates
  <2>4. WriteDone(c, p)
    BY <1>6, <2>1 DEF OnWriteRes
  <2> HIDE DEF p
  <2>5. p.size <= Batch => file[c].left = 0 /\ p.size = p.nread
    BY <1>1, <1>2, <2>1, <2>2, <2>3
  <2>6. p.nwritten + flushed'[c] + queued'[c] = p.nread
    BY <1>1, <2>1, <2>2, <2>3
  <2>7. CASE p.nwritten # p.nread
    <3>1. proc' = "running" /\ pipe'[c] = p /\ UNCHANGED tcp
      BY <1>1, <2>4, <2>7 DEF WriteDone, AllWritten, TypeOK
    <3> QED BY <1>10, <2>1, <2>2, <2>3, <2>5, <2>6, <3>1 DEF Orderly, Stopping
  <2>8. CASE p.nwritten = p.nread /\ p.size # p.nread
    <3>1. proc' = "assert_size" /\ pipe'[c] = p
      BY <1>1, <2>4, <2>8 DEF WriteDone, AllWritten, SizeAsserted, TypeOK
    <3> QED BY <1>1, <2>3, <2>5, <2>8, <3>1 DEF Stopping
  <2>9. CASE p.nwritten = p.nread /\ p.size = p.nread
    <3>1. FileTcpPipeEnd(c, p, "ok")
      BY <2>4, <2>9 DEF WriteDone, AllWritten, SizeAsserted
    <3>2. proc' = "running" /\ tcp'[c] = "closing" /\ pipe'[c] = CompletedAs(p)
      BY <1>1, <2>2, <3>1 DEF FileTcpPipeEnd, OnPipeFileComplete, TypeOK
    <3>3. flushed'[c] = 0 /\ queued'[c] = 0
      BY <1>1, <2>1, <2>3, <2>6, <2>9
    <3>4. asked'[c] > 0
      BY <1>10, <2>1
    <3> QED BY <2>1, <2>3, <3>2, <3>3, <3>4 DEF Orderly, Stopping
  <2> QED BY <2>7, <2>8, <2>9
<1>7. CASE OnWriteError(c)
  BY <1>7 DEF OnWriteError, Stopping
<1>8. CASE Pollout(c)
  <2>1. /\ flushed'[c] + queued'[c] = flushed[c] + queued[c] /\ queued[c] > 0
        /\ flushed'[c] \in Nat /\ queued'[c] \in Nat
        /\ UNCHANGED <<proc, tcp, pipe, file, burst>>
    BY <1>1, <1>8 DEF Pollout, TypeOK
  <2>2. pipe[c].nwritten + flushed[c] + queued[c] = pipe[c].nread =>
          pipe[c].nwritten + flushed'[c] + queued'[c] = pipe[c].nread
    BY <1>1, <2>1
  <2> QED BY <1>10, <2>1, <2>2 DEF Orderly, Stopping
<1>9. CASE OnResEnd(c, unset[c])
  <2>1. /\ tcp[c] = "closing" /\ UNCHANGED <<pipe, file, burst, queued, flushed>>
        /\ \/ tcp'[c] = "freed" /\ UNCHANGED proc
           \/ unset[c] /\ proc' = "bad_free" /\ UNCHANGED tcp
    BY <1>1, <1>9 DEF OnResEnd, TypeOK
  <2>2. asked[c] > 0
    BY <2>1 DEF Orderly
  <2> QED BY <1>10, <2>1, <2>2 DEF Orderly, Stopping
<1> QED
  BY <1>3, <1>4, <1>5, <1>6, <1>7, <1>8, <1>9
  DEF PipeStep, Transfer, OnFileRead, OnFileEof, OnFileAgain, OnFileError, FileGrows, Stopping

\* So does a stat of it that is called back.
LEMMA OnStatOrderly ==
  ASSUME Stages, Ending, NEW c \in Conns, NEW r \in Resources, OnStat(c, r),
         Clean(c), Orderly(c)
  PROVE  proc' \in {"running", "exited"} /\ Orderly(c)'
<1>1. /\ TypeOK /\ burst[c] = 0 /\ proc = "running" /\ stats[c][r] > 0
      /\ queued[c] \in Nat /\ flushed[c] \in Nat
  BY OrderlyTypes DEF OnStat, LoopFree
<1>2. /\ pipe[c].mem = "none" /\ tcp[c] = "open" /\ queued[c] = 0 /\ flushed[c] = 0
  BY <1>1 DEF Stages, Quiet, OneRequest, ServerTypes, Ending, Clean, TypeOK, TcpStates
<1>5. asked[c] > 0 /\ UNCHANGED asked
  BY <1>1 DEF OnStat, Resolve, ProcStops, reqVars, Stages, ServerTypes, OneRequest
<1>3. CASE UNCHANGED <<tcp, pipe, file, burst, queued, flushed>> /\ proc' \in {"running", "exited"}
  BY <1>3, <1>5 DEF Orderly
<1>4. CASE /\ r # Missing /\ path[c] # Missing /\ SwsPipeFile(c, r, path[c])
  <2>1. \/ UNCHANGED <<tcp, pipe, file, burst, queued, flushed>> /\ proc' = "exited"
        \/ /\ UNCHANGED <<proc, tcp, burst, queued, flushed>>
           /\ pipe'[c] = NewPipe(r)
    BY <1>1, <1>2, <1>4 DEF SwsPipeFile, TcpDataFree, TypeOK
  <2>2. r \in Lengths /\ NewPipe(r).mem = "live" /\ NewPipe(r).size = r
        /\ NewPipe(r).nread = 0 /\ NewPipe(r).nwritten = 0
    BY <1>4 DEF Resources, NewPipe
  <2> QED BY <1>1, <1>2, <1>3, <1>5, <2>1, <2>2 DEF Orderly
<1> QED BY <1>1, <1>2, <1>3, <1>4 DEF OnStat, ProcStops, TcpDataFree, pipeVars, reqVars

LEMMA OrderStep ==
  ASSUME "again" \notin Faults, "resize" \notin Faults,
         Stages, Measure, Ending, Order, StopsAreDeliberate, [ServerNext]_vars
  PROVE  Order' /\ StopsAreDeliberate'
<1>1. CASE UNCHANGED vars
  BY <1>1 DEF vars, pipeVars, reqVars, Order, StopsAreDeliberate, Clean, Single, Orderly
<1>2. CASE proc # "running"
  <2>1. UNCHANGED vars
    BY <1>2 DEF ServerNext, ServerOver, OnConnect, OnReqRead, OnDropped, OnStat, PipeStep,
          Transfer, OnFileRead, OnFileEof, OnFileAgain, OnFileError, OnFileData, EndOfRead,
          PollFile, OnWriteRes, OnWriteError, OnResEnd, Pollout, FileGrows, LoopFree
  <2> QED BY <1>1, <2>1
<1>3. ASSUME proc' \in {"running", "exited"}, \A c \in Conns : Clean(c)' => Orderly(c)'
      PROVE  Order' /\ StopsAreDeliberate'
  BY <1>3 DEF Order, StopsAreDeliberate
<1>4. \A c \in Conns : Clean(c)' => Clean(c)
  BY CleanBefore
<1>5. ASSUME proc = "running", NEW c \in Conns,
             \A d \in Conns \ {c} : Same(d) /\ asked'[d] = asked[d],
             Clean(c) => Stopping(c) /\ (proc' = "running" => Orderly(c)'),
             ~Clean(c) => ~Clean(c)'
      PROVE  Order' /\ StopsAreDeliberate'
  <2>1. \A d \in Conns \ {c} : Clean(d)' => Orderly(d)'
    BY <1>4, <1>5 DEF Order, Orderly, Same
  <2>2. Order'
    BY <1>4, <1>5, <2>1 DEF Order
  <2>3. ~Clean(c)' => StopsAreDeliberate'
    BY DEF Clean, StopsAreDeliberate
  <2>4. Clean(c) => StopsAreDeliberate'
    BY <1>5 DEF Stopping, StopsAreDeliberate
  <2> QED BY <1>5, <2>2, <2>3, <2>4
<1>6. ASSUME proc = "running", NEW c \in Conns, PipeStep(c) PROVE Order' /\ StopsAreDeliberate'
  <2>1. \A d \in Conns \ {c} : Same(d) /\ asked'[d] = asked[d]
    BY <1>6, PipeStepFrame DEF Stages, reqVars
  <2>2. Clean(c) => Stopping(c) /\ (proc' = "running" => Orderly(c)')
    BY <1>6, PipeStepOrderly DEF Order
  <2> QED BY <1>4, <1>5, <1>6, <2>1, <2>2
<1>7. ASSUME proc = "running", NEW c \in Conns, NEW r \in Resources, OnStat(c, r)
      PROVE  Order' /\ StopsAreDeliberate'
  <2>1. \A d \in Conns \ {c} : Same(d) /\ asked'[d] = asked[d]
    BY <1>7 DEF OnStat, ProcStops, SwsPipeFile, Same, pipeVars, reqVars, Stages, ServerTypes, TypeOK
  <2>2. Clean(c) => proc' \in {"running", "exited"} /\ Orderly(c)'
    BY <1>7, OnStatOrderly DEF Order
  <2> QED BY <1>4, <1>5, <1>7, <2>1, <2>2 DEF Stopping
<1>8. ASSUME proc = "running", NEW c \in Conns,
             UNCHANGED <<proc, pipe, active, file, burst, queued, flushed>>,
             Clean(c)' => Orderly(c)',
             \A d \in Conns \ {c} : tcp'[d] = tcp[d] /\ asked'[d] = asked[d]
      PROVE  Order' /\ StopsAreDeliberate'
  <2>1. \A d \in Conns \ {c} : Clean(d)' => Orderly(d)'
    BY <1>4, <1>8 DEF Order, Orderly
  <2> QED BY <1>3, <1>8, <2>1
<1>11. ASSUME proc = "running", NEW how, ProcStops(how), how # "running",
              \/ how = "exited"
              \/ how = "assert_header" /\ \E c \in Conns : arrived'[c] /\ tcp[c] = "open"
       PROVE  Order' /\ StopsAreDeliberate'
  BY <1>11 DEF ProcStops, Order, StopsAreDeliberate
<1>12. ASSUME proc = "running", NEW c \in Conns, OnConnect(c), ProcStops("exited")
       PROVE  Order' /\ StopsAreDeliberate'
  BY <1>11, <1>12
<1>9. ASSUME proc = "running", NEW c \in Conns, OnConnect(c) \/ OnDropped(c),
             ~ProcStops("exited")
      PROVE  Order' /\ StopsAreDeliberate'
  <2>1. /\ UNCHANGED <<proc, pipe, active, file, burst, queued, flushed, asked>>
        /\ \A d \in Conns \ {c} : tcp'[d] = tcp[d]
        /\ tcp'[c] \in {tcp[c], "dropping", "dropped"}
    BY <1>9 DEF reqVars, OnConnect, OnDropped, UvClose, pipeVars, Stages, ServerTypes, TypeOK
  <2>2. Clean(c)' => Orderly(c)'
    BY <1>4, <1>9, <2>1 DEF Clean, Orderly, Order
  <2> QED BY <1>8, <1>9, <2>1, <2>2
<1>13. ASSUME proc = "running", NEW c \in Conns, OnReqRead(c),
              ProcStops("assert_header"), UNCHANGED reqVars
       PROVE  Order' /\ StopsAreDeliberate'
  BY <1>11, <1>13 DEF OnReqRead, reqVars
<1>10. ASSUME proc = "running", NEW c \in Conns, OnReqRead(c),
              ~(ProcStops("assert_header") /\ UNCHANGED reqVars)
       PROVE  Order' /\ StopsAreDeliberate'
  <2>1. /\ UNCHANGED <<proc, pipe, active, file, burst, queued, flushed>>
        /\ \A d \in Conns \ {c} : tcp'[d] = tcp[d] /\ asked'[d] = asked[d]
    BY <1>10 DEF reqVars, OnReqRead, OnMessage, OnParseComplete, UvClose, pipeVars, Stages,
                 ServerTypes, TypeOK
  <2>2. Clean(c)' => Orderly(c)'
    <3>1. CASE tcp'[c] = tcp[c]
      <4>1. tcp[c] = "open"
        BY <1>10 DEF OnReqRead
      <4> QED BY <1>4, <1>10, <2>1, <3>1, <4>1 DEF Order, Orderly
    <3>2. CASE tcp'[c] = "dropping"
      BY <3>2 DEF Clean
    <3>3. CASE OnMessage(c)
      <4>1. asked'[c] = asked[c] + 1 /\ asked[c] \in Nat
        BY <3>3 DEF OnMessage, Stages, ServerTypes
      <4>2. Clean(c)' => pipe[c].mem = "none" /\ burst[c] = 0
        BY <1>4, <1>10, <4>1 DEF Clean, Single, Stages, OneRequest, Order, Orderly
      <4>3. asked'[c] > 0
        BY <4>1
      <4> QED BY <2>1, <4>2, <4>3 DEF Orderly
    <3> QED
      BY <1>10, <3>1, <3>2, <3>3 DEF OnReqRead, EofCloses, UvClose, Stages, ServerTypes, TypeOK
  <2> QED BY <1>8, <1>10, <2>1, <2>2
<1>14. ASSUME proc = "running", NEW c \in Conns, OnConnect(c) \/ OnDropped(c)
       PROVE  Order' /\ StopsAreDeliberate'
  <2>1. CASE ProcStops("exited")
    <3>1. ~OnDropped(c)
      BY <1>14, <2>1 DEF ProcStops, OnDropped
    <3> QED BY <1>12, <1>14, <2>1, <3>1
  <2> QED BY <1>9, <1>14, <2>1
<1>15. ASSUME proc = "running", NEW c \in Conns, OnReqRead(c)
       PROVE  Order' /\ StopsAreDeliberate'
  BY <1>10, <1>13, <1>15
<1> QED
  BY <1>1, <1>2, <1>6, <1>7, <1>14, <1>15 DEF ServerNext, ServerOver

\* As long as every file keeps its length and is read to its end, the process stops
\* at a CHECK only (main.c:54, :130, :135), never at an assertion (pipe-file.c:74,
\* uv_close) or in released memory, unless a client half-closes early or sends a
\* second message; it fails the assertion of pipe-file.c:188 only for a file that is
\* longer than a poll event of libuv, those of request-parser.c:132-133 only at a read
\* of a connection that is open, and frees a pointer nobody set (request-parser.c:52-54)
\* only with a connection it closed after a message whose header lines, if it had
\* any, were never parsed.
THEOREM OnlyClientsStopIt ==
  ASSUME "again" \notin Faults, "resize" \notin Faults
  PROVE  ServerSpec => []StopsAreDeliberate
<1>1. ServerInit => Order /\ StopsAreDeliberate
  BY DEF ServerInit, Init, NoPipe, Order, Orderly, StopsAreDeliberate
<1>2. ServerInit => Stages /\ Measure /\ Ending
  BY StagesInit, EndsInit
<1>3. Stages /\ Measure /\ Ending /\ [ServerNext]_vars => Stages' /\ Measure' /\ Ending'
  BY StagesStep, EndsStep
<1>4. Stages /\ Measure /\ Ending /\ Order /\ StopsAreDeliberate /\ [ServerNext]_vars
        => Order' /\ StopsAreDeliberate'
  BY OrderStep
<1> QED BY <1>1, <1>2, <1>3, <1>4, PTL DEF ServerSpec

-----------------------------------------------------------------------------
(* The parser of requests.                                                  *)

TokenKinds == {"url", "field", "value"}
TokenSeq == Seq([kind : TokenKinds, text : Text])

\* Every field has a value, and a name unless a part of it was taken, and every
\* value its field before it, unless that has been taken already.
Paired(s) ==
  \A i \in 1..Len(s) :
    /\ s[i].kind = "field" =>
         /\ i > 1 => s[i].text # << >>
         /\ i < Len(s) /\ s[i + 1].kind = "value"
    /\ s[i].kind = "value" /\ i > 1 => s[i - 1].kind = "field"

-----------------------------------------------------------------------------

LEMMA Parity ==
  ASSUME NEW i \in Nat
  PROVE  i % 2 \in {0, 1} /\ (i % 2 = 0 <=> (i + 1) % 2 = 1)
OBVIOUS

\* A request is its url, and then lines of a field and a value each.
LEMMA TokensPaired ==
  ASSUME NEW r \in Requests
  PROVE  /\ Tokens(r) \in TokenSeq /\ Tokens(r) # << >>
         /\ Head(Tokens(r)).kind = "url" /\ Paired(Tokens(r))
<1> DEFINE n == Len(r.headers)
           h(i) == r.headers[(i + 1) \div 2]
           b == [i \in 1..(2 * n) |-> IF i % 2 = 1 THEN Token("field", h(i).name)
                                                   ELSE Token("value", h(i).value)]
           u == <<Token("url", r.url)>>
           t == Tokens(r)
           T == [kind : TokenKinds, text : Text]
<1>0. r \in [url : Text, headers : Seq(HeaderLines)]
  BY RequestsKnown
<1>1. r.url \in Text /\ r.headers \in Seq(HeaderLines) /\ n \in Nat
  BY <1>0
<1>2. ASSUME NEW i \in 1..(2 * n)
      PROVE  /\ h(i).name \in Text /\ h(i).name # << >> /\ h(i).value \in Text
             /\ b[i] \in T
             /\ i % 2 = 1 => b[i].kind = "field" /\ b[i].text # << >>
             /\ i % 2 # 1 => b[i].kind = "value"
  <2>1. (i + 1) \div 2 \in 1..n
    BY <1>1
  <2>2. h(i) \in HeaderLines
    BY <1>1, <2>1, ElementOfSeq
  <2>3. h(i).name \in Text /\ h(i).name # << >> /\ h(i).value \in Text
    BY <2>2 DEF HeaderLines
  <2> QED BY <2>3 DEF Token, TokenKinds
<1>3. b \in Seq(T) /\ Len(b) = 2 * n
  <2>1. 2 * n \in Nat
    BY <1>1
  <2>3. \A i \in 1..(2 * n) : b[i] \in T
    <3> HIDE DEF b, T
    <3> QED BY <1>2
  <2>2. b \in [1..(2 * n) -> T]
    BY <2>3
  <2> HIDE DEF b, T
  <2> QED BY <2>1, <2>2
<1>4. u \in Seq(T) /\ Len(u) = 1 /\ u[1].kind = "url"
  BY <1>1 DEF Token, TokenKinds
<1>5. t = u \o b
  BY DEF Tokens
<1> HIDE DEF u, b, h, t, T
<1>6. /\ t \in Seq(T) /\ Len(t) = 1 + 2 * n
      /\ \A i \in 1..(1 + 2 * n) : t[i] = IF i <= 1 THEN u[i] ELSE b[i - 1]
  <2>1. /\ u \o b \in Seq(T) /\ Len(u \o b) = Len(u) + Len(b)
        /\ \A i \in 1..(Len(u) + Len(b)) : (u \o b)[i] = IF i <= Len(u) THEN u[i] ELSE b[i - Len(u)]
    BY <1>3, <1>4, ConcatProperties
  <2> QED BY <1>3, <1>4, <1>5, <2>1
<1>7. t[1].kind = "url" /\ t # << >> /\ Head(t) = t[1]
  BY <1>1, <1>4, <1>6
<1>8. ASSUME NEW i \in 2..(1 + 2 * n)
      PROVE  /\ i % 2 = 0 => t[i].kind = "field" /\ t[i].text # << >>
             /\ i % 2 # 0 => t[i].kind = "value"
  <2>1. t[i] = b[i - 1] /\ i - 1 \in 1..(2 * n)
    BY <1>1, <1>6
  <2>2. i % 2 = 0 <=> (i - 1) % 2 = 1
    BY <1>1
  <2> QED BY <1>2, <2>1, <2>2
<1>9. ASSUME NEW i \in 1..Len(t)
      PROVE  /\ t[i].kind = "field" =>
                  t[i].text # << >> /\ i < Len(t) /\ t[i + 1].kind = "value"
             /\ t[i].kind = "value" /\ i > 1 => t[i - 1].kind = "field"
  <2>1. CASE i = 1
    BY <1>7, <2>1
  <2>2. CASE i > 1 /\ i % 2 = 0
    <3>0. i \in Nat /\ i - 1 \in Nat
      BY <2>2
    <3>1. i # 1 + 2 * n
      BY <1>1, <2>2
    <3>4. i < 1 + 2 * n
      BY <1>1, <1>6, <3>1
    <3>2. i < 1 + 2 * n /\ (i + 1) % 2 # 0
      BY <2>2, <3>0, <3>4, Parity
    <3>3. i + 1 \in 2..(1 + 2 * n) /\ i \in 2..(1 + 2 * n) /\ Len(t) = 1 + 2 * n
      BY <1>1, <1>6, <2>2, <3>2
    <3> QED BY <1>8, <2>2, <3>2, <3>3
  <2>3. CASE i > 1 /\ i % 2 # 0
    <3>1. i # 2
      BY <2>3
    <3>0. i \in Nat /\ i - 1 \in Nat /\ (i - 1) + 1 = i
      BY <2>3
    <3>2. (i - 1) % 2 = 0
      BY <2>3, <3>0, Parity
    <3>3. i - 1 \in 2..(1 + 2 * n) /\ i \in 2..(1 + 2 * n)
      BY <1>1, <1>6, <2>3, <3>1
    <3> QED BY <1>8, <2>3, <3>2, <3>3
  <2> QED BY <1>1, <1>6, <2>1, <2>2, <2>3
<1> QED BY <1>6, <1>7, <1>9 DEF t, T, TokenSeq, Paired

-----------------------------------------------------------------------------

\* The cuts after which an assertion may fail.
LineCut == cut \cap {Cut("value", "inside"), Cut("value", "end"), Cut("field", "end")} # {}

\* Unless a read cut the line, a field that comes next has a name still, and a value
\* that comes next finds its field.
FieldFirst ==
  ~LineCut /\ rest # << >> =>
    /\ Head(rest).kind = "field" => Head(rest).text # << >>
    /\ Head(rest).kind = "value" => field.is = "string" /\ Len(field.text) > 0

ParserIInv == rest \in TokenSeq /\ Paired(rest) /\ FieldFirst /\ (phase = "assert" => LineCut)

LEMMA ParserInitIInv == ParserInit => ParserIInv
BY TokensPaired DEF ParserInit, ParserIInv, FieldFirst

\* A part of a token is taken: the tokens that are left are still paired.
LEMMA AdvancePaired ==
  ASSUME ParserIInv, rest # << >>, NEW m \in Parts, Advance(m)
  PROVE  /\ rest' \in TokenSeq /\ Paired(rest')
         /\ ~LineCut' => ~LineCut
         /\ ~LineCut' /\ rest' # << >> =>
              /\ Head(rest').kind = "value" => Head(rest).kind = "field"
              /\ Head(rest').kind = "field" => Head(rest').text # << >>
<1> DEFINE T == [kind : TokenKinds, text : Text]
           l == Len(Head(rest).text)
<1>1. /\ rest \in Seq(T) /\ Head(rest) = rest[1] /\ rest[1] \in T /\ l \in Nat
      /\ Len(rest) \in Nat \ {0} /\ Head(rest).text \in Text
  <2>1. rest \in Seq(T) /\ Head(rest) = rest[1] /\ rest[1] \in T /\ Len(rest) \in Nat \ {0}
    <3>1. rest \in Seq(T)
      BY DEF ParserIInv, TokenSeq
    <3> HIDE DEF T
    <3> QED BY <3>1, HeadTailProperties
  <2> QED BY <2>1 DEF Text
<1>2. CASE m = l /\ rest' = Tail(rest) /\ UNCHANGED cut
  <2>1. /\ rest' \in Seq(T) /\ Len(rest') = Len(rest) - 1
        /\ \A i \in 1..Len(rest') : rest'[i] = rest[i + 1]
    BY <1>1, <1>2
  <2>2. ASSUME NEW i \in 1..Len(rest')
        PROVE  /\ rest'[i].kind = "field" =>
                    /\ i > 1 => rest'[i].text # << >>
                    /\ i < Len(rest') /\ rest'[i + 1].kind = "value"
               /\ rest'[i].kind = "value" /\ i > 1 => rest'[i - 1].kind = "field"
    <3>1. i + 1 \in 1..Len(rest) /\ rest'[i] = rest[i + 1]
      BY <1>1, <2>1
    <3>2. i < Len(rest') => rest'[i + 1] = rest[i + 2]
      BY <1>1, <2>1
    <3>3. i > 1 => rest'[i - 1] = rest[i]
      BY <1>1, <2>1
    <3> QED BY <1>1, <2>1, <3>1, <3>2, <3>3 DEF ParserIInv, Paired
  <2>3. /\ rest' # << >> /\ Head(rest').kind = "value" => Head(rest).kind = "field"
        /\ rest' # << >> /\ Head(rest').kind = "field" => Head(rest').text # << >>
    <3> SUFFICES ASSUME rest' # << >>
                 PROVE  /\ Head(rest').kind = "value" => rest[1].kind = "field"
                        /\ Head(rest').kind = "field" => Head(rest').text # << >>
      BY <1>1
    <3>1. Head(rest') = rest[2] /\ 2 \in 1..Len(rest)
      BY <1>1, <2>1
    <3>2. /\ rest[2].kind = "field" => rest[2].text # << >>
          /\ rest[2].kind = "value" => rest[2 - 1].kind = "field"
      <4>1. 2 > 1
        OBVIOUS
      <4>2. Paired(rest)
        BY DEF ParserIInv
      <4> QED BY <3>1, <4>1, <4>2, Zenon DEF Paired
    <3> QED BY <3>1, <3>2
  <2>4. LineCut' <=> LineCut
    BY <1>2 DEF LineCut
  <2>5. Paired(rest')
    BY <2>2, Zenon DEF Paired
  <2> QED BY <2>1, <2>3, <2>4, <2>5 DEF TokenSeq
<1>3. CASE /\ m > 0 /\ cut' = cut \cup {Cut(Head(rest).kind, IF m < l THEN "inside" ELSE "end")}
           /\ rest' = <<[Head(rest) EXCEPT !.text = SubSeq(@, m + 1, Len(@))]>> \o Tail(rest)
  <2> DEFINE x == [Head(rest) EXCEPT !.text = SubSeq(@, m + 1, Len(@))]
  <2>1. m \in 0..l
    BY DEF Parts
  <2>2. /\ SubSeq(Head(rest).text, m + 1, l) \in Text
        /\ m < l => SubSeq(Head(rest).text, m + 1, l) # << >>
    <3> DEFINE s == Head(rest).text
    <3>1. s \in Seq(Pieces) /\ Len(s) = l
      BY <1>1 DEF Text
    <3> HIDE DEF s
    <3>2. \A i \in (m + 1)..l : s[i] \in Pieces
      BY <1>1, <2>1, <3>1
    <3>3. SubSeq(s, m + 1, l) \in Seq(Pieces) /\ Len(SubSeq(s, m + 1, l)) = l - m
      BY <1>1, <1>3, <2>1, <3>2, SubSeqProperties
    <3>4. ASSUME m < l PROVE SubSeq(s, m + 1, l) # << >>
      <4> DEFINE q == SubSeq(s, m + 1, l)
      <4>1. Len(q) > 0
        BY <1>1, <2>1, <3>3, <3>4
      <4> HIDE DEF q
      <4>2. q # << >>
        BY <4>1
      <4> QED BY <4>2 DEF q
    <3> QED BY <3>3, <3>4 DEF Text, s
  <2>3. x \in T /\ x.kind = rest[1].kind /\ (m < l => x.text # << >>)
    BY <1>1, <2>2
  <2> HIDE DEF x
  <2>4. <<x>> \in Seq(T) /\ Len(<<x>>) = 1 /\ <<x>>[1] = x /\ Tail(rest) \in Seq(T)
        /\ Len(Tail(rest)) = Len(rest) - 1
        /\ \A i \in 1..(Len(rest) - 1) : Tail(rest)[i] = rest[i + 1]
    BY <1>1, <2>3
  <2>5. /\ rest' \in Seq(T) /\ Len(rest') = Len(rest)
        /\ \A i \in 1..Len(rest) : rest'[i] = IF i <= 1 THEN <<x>>[i] ELSE Tail(rest)[i - 1]
    BY <1>1, <1>3, <2>4, ConcatProperties DEF x
  <2>6. rest'[1] = x /\ \A i \in 2..Len(rest) : rest'[i] = rest[i]
    <3>1. 1 \in 1..Len(rest) /\ \A i \in 2..Len(rest) : i - 1 \in 1..(Len(rest) - 1) /\ ~(i <= 1)
      BY <1>1
    <3>2. rest'[1] = x
      BY <2>4, <2>5, <3>1
    <3>3. ASSUME NEW i \in 2..Len(rest) PROVE rest'[i] = rest[i]
      <4>1. rest'[i] = Tail(rest)[i - 1] /\ i - 1 \in 1..(Len(rest) - 1)
        BY <1>1, <2>5
      <4>2. Tail(rest)[i - 1] = rest[(i - 1) + 1]
        BY <2>4, <4>1
      <4> QED BY <1>1, <4>1, <4>2
    <3> QED BY <3>2, <3>3
  <2>7. Paired(rest')
    <3> SUFFICES ASSUME NEW i \in 1..Len(rest')
                 PROVE  /\ rest'[i].kind = "field" =>
                             /\ i > 1 => rest'[i].text # << >>
                             /\ i < Len(rest') /\ rest'[i + 1].kind = "value"
                        /\ rest'[i].kind = "value" /\ i > 1 => rest'[i - 1].kind = "field"
      BY DEF Paired
    <3>1. /\ i \in 1..Len(rest) /\ Len(rest') = Len(rest)
          /\ \A j \in 1..Len(rest) : rest'[j].kind = rest[j].kind
      BY <1>1, <2>3, <2>5, <2>6
    <3>2. i > 1 => rest'[i].text = rest[i].text
      BY <1>1, <2>5, <2>6
    <3>3. /\ rest[i].kind = "field" =>
               (i > 1 => rest[i].text # << >>) /\ i < Len(rest) /\ rest[i + 1].kind = "value"
          /\ rest[i].kind = "value" /\ i > 1 => rest[i - 1].kind = "field"
      BY <3>1, Zenon DEF ParserIInv, Paired
    <3>4. (i < Len(rest) => i + 1 \in 1..Len(rest)) /\ (i > 1 => i - 1 \in 1..Len(rest))
      BY <1>1, <3>1
    <3> QED BY <2>3, <3>1, <3>2, <3>3, <3>4, Zenon
  <2>8. rest' # << >> /\ Head(rest') = x
    BY <1>1, <2>5, <2>6
  <2>9. ~LineCut' => ~LineCut /\ Head(rest).kind # "value" /\ (Head(rest).kind = "field" => m < l)
    <3>1. m < l \/ ~(m < l)
      OBVIOUS
    <3> QED BY <1>3, <3>1 DEF LineCut, Cut
  <2> QED BY <1>1, <2>3, <2>5, <2>7, <2>8, <2>9 DEF TokenSeq
<1> QED BY <1>2, <1>3 DEF Advance

LEMMA ParserInductive == ParserIInv /\ [ParserNext]_parserVars => ParserIInv'
<1> SUFFICES ASSUME ParserIInv, [ParserNext]_parserVars PROVE ParserIInv'
  OBVIOUS
<1>1. CASE Execute
  <2>1. PICK n \in Parts : Advance(n) /\ (OnUrl(n) \/ OnHeaderField(n) \/ OnHeaderValue(n))
    BY <1>1 DEF Execute
  <2>2. /\ rest # << >> /\ rest' \in TokenSeq /\ Paired(rest') /\ phase = "parsing"
        /\ ~LineCut' => ~LineCut
        /\ ~LineCut' /\ rest' # << >> =>
             /\ Head(rest').kind = "value" => Head(rest).kind = "field"
             /\ Head(rest').kind = "field" => Head(rest').text # << >>
    BY <1>1, <2>1, AdvancePaired DEF Execute
  <2>3. CASE OnUrl(n)
    BY <2>2, <2>3 DEF OnUrl, ParserIInv, FieldFirst
  <2>4. CASE OnHeaderField(n)
    <3>1. ASSUME ~LineCut' PROVE field'.is = "string" /\ Len(field'.text) > 0
      <4>1. /\ Head(rest).text \in Text /\ Head(rest).text # << >>
            /\ Head(rest).kind = "field"
        <5> DEFINE T == [kind : TokenKinds, text : Text]
        <5>1. rest \in Seq(T)
          BY DEF ParserIInv, TokenSeq
        <5> HIDE DEF T
        <5>2. Head(rest) \in T
          BY <2>2, <5>1
        <5> QED BY <2>2, <2>4, <3>1, <5>2 DEF T, OnHeaderField, ParserIInv, FieldFirst
      <4>2. n \in 1..Len(Head(rest).text)
        <5>1. n \in 0..Len(Head(rest).text) /\ Len(Head(rest).text) \in Nat \ {0}
          BY <4>1 DEF Parts, Text
        <5>2. n = 0 => FALSE
          BY <2>1, <4>1, <5>1 DEF Advance
        <5> QED BY <5>1, <5>2
      <4>3. Len(Part(n)) = n
        BY <4>1, <4>2 DEF Part, Text
      <4> QED BY <2>4, <4>2, <4>3 DEF OnHeaderField, FieldOf, Str
    <3> QED BY <2>2, <2>4, <3>1 DEF OnHeaderField, ParserIInv, FieldFirst
  <2>5. CASE OnHeaderValue(n)
    BY <2>2, <2>5 DEF OnHeaderValue, ParserIInv, FieldFirst
  <2> QED BY <2>1, <2>3, <2>4, <2>5
<1>2. CASE OnMessageComplete
  BY <1>2 DEF OnMessageComplete, ParserIInv, FieldFirst, LineCut
<1>3. CASE NextMessage
  BY <1>3, TokensPaired DEF NextMessage, ParserIInv, FieldFirst, LineCut
<1>4. CASE CleanupParseReq
  BY <1>4 DEF CleanupParseReq, ParserIInv, FieldFirst, LineCut
<1>5. CASE ParserOver \/ UNCHANGED parserVars
  BY <1>5 DEF ParserOver, parserVars, ParserIInv, FieldFirst, LineCut
<1> QED BY <1>1, <1>2, <1>3, <1>4, <1>5 DEF ParserNext

-----------------------------------------------------------------------------

\* The assertions of on_header_value (request-parser.c:132-133) fail for nothing but
\* a read that ended in a value, or right behind it or a field, whatever is sent and
\* wherever else it is cut.
THEOREM OnlyCutsFail == ParserSpec => []OnlyCutLinesFail
<1>1. ParserIInv => OnlyCutLinesFail
  BY DEF ParserIInv, OnlyCutLinesFail, LineCut
<1> QED BY <1>1, ParserInitIInv, ParserInductive, PTL DEF ParserSpec

-----------------------------------------------------------------------------
(* What is parsed, when no read cuts a token.                               *)

\* Where each line of a request is among its tokens.
LEMMA TokenAt ==
  ASSUME NEW r \in Requests
  PROVE  /\ Len(r.headers) \in Nat /\ Len(Tokens(r)) = 1 + 2 * Len(r.headers)
         /\ Tokens(r)[1] = Token("url", r.url)
         /\ \A i \in 1..Len(r.headers) :
              /\ Tokens(r)[2 * i] = Token("field", r.headers[i].name)
              /\ Tokens(r)[2 * i + 1] = Token("value", r.headers[i].value)
<1> DEFINE n == Len(r.headers)
           b == [i \in 1..(2 * n) |->
                   LET h == r.headers[(i + 1) \div 2]
                   IN  IF i % 2 = 1 THEN Token("field", h.name) ELSE Token("value", h.value)]
           u == <<Token("url", r.url)>>
           B == {b[i] : i \in 1..(2 * n)} \cup {Token("url", r.url)}
<1>1. n \in Nat /\ Tokens(r) = u \o b
  BY RequestsKnown DEF Tokens
<1>2. u \in Seq(B) /\ Len(u) = 1 /\ u[1] = Token("url", r.url)
  OBVIOUS
<1>3. b \in Seq(B) /\ Len(b) = 2 * n
  <2>1. \A i \in 1..(2 * n) : b[i] \in B
    <3> HIDE DEF b
    <3> QED BY Zenon
  <2>2. b \in [1..(2 * n) -> B]
    <3>1. b = [i \in 1..(2 * n) |-> b[i]]
      BY Zenon DEF b
    <3> HIDE DEF b, B
    <3> QED BY <2>1, <3>1, Zenon
  <2>3. 2 * n \in Nat
    BY <1>1
  <2> HIDE DEF b, B
  <2> QED BY <2>2, <2>3
<1>4. ASSUME NEW i \in 1..n
      PROVE  /\ b[2 * i - 1] = Token("field", r.headers[i].name)
             /\ b[2 * i] = Token("value", r.headers[i].value)
  <2>1. n \in Nat /\ i \in 1..n
    BY <1>1
  <2> HIDE DEF n
  <2>2. 2 * i - 1 \in 1..(2 * n) /\ 2 * i \in 1..(2 * n) /\ i \in Nat
    BY <2>1
  <2>3. ((2 * i - 1) + 1) \div 2 = i /\ (2 * i + 1) \div 2 = i
    BY <2>2
  <2>4. (2 * i - 1) % 2 = 1 /\ (2 * i) % 2 = 0
    BY <2>2
  <2> QED BY <2>2, <2>3, <2>4
<1> HIDE DEF b, u, B
<1>5. /\ Len(u \o b) = Len(u) + Len(b)
      /\ \A i \in 1..(Len(u) + Len(b)) : (u \o b)[i] = IF i <= Len(u) THEN u[i] ELSE b[i - Len(u)]
  BY <1>2, <1>3, ConcatProperties
<1>6. Len(Tokens(r)) = 1 + 2 * n /\ Tokens(r)[1] = Token("url", r.url)
  BY <1>1, <1>2, <1>3, <1>5
<1>7. \A j \in 2..(1 + 2 * n) : Tokens(r)[j] = b[j - 1]
  BY <1>1, <1>2, <1>3, <1>5
<1>8. ASSUME NEW i \in 1..n
      PROVE  /\ Tokens(r)[2 * i] = Token("field", r.headers[i].name)
             /\ Tokens(r)[2 * i + 1] = Token("value", r.headers[i].value)
  <2>1. 2 * i \in 2..(1 + 2 * n) /\ 2 * i + 1 \in 2..(1 + 2 * n) /\ (2 * i + 1) - 1 = 2 * i
    BY <1>1
  <2>2. Tokens(r)[2 * i] = b[2 * i - 1] /\ Tokens(r)[2 * i + 1] = b[2 * i]
    BY <1>7, <2>1
  <2> QED BY <1>4, <2>2
<1> QED BY <1>1, <1>6, <1>8

\* The lines of the request whose values have been read.
TokensRead == Len(Tokens(sent)) - Len(rest)
LinesRead == {i \in DOMAIN sent.headers : 2 * i + 1 <= TokensRead}

\* What is left of the request is the end of it.
Ahead ==
  /\ sent \in Requests /\ Len(rest) <= Len(Tokens(sent))
  /\ \A j \in 1..Len(rest) : rest[j] = Tokens(sent)[TokensRead + j]
  /\ phase = "complete" => rest = << >>

\* The pointers point to the last token of their kind that was read.
Pointers ==
  /\ TokensRead >= 1 => url = Str(sent.url)
  /\ \A i \in DOMAIN sent.headers : TokensRead = 2 * i => field = Str(sent.headers[i].name)

\* Each array of the result holds what the last line read for it says.
Holds(k, i) ==
  /\ i \in LinesRead \cap Lines(sent, k) /\ result[k] = Str(sent.headers[i].value)
  /\ \A j \in LinesRead \cap Lines(sent, k) : j <= i

Untouched(k) == LinesRead \cap Lines(sent, k) = {} /\ (msgs = 1 => result[k] = Garbage)

Answered == \A k \in Known : Untouched(k) \/ \E i \in DOMAIN sent.headers : Holds(k, i)

Whole ==
  /\ msgs \in Nat \ {0}
  /\ phase \in {"parsing", "complete"} /\ cut = {} => Ahead /\ Pointers /\ Answered

\* A request of which nothing was read, on a connection that may have seen others.
Begun ==
  /\ sent \in Requests /\ rest = Tokens(sent) /\ phase = "parsing"
  /\ msgs \in Nat \ {0} /\ (msgs = 1 => \A k \in Known : result[k] = Garbage)

LEMMA WholeStart == Begun => Whole
<1> SUFFICES ASSUME Begun PROVE Whole
  OBVIOUS
<1> USE DEF Begun
<1>1. Len(sent.headers) \in Nat /\ Len(rest) = 1 + 2 * Len(sent.headers)
  BY TokenAt
<1>2. TokensRead = 0
  BY <1>1 DEF TokensRead
<1>3. LinesRead = {} /\ \A i \in DOMAIN sent.headers : TokensRead # 2 * i
  <2>1. DOMAIN sent.headers = 1..Len(sent.headers)
    BY RequestsKnown
  <2> QED BY <1>1, <1>2, <2>1 DEF LinesRead
<1>4. Ahead
  BY <1>1, <1>2 DEF Ahead
<1>5. Pointers
  BY <1>2, <1>3 DEF Pointers
<1>6. Answered
  BY <1>3 DEF Answered, Untouched
<1> QED BY <1>4, <1>5, <1>6 DEF Whole

\* A token that is taken whole is the next one of the request.
LEMMA WholeToken ==
  ASSUME ParserIInv, Ahead, rest # << >>, NEW m \in Parts, Advance(m), cut' = {}, UNCHANGED sent
  PROVE  /\ cut = {} /\ Part(m) = Head(rest).text
         /\ TokensRead \in Nat /\ TokensRead' = TokensRead + 1
         /\ TokensRead' \in 1..Len(Tokens(sent)) /\ Head(rest) = Tokens(sent)[TokensRead']
         /\ Len(rest') <= Len(Tokens(sent))
         /\ \A j \in 1..Len(rest') : rest'[j] = Tokens(sent)[TokensRead' + j]
<1> DEFINE T == [kind : TokenKinds, text : Text]
<1>1. /\ rest \in Seq(T) /\ Head(rest) = rest[1] /\ rest[1] \in T
      /\ Len(rest) \in Nat \ {0} /\ Len(Tail(rest)) = Len(rest) - 1
      /\ \A j \in 1..(Len(rest) - 1) : Tail(rest)[j] = rest[j + 1]
  <2>1. rest \in Seq(T)
    BY DEF ParserIInv, TokenSeq
  <2> HIDE DEF T
  <2> QED BY <2>1, HeadTailProperties
<1>2. m = Len(Head(rest).text) /\ rest' = Tail(rest) /\ cut = {}
  BY DEF Advance
<1>3. Part(m) = Head(rest).text
  <2>1. Head(rest).text \in Seq(Pieces)
    BY <1>1 DEF Text
  <2> QED BY <1>2, <2>1 DEF Part
<1>4. Len(Tokens(sent)) \in Nat
  BY TokenAt DEF Ahead
<1>5. /\ TokensRead = Len(Tokens(sent)) - Len(rest) /\ TokensRead \in Nat
      /\ Len(rest') = Len(rest) - 1 /\ TokensRead' = TokensRead + 1
      /\ TokensRead' \in 1..Len(Tokens(sent)) /\ Len(rest') <= Len(Tokens(sent))
  BY <1>1, <1>2, <1>4 DEF TokensRead, Ahead
<1>6. Head(rest) = Tokens(sent)[TokensRead + 1]
  BY <1>1 DEF Ahead
<1>7. ASSUME NEW j \in 1..Len(rest') PROVE rest'[j] = Tokens(sent)[TokensRead' + j]
  <2>1. j + 1 \in 1..Len(rest) /\ j \in 1..(Len(rest) - 1) /\ TokensRead + (j + 1) = TokensRead' + j
    BY <1>1, <1>5
  <2> QED BY <1>1, <1>2, <2>1 DEF Ahead
<1> QED BY <1>2, <1>3, <1>5, <1>6, <1>7

\* Lines 1..i of n end with token 2 * i + 1, their fields with token 2 * i.
LEMMA LinesUpTo ==
  ASSUME NEW n \in Nat, NEW i \in 1..n
  PROVE  /\ {j \in 1..n : 2 * j + 1 <= 2 * i} = {j \in 1..n : 2 * j + 1 <= 2 * i - 1}
         /\ {j \in 1..n : 2 * j + 1 <= 2 * i + 1} = {j \in 1..n : 2 * j + 1 <= 2 * i} \cup {i}
         /\ \A j \in {k \in 1..n : 2 * k + 1 <= 2 * i} : j <= i
         /\ \A j \in 1..n : (2 * i = 2 * j => j = i) /\ 2 * i + 1 # 2 * j
         /\ 2 * i # 1 /\ 2 * i + 1 # 1
OBVIOUS

\* What each kind of token does to the lines that have been read.
LEMMA LinesReadStep ==
  ASSUME sent \in Requests, UNCHANGED sent, TokensRead \in Nat, TokensRead' = TokensRead + 1,
         TokensRead' \in 1..Len(Tokens(sent))
  PROVE  LET t == Tokens(sent)[TokensRead'] IN
         /\ t.kind = "url" => t.text = sent.url
         /\ TokensRead' = 1 => t.kind = "url"
         /\ t.kind \in {"url", "field"} => LinesRead' = LinesRead
         /\ t.kind # "field" => \A i \in DOMAIN sent.headers : TokensRead' # 2 * i
         /\ \A i \in DOMAIN sent.headers : TokensRead' = 2 * i => t.text = sent.headers[i].name
         /\ t.kind = "value" =>
              \E i \in DOMAIN sent.headers :
                /\ t.text = sent.headers[i].value /\ TokensRead = 2 * i
                /\ LinesRead' = LinesRead \cup {i} /\ \A j \in LinesRead : j <= i
<1> DEFINE n == Len(sent.headers)
           q == TokensRead'
<1>1. /\ n \in Nat /\ Len(Tokens(sent)) = 1 + 2 * n /\ DOMAIN sent.headers = 1..n
      /\ Tokens(sent)[1] = Token("url", sent.url)
      /\ \A i \in 1..n : /\ Tokens(sent)[2 * i] = Token("field", sent.headers[i].name)
                         /\ Tokens(sent)[2 * i + 1] = Token("value", sent.headers[i].value)
  BY TokenAt, RequestsKnown
<1>2. LinesRead' = {i \in 1..n : 2 * i + 1 <= TokensRead + 1}
      /\ LinesRead = {i \in 1..n : 2 * i + 1 <= TokensRead}
  BY <1>1 DEF LinesRead
<1>3. q = 1 \/ (\E i \in 1..n : q = 2 * i) \/ (\E i \in 1..n : q = 2 * i + 1)
  <2>1. q \in 1..(1 + 2 * n)
    BY <1>1
  <2> HIDE DEF q, n
  <2>2. q = 1 \/ (q \div 2 \in 1..n /\ (q = 2 * (q \div 2) \/ q = 2 * (q \div 2) + 1))
    BY <1>1, <2>1
  <2> QED BY <2>2
<1>4. CASE q = 1
  <2>1. LinesRead' = LinesRead /\ \A i \in 1..n : q # 2 * i
    BY <1>1, <1>2, <1>4
  <2> QED BY <1>1, <1>4, <2>1 DEF Token
<1>5. ASSUME NEW i \in 1..n, q = 2 * i
      PROVE  /\ Tokens(sent)[q].kind = "field"
             /\ Tokens(sent)[q].text = sent.headers[i].name /\ q # 1
             /\ LinesRead' = LinesRead /\ \A j \in 1..n : q = 2 * j => j = i
  <2>1. Tokens(sent)[q] = Token("field", sent.headers[i].name) /\ q # 1
        /\ LinesRead' = LinesRead /\ \A j \in 1..n : q = 2 * j => j = i
    <3>1. n \in Nat /\ i \in 1..n /\ TokensRead + 1 = 2 * i /\ TokensRead = 2 * i - 1
      BY <1>1, <1>5
    <3>2. Tokens(sent)[q] = Token("field", sent.headers[i].name)
      BY <1>1, <1>5, Zenon
    <3> HIDE DEF n, q
    <3>3. /\ LinesRead' = {j \in 1..n : 2 * j + 1 <= 2 * i}
          /\ LinesRead = {j \in 1..n : 2 * j + 1 <= 2 * i - 1}
      BY <1>2, <3>1, Zenon
    <3>4. {j \in 1..n : 2 * j + 1 <= 2 * i} = {j \in 1..n : 2 * j + 1 <= 2 * i - 1}
      BY <3>1, LinesUpTo, Zenon
    <3>5. LinesRead' = LinesRead
      BY <3>3, <3>4, Zenon
    <3>6. q # 1
      BY <1>5, <3>1
    <3>7. \A j \in 1..n : q = 2 * j => j = i
      BY <1>5, <3>1
    <3> QED BY <3>2, <3>5, <3>6, <3>7, Zenon
  <2> QED BY <2>1 DEF Token
<1>6. ASSUME NEW i \in 1..n, q = 2 * i + 1
      PROVE  /\ Tokens(sent)[q].kind = "value"
             /\ Tokens(sent)[q].text = sent.headers[i].value /\ q # 1
             /\ TokensRead = 2 * i /\ \A j \in 1..n : q # 2 * j
             /\ LinesRead' = LinesRead \cup {i} /\ \A j \in LinesRead : j <= i
  <2>1. Tokens(sent)[q] = Token("value", sent.headers[i].value) /\ q # 1
        /\ TokensRead = 2 * i /\ (\A j \in 1..n : q # 2 * j)
        /\ LinesRead' = LinesRead \cup {i} /\ \A j \in LinesRead : j <= i
    <3>1. n \in Nat /\ i \in 1..n /\ TokensRead + 1 = 2 * i + 1 /\ TokensRead = 2 * i
      BY <1>1, <1>6
    <3>2. Tokens(sent)[q] = Token("value", sent.headers[i].value)
      BY <1>1, <1>6, Zenon
    <3> HIDE DEF n, q
    <3>3. /\ LinesRead' = {j \in 1..n : 2 * j + 1 <= 2 * i + 1}
          /\ LinesRead = {j \in 1..n : 2 * j + 1 <= 2 * i}
      BY <1>2, <3>1, Zenon
    <3>4. LinesRead' = LinesRead \cup {i}
      BY <3>1, <3>3, LinesUpTo, Zenon
    <3>5. \A j \in LinesRead : j <= i
      BY <3>1, <3>3, LinesUpTo, Zenon
    <3>6. q # 1 /\ \A j \in 1..n : q # 2 * j
      BY <1>6, <3>1
    <3> QED BY <3>1, <3>2, <3>4, <3>5, <3>6, Zenon
  <2> QED BY <2>1 DEF Token
<1>7. q = 1 => Tokens(sent)[q].kind = "url" /\ Tokens(sent)[q].text = sent.url
  BY <1>1 DEF Token
<1>8. DOMAIN sent.headers = 1..n
  BY <1>1
<1> DEFINE t == Tokens(sent)[q]
<1> HIDE DEF t, q, n
<1>9. CASE \E i \in 1..n : q = 2 * i
  <2>1. PICK i \in 1..n : q = 2 * i
    BY <1>9
  <2>2. t.kind = "field" /\ LinesRead' = LinesRead /\ q # 1
        /\ t.text = sent.headers[i].name /\ \A j \in 1..n : q = 2 * j => j = i
    BY <1>5, <2>1 DEF t
  <2> QED BY <1>8, <2>2 DEF t, q
<1>10. CASE \E i \in 1..n : q = 2 * i + 1
  <2>1. PICK i \in 1..n : q = 2 * i + 1
    BY <1>10
  <2>2. t.kind = "value" /\ TokensRead = 2 * i /\ q # 1
        /\ LinesRead' = LinesRead \cup {i} /\ (\A j \in LinesRead : j <= i)
        /\ t.text = sent.headers[i].value /\ \A j \in 1..n : q # 2 * j
    BY <1>6, <2>1 DEF t
  <2> QED BY <1>8, <2>2 DEF t, q
<1>11. CASE q = 1
  BY <1>4, <1>7, <1>8, <1>11 DEF t, q
<1> QED BY <1>3, <1>9, <1>10, <1>11

LEMMA WholeExecute == ParserIInv /\ Whole /\ Execute => Whole'
<1> SUFFICES ASSUME ParserIInv, Whole, Execute PROVE Whole'
  OBVIOUS
<1>0. phase' \in {"parsing", "assert"} /\ msgs' \in Nat \ {0}
  BY DEF Execute, OnUrl, OnHeaderField, OnHeaderValue, Whole
<1> SUFFICES ASSUME phase' = "parsing" /\ cut' = {} PROVE Ahead' /\ Pointers' /\ Answered'
  BY <1>0 DEF Whole
<1>1. PICK m \in Parts : Advance(m) /\ (OnUrl(m) \/ OnHeaderField(m) \/ OnHeaderValue(m))
  BY DEF Execute
<1>2. cut = {} /\ phase = "parsing" /\ rest # << >> /\ UNCHANGED <<sent, msgs>>
  BY <1>1 DEF Advance, Execute
<1>3. Ahead /\ Pointers /\ Answered
  BY <1>2 DEF Whole
<1> DEFINE t == Head(rest)
<1>4. /\ Part(m) = t.text /\ TokensRead \in Nat /\ TokensRead' = TokensRead + 1
      /\ TokensRead' \in 1..Len(Tokens(sent)) /\ t = Tokens(sent)[TokensRead']
      /\ Len(rest') <= Len(Tokens(sent))
      /\ \A j \in 1..Len(rest') : rest'[j] = Tokens(sent)[TokensRead' + j]
  BY <1>1, <1>2, <1>3, WholeToken
<1>5. Ahead'
  BY <1>2, <1>3, <1>4 DEF Ahead
<1>6. /\ t.kind = "url" => t.text = sent.url
      /\ TokensRead' = 1 => t.kind = "url"
      /\ t.kind \in {"url", "field"} => LinesRead' = LinesRead
      /\ t.kind # "field" => \A i \in DOMAIN sent.headers : TokensRead' # 2 * i
      /\ \A i \in DOMAIN sent.headers : TokensRead' = 2 * i => t.text = sent.headers[i].name
      /\ t.kind = "value" =>
           \E i \in DOMAIN sent.headers :
             /\ t.text = sent.headers[i].value /\ TokensRead = 2 * i
             /\ LinesRead' = LinesRead \cup {i} /\ \A j \in LinesRead : j <= i
  BY <1>2, <1>3, <1>4, LinesReadStep DEF Ahead
<1> HIDE DEF t
<1>7. TokensRead' # 1 => TokensRead >= 1
  BY <1>4
<1>8. CASE t.kind = "url"
  <2>1. url' = Str(sent.url) /\ result' = result
    BY <1>1, <1>4, <1>6, <1>8 DEF OnUrl, OnHeaderField, OnHeaderValue, UrlOf, t
  <2>2. Pointers'
    BY <1>2, <1>6, <1>8, <2>1 DEF Pointers
  <2>3. Answered'
    BY <1>2, <1>3, <1>6, <1>8, <2>1 DEF Answered, Untouched, Holds
  <2> QED BY <1>5, <2>2, <2>3
<1>9. CASE t.kind = "field"
  <2>1. field' = Str(t.text) /\ result' = result /\ url' = url
    BY <1>1, <1>4, <1>9 DEF OnUrl, OnHeaderField, OnHeaderValue, FieldOf, t
  <2>2. Pointers'
    BY <1>2, <1>3, <1>6, <1>7, <1>9, <2>1 DEF Pointers
  <2>3. Answered'
    BY <1>2, <1>3, <1>6, <1>9, <2>1 DEF Answered, Untouched, Holds
  <2> QED BY <1>5, <2>2, <2>3
<1>10. CASE t.kind = "value"
  <2>1. OnHeaderValue(m)
    BY <1>1, <1>10 DEF OnUrl, OnHeaderField, t
  <2>2. PICK i \in DOMAIN sent.headers :
          /\ t.text = sent.headers[i].value /\ TokensRead = 2 * i
          /\ LinesRead' = LinesRead \cup {i} /\ \A j \in LinesRead : j <= i
    BY <1>6, <1>10
  <2>3. field.text = sent.headers[i].name
    BY <1>3, <2>2 DEF Pointers, Str
  <2>4. url' = url /\ ProcessHeaderLine(field.text, t.text)
    BY <1>2, <1>4, <2>1 DEF OnHeaderValue
  <2>5. Pointers'
    BY <1>2, <1>3, <1>6, <1>7, <1>10, <2>4 DEF Pointers
  <2>6. ASSUME NEW k \in Known
        PROVE  (Untouched(k) \/ \E j \in DOMAIN sent.headers : Holds(k, j))'
    <3>1. result'[k] = IF LowerName(sent.headers[i].name) = k THEN Str(sent.headers[i].value)
                                                             ELSE result[k]
      BY <2>2, <2>3, <2>4 DEF ProcessHeaderLine
    <3>2. i \in Lines(sent, k) <=> LowerName(sent.headers[i].name) = k
      BY DEF Lines
    <3>3. Lines(sent, k)' = Lines(sent, k)
      BY <1>2 DEF Lines
    <3>4. CASE i \in Lines(sent, k)
      <4>1. i <= i
        <5>1. DOMAIN sent.headers \subseteq Nat
          BY <1>3, RequestsKnown DEF Ahead
        <5> QED BY <5>1
      <4>2. Holds(k, i)'
        BY <1>2, <2>2, <3>1, <3>2, <3>3, <3>4, <4>1 DEF Holds
      <4> QED BY <1>2, <4>2
    <3>5. CASE i \notin Lines(sent, k)
      <4>1. /\ LinesRead' \cap Lines(sent, k) = LinesRead \cap Lines(sent, k)
            /\ result'[k] = result[k]
        BY <2>2, <3>1, <3>2, <3>5
      <4> QED BY <1>2, <1>3, <3>3, <4>1 DEF Answered, Untouched, Holds
    <3> QED BY <3>4, <3>5
  <2>7. Answered'
    BY <2>6 DEF Answered
  <2> QED BY <1>5, <2>5, <2>7
<1> QED BY <1>1, <1>8, <1>9, <1>10 DEF OnUrl, OnHeaderField, OnHeaderValue, t

LEMMA WholeParseStep == ParserIInv /\ Whole /\ [ParserNext]_parserVars => Whole'
<1> SUFFICES ASSUME ParserIInv, Whole, [ParserNext]_parserVars PROVE Whole'
  OBVIOUS
<1>1. CASE Execute
  BY <1>1, WholeExecute
<1>2. CASE NextMessage
  <2>1. Begun'
    BY <1>2 DEF NextMessage, Whole, Begun
  <2>2. (Begun => Whole)'
    BY WholeStart, PTL
  <2> QED BY <2>1, <2>2
<1>3. ASSUME UNCHANGED <<sent, rest, msgs, url, field, value, result, cut>>,
             phase' = "complete" => rest = << >>, phase' = "parsing" => phase = "parsing",
             phase' \in {"parsing", "complete"} => phase \in {"parsing", "complete"}
      PROVE  Whole'
  BY <1>3 DEF Whole, Ahead, Pointers, Answered, Untouched, Holds, LinesRead, TokensRead
<1>4. CASE OnMessageComplete
  BY <1>3, <1>4 DEF OnMessageComplete
<1>5. CASE CleanupParseReq
  BY <1>5 DEF CleanupParseReq, Whole
<1>6. CASE ParserOver \/ UNCHANGED parserVars
  BY <1>6 DEF ParserOver, parserVars, Whole, Ahead, Pointers, Answered, Untouched, Holds, LinesRead, TokensRead
<1> QED BY <1>1, <1>2, <1>4, <1>5, <1>6 DEF ParserNext

\* A complete request was read to its end.
LEMMA WholeIsParsed == ParserIInv /\ Whole => ParsedAsSent
<1> SUFFICES ASSUME ParserIInv, Whole, phase = "complete", cut = {}
             PROVE  /\ url = Str(sent.url)
                    /\ \A k \in Known : IF Lines(sent, k) # {} THEN result[k] = Says(sent, k)
                                        ELSE msgs = 1 => result[k] = Garbage
  BY DEF ParsedAsSent
<1>1. Ahead /\ Pointers /\ Answered /\ rest = << >>
  BY DEF Whole, Ahead
<1>2. /\ TokensRead = 1 + 2 * Len(sent.headers) /\ Len(sent.headers) \in Nat
      /\ DOMAIN sent.headers = 1..Len(sent.headers)
  <2>1. Len(rest) = 0
    BY <1>1
  <2>2. sent \in Requests
    BY <1>1 DEF Ahead
  <2> QED BY <2>1, <2>2, TokenAt, RequestsKnown DEF TokensRead
<1>3. LinesRead = DOMAIN sent.headers
  BY <1>2 DEF LinesRead
<1>4. url = Str(sent.url)
  BY <1>1, <1>2 DEF Pointers
<1>5. ASSUME NEW k \in Known
      PROVE  IF Lines(sent, k) # {} THEN result[k] = Says(sent, k)
             ELSE msgs = 1 => result[k] = Garbage
  <2>1. Lines(sent, k) \subseteq 1..Len(sent.headers) /\ LinesRead \cap Lines(sent, k) = Lines(sent, k)
    BY <1>2, <1>3 DEF Lines
  <2>2. CASE Untouched(k)
    BY <2>1, <2>2 DEF Untouched
  <2>3. ASSUME NEW i \in DOMAIN sent.headers, Holds(k, i)
        PROVE  Lines(sent, k) # {} /\ result[k] = Says(sent, k)
    <3>1. /\ i \in Lines(sent, k) /\ result[k] = Str(sent.headers[i].value)
          /\ \A j \in Lines(sent, k) : i >= j
      BY <1>2, <2>1, <2>3 DEF Holds
    <3>2. \A j \in Lines(sent, k) : (\A l \in Lines(sent, k) : j >= l) => j = i
      BY <1>2, <2>1, <3>1
    <3>3. Max(Lines(sent, k)) = i
      BY <3>1, <3>2 DEF Max
    <3> QED BY <3>1, <3>3 DEF Says
  <2> QED BY <1>1, <2>2, <2>3 DEF Answered
<1> QED BY <1>4, <1>5

\* on_parse_complete (main.c:109) is given the url and, for every known header, what the
\* last of its lines says, for any request, any known headers and any number of
\* messages, unless a read cut a token on the connection.
THEOREM ParsesWhatWasSent == ParserSpec => []ParsedAsSent
<1>1. ParserInit => Whole
  BY WholeStart DEF ParserInit, Begun
<1>2. ParserIInv /\ Whole /\ [ParserNext]_parserVars => ParserIInv' /\ Whole'
  BY ParserInductive, WholeParseStep
<1> QED BY <1>1, <1>2, ParserInitIInv, WholeIsParsed, PTL DEF ParserSpec

=============================================================================
