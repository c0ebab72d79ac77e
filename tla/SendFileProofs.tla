--------------------------- MODULE SendFileProofs ---------------------------
(***************************************************************************)
(* Proofs about SendFile, for any file, any number of reads of a request   *)
(* and all faults.                                                         *)
(***************************************************************************)
EXTENDS SendFile, SequenceTheorems, FiniteSetTheorems, FunctionTheorems, TLAPS

WriteReqs == [kind : Kinds, id : Ids]

Types ==
  /\ tcp \in {"open", "closing", "freed", "dropping", "dropped"}
  /\ reads \in Nat /\ stats \in Nat /\ length \in Nat /\ data = reads - stats
  /\ stats <= reads /\ reads <= MaxReads
  /\ pipe \in [Ids -> Pipes] /\ burst \in [Ids -> Nat]
  /\ writes \in Seq(WriteReqs) /\ taken \in 0..Len(writes) /\ wire \in [Kinds -> Nat]

\* Records are made in the order of their stats, and tcp->data is the last of them.
Records ==
  /\ \A p \in Ids : p > data => pipe[p] = NoPipe /\ burst[p] = 0
  /\ \A i \in 1..Len(writes) : writes[i].id <= data

\* The one response to a request that arrived in one read: nothing of it yet; its
\* headers are on their way; the connection was closed before them; they are sent,
\* and every buffer read is written, or in flight.
NoResponse ==
  data = 0 /\ writes = << >> /\ wire["headers"] = 0 /\ wire["data"] = 0
HeadersFirst ==
  /\ Len(writes) = 1 /\ writes[1] = [kind |-> "headers", id |-> 1]
  /\ wire["headers"] = taken /\ wire["data"] = 0
  /\ ~pipe[1].reading /\ pipe[1].nread = 0 /\ pipe[1].nwritten = 0 /\ burst[1] = 0
Unanswered ==
  tcp \in {"dropping", "dropped"} /\ writes = << >> /\ ~pipe[1].reading /\ burst[1] = 0
FileFollows ==
  /\ \A i \in 1..Len(writes) : writes[i] = [kind |-> "data", id |-> 1]
  /\ wire["headers"] = 1 /\ wire["data"] = pipe[1].nwritten + taken
  /\ tcp \in {"dropping", "dropped"} \/ pipe[1].nwritten + Len(writes) = pipe[1].nread

Response ==
  InOneRead =>
    /\ NoResponse \/ (data = 1 /\ (HeadersFirst \/ Unanswered \/ FileFollows))
    /\ data = 1 => pipe[1].size = length /\ pipe[1].nread + pipe[1].left = length
    /\ tcp \in {"closing", "freed"} =>
         /\ data = 1 /\ FileFollows /\ writes = << >> /\ burst[1] = 0
         /\ pipe[1].nwritten = length /\ pipe[1].left = 0

\* The sets that are counted are finite.
Accounts == IsFiniteSet(BuffersRead) /\ IsFiniteSet(BuffersWritten)

-----------------------------------------------------------------------------
(* The shapes of things.                                                    *)

LEMMA IdsAndKinds ==
  Ids = 1..MaxReads /\ MaxReads \in Nat \ {0} /\ 1 \in Ids /\ Batch \in Nat \ {0}
  /\ "headers" \in Kinds /\ "data" \in Kinds
BY MaxReadsNat, BatchPositive DEF Ids, Kinds

\* uv_write adds a request behind the others and the kernel may take it, or it does
\* nothing because the handle was closed.
LEMMA WriteEffect ==
  ASSUME Types, NEW kind \in Kinds, NEW id \in Ids, Write(kind, id)
  PROVE  /\ writes' \in Seq(WriteReqs) /\ taken' \in 0..Len(writes')
         /\ wire' \in [Kinds -> Nat]
         /\ tcp = "open" =>
              /\ Len(writes') = Len(writes) + 1
              /\ writes'[Len(writes) + 1] = [kind |-> kind, id |-> id]
              /\ \A i \in 1..Len(writes) : writes'[i] = writes[i]
              /\ \/ taken' = taken /\ wire' = wire
                 \/ /\ taken' = taken + 1
                    /\ wire' = [wire EXCEPT ![kind] = wire[kind] + 1]
         /\ tcp # "open" => UNCHANGED <<writes, taken, wire>>
<1> DEFINE r == [kind |-> kind, id |-> id]
<1>1. r \in WriteReqs /\ writes \in Seq(WriteReqs) /\ Len(writes) \in Nat /\ taken \in Nat
      /\ taken <= Len(writes) /\ wire \in [Kinds -> Nat]
  BY DEF Types, WriteReqs
<1> HIDE DEF r
<1>2. /\ Append(writes, r) \in Seq(WriteReqs) /\ Len(Append(writes, r)) = Len(writes) + 1
      /\ \A i \in 1..Len(writes) : Append(writes, r)[i] = writes[i]
      /\ Append(writes, r)[Len(writes) + 1] = r
  BY <1>1, AppendProperties
<1>3. CASE tcp # "open"
  BY <1>1, <1>3 DEF Write
<1>4. CASE tcp = "open"
  <2>1. writes' = Append(writes, r)
    BY <1>4 DEF Write, r
  <2>2. \/ taken' = taken /\ wire' = wire
        \/ taken' = taken + 1 /\ wire' = [wire EXCEPT ![kind] = wire[kind] + 1]
    BY <1>4 DEF Write
  <2> QED BY <1>1, <1>2, <1>4, <2>1, <2>2 DEF r
<1> QED BY <1>3, <1>4

\* The oldest request is called back.
LEMMA CalledBackEffect ==
  ASSUME Types, CalledBack
  PROVE  /\ writes # << >> /\ Len(writes) \in Nat \ {0} /\ Head(writes) = writes[1]
         /\ Head(writes) \in WriteReqs
         /\ writes' \in Seq(WriteReqs) /\ Len(writes') = Len(writes) - 1
         /\ \A i \in 1..Len(writes') : writes'[i] = writes[i + 1]
         /\ taken \in 1..Len(writes) /\ taken' = taken - 1 /\ taken' \in 0..Len(writes')
<1>1. writes \in Seq(WriteReqs) /\ Len(writes) \in Nat /\ taken \in 1..Len(writes)
  BY DEF CalledBack, Types
<1>2. writes # << >> /\ writes' = Tail(writes) /\ taken' = taken - 1
  BY <1>1 DEF CalledBack
<1>3. Head(writes) = writes[1]
  BY <1>1, <1>2
<1> QED BY <1>1, <1>2, <1>3, HeadTailProperties

LEMMA NewPipeIsPipe ==
  ASSUME Types, NEW opened \in BOOLEAN
  PROVE  /\ NewPipe(opened) \in Pipes /\ NewPipe(opened).size = length
         /\ NewPipe(opened).left = length /\ NewPipe(opened).nread = 0
         /\ NewPipe(opened).nwritten = 0 /\ ~NewPipe(opened).reading
BY DEF NewPipe, NoPipe, Pipes, Types

\* A stat that is called back makes the next record.
LEMMA OnFileStatShape ==
  ASSUME Types, OnFileStat, proc' = "running"
  PROVE  /\ data + 1 \in Ids /\ data' = data + 1 /\ data \in Nat /\ stats' = stats - 1
         /\ stats \in Nat \ {0}
         /\ \E opened \in BOOLEAN : pipe' = [pipe EXCEPT ![data + 1] = NewPipe(opened)]
         /\ Write("headers", data + 1) /\ UNCHANGED <<proc, tcp, reads, fileVars, burst>>
<1>1. stats \in Nat \ {0} /\ proc = "running" /\ reads \in Nat /\ stats <= reads
      /\ reads <= MaxReads /\ data = reads - stats
  BY DEF OnFileStat, LoopFree, Types
<1>2. 1 + reads - stats = data + 1 /\ data \in Nat /\ data + 1 \in Ids
  BY <1>1, IdsAndKinds
<1> QED BY <1>1, <1>2 DEF OnFileStat, Stop

LEMMA TypesInit == Init => Types /\ Records
<1> SUFFICES ASSUME Init PROVE Types /\ Records
  OBVIOUS
<1>1. NoPipe \in Pipes
  BY DEF NoPipe, Pipes
<1>2. writes \in Seq(WriteReqs) /\ Len(writes) = 0 /\ length \in Nat
  BY LengthsNat DEF Init
<1> QED BY <1>1, <1>2, IdsAndKinds DEF Init, Types, Records

\* What the steps do to a record.
LEMMA RecordUpdates ==
  ASSUME NEW q \in Pipes
  PROVE  /\ Counted(q) \in Pipes /\ Counted(q).nwritten = q.nwritten + 1
         /\ Counted(q).nread = q.nread /\ Counted(q).left = q.left
         /\ Counted(q).size = q.size /\ Counted(q).reading = q.reading
         /\ q.left > 0 =>
              /\ BufferRead(q) \in Pipes /\ BufferRead(q).nread = q.nread + 1
              /\ BufferRead(q).left = q.left - 1
         /\ BufferRead(q).nwritten = q.nwritten
         /\ BufferRead(q).size = q.size /\ BufferRead(q).reading = q.reading
         /\ [q EXCEPT !.reading = TRUE] \in Pipes /\ [q EXCEPT !.mem = "freed"] \in Pipes
<1>1. /\ Counted(q) \in Pipes /\ Counted(q).nwritten = q.nwritten + 1
      /\ Counted(q).nread = q.nread /\ Counted(q).left = q.left
      /\ Counted(q).size = q.size /\ Counted(q).reading = q.reading
  BY DEF Pipes, Counted
<1>2. ASSUME q.left > 0
      PROVE  /\ BufferRead(q) \in Pipes /\ BufferRead(q).nread = q.nread + 1
             /\ BufferRead(q).left = q.left - 1
  <2>1. q.nread + 1 \in Nat /\ q.left - 1 \in Nat
    BY <1>2 DEF Pipes
  <2> QED BY <2>1 DEF Pipes, BufferRead
<1>3. /\ BufferRead(q).nwritten = q.nwritten
      /\ BufferRead(q).size = q.size /\ BufferRead(q).reading = q.reading
  BY DEF Pipes, BufferRead
<1>4. [q EXCEPT !.reading = TRUE] \in Pipes
  BY DEF Pipes
<1>5. [q EXCEPT !.mem = "freed"] \in Pipes
  BY DEF Pipes
<1> QED BY <1>1, <1>2, <1>3, <1>4, <1>5

\* The steps one by one, those that may stop the process as far as they do not.
LEMMA OnHeadersSentShape ==
  ASSUME Types, OnHeadersSent
  PROVE  /\ CalledBack /\ writes[1].kind = "headers"
         /\ UNCHANGED <<tcp, data, reads, stats, length, burst, wire>>
         /\ \A p \in Ids :
              pipe'[p] = pipe[p] \/ (p = data /\ pipe'[p] = [pipe[p] EXCEPT !.reading = TRUE])
         /\ pipe' \in [Ids -> Pipes]
<1>1. /\ CalledBack /\ writes[1].kind = "headers" /\ pipe \in [Ids -> Pipes]
      /\ UNCHANGED <<tcp, data, reads, stats, length, burst, wire>>
  BY CalledBackEffect DEF OnHeadersSent, CalledBack, fileVars, Types
<1>2. pipe' = pipe \/ pipe' = [pipe EXCEPT ![data] = [pipe[data] EXCEPT !.reading = TRUE]]
  BY DEF OnHeadersSent
<1>3. \A p \in Ids :
        pipe'[p] = pipe[p] \/ (p = data /\ pipe'[p] = [pipe[p] EXCEPT !.reading = TRUE])
  BY <1>1, <1>2
<1>4. \A p \in Ids : [pipe[p] EXCEPT !.reading = TRUE] \in Pipes
  BY <1>1, RecordUpdates
<1>5. pipe' \in [Ids -> Pipes]
  BY <1>1, <1>2, <1>4
<1> QED BY <1>1, <1>3, <1>5

LEMMA OnWriteResShape ==
  ASSUME Types, OnWriteRes
  PROVE  /\ CalledBack /\ writes[1].kind = "data" /\ writes[1].id \in Ids
         /\ UNCHANGED <<data, reads, stats, length, burst, wire>>
         /\ pipe' = [pipe EXCEPT ![writes[1].id] = Counted(pipe[writes[1].id])]
         /\ pipe' \in [Ids -> Pipes]
         /\ \/ tcp' = tcp
            \/ /\ tcp = "open" /\ tcp' = "closing"
               /\ pipe'[writes[1].id].nwritten = pipe'[writes[1].id].nread
               /\ pipe'[writes[1].id].size = pipe'[writes[1].id].nread
<1> DEFINE p == writes[1].id
           q == Counted(pipe[p])
<1>1. /\ CalledBack /\ writes[1].kind = "data" /\ p \in Ids /\ pipe \in [Ids -> Pipes]
      /\ UNCHANGED <<data, reads, stats, length, burst, wire>>
      /\ Head(writes) = writes[1]
  BY CalledBackEffect DEF OnWriteRes, CalledBack, fileVars, Types, WriteReqs
<1>2. q \in Pipes
  BY <1>1, RecordUpdates
<1>3. pipe' = [pipe EXCEPT ![p] = q]
  BY <1>1 DEF OnWriteRes
<1>4. tcp' = tcp \/ (tcp = "open" /\ tcp' = "closing" /\ Done(q) /\ SizeAsserted(q))
  BY <1>1 DEF OnWriteRes
<1> HIDE DEF p, q
<1>5. pipe'[p] = q /\ pipe' \in [Ids -> Pipes]
  BY <1>1, <1>2, <1>3
<1> QED BY <1>1, <1>3, <1>4, <1>5 DEF Done, SizeAsserted, p, q

LEMMA PollFileShape ==
  ASSUME Types, Records, NEW p \in Ids, PollFile(p), proc' = "running"
  PROVE  /\ pipe[p].reading /\ pipe[p].left > 0 /\ p <= data /\ burst[p] = 0
         /\ burst' = [burst EXCEPT ![p] = Batch]
         /\ UNCHANGED <<tcp, data, reads, stats, pipe, length, writes, taken, wire>>
<1>1. pipe[p].reading /\ pipe[p].left > 0 /\ burst[p] = 0
      /\ burst' = [burst EXCEPT ![p] = Batch]
      /\ UNCHANGED <<tcp, data, reads, stats, pipe, length, writes, taken, wire>>
  BY DEF PollFile, Stop, LoopFree, fileVars
<1>2. ~(p > data) /\ data \in Int /\ p \in Int
  BY <1>1, IdsAndKinds DEF Records, NoPipe, Types
<1> QED BY <1>1, <1>2

LEMMA OnFileDataShape ==
  ASSUME Types, Records, NEW p \in Ids, OnFileData(p)
  PROVE  /\ pipe[p].left > 0 /\ p <= data /\ data \in Ids /\ burst[p] \in Nat \ {0}
         /\ pipe' = [pipe EXCEPT ![p] = BufferRead(pipe[p])]
         /\ pipe' \in [Ids -> Pipes] /\ BufferRead(pipe[p]) \in Pipes
         /\ burst' = [burst EXCEPT ![p] = ReadsLeft(p)] /\ ReadsLeft(p) \in Nat
         /\ Write("data", data) /\ UNCHANGED <<proc, tcp, data, reads, stats, length>>
<1>1. /\ pipe[p].left > 0 /\ burst[p] > 0
      /\ pipe' = [pipe EXCEPT ![p] = BufferRead(pipe[p])]
      /\ burst' = [burst EXCEPT ![p] = ReadsLeft(p)]
      /\ Write("data", data) /\ UNCHANGED <<proc, tcp, data, reads, stats, length>>
  BY DEF OnFileData, ReadLoop, fileVars
<1>2. pipe \in [Ids -> Pipes] /\ burst[p] \in Nat \ {0} /\ ReadsLeft(p) \in Nat
  BY <1>1 DEF Types, ReadsLeft
<1>3. BufferRead(pipe[p]) \in Pipes
  BY <1>1, <1>2, RecordUpdates
<1>4. pipe' \in [Ids -> Pipes]
  BY <1>1, <1>2, <1>3
<1>5. ~(p > data) /\ p \in Nat /\ data \in Int /\ data <= MaxReads
  BY <1>2, IdsAndKinds DEF Records, Types
<1>6. p <= data /\ data \in Ids
  BY <1>5, IdsAndKinds
<1> QED BY <1>1, <1>2, <1>3, <1>4, <1>6

\* A read that gave nothing leaves all that is counted alone.
LEMMA OnFileErrorShape ==
  ASSUME Types, Records, NEW p \in Ids, OnFileError(p)
  PROVE  /\ p <= data /\ burst[p] > 0 /\ burst' = [burst EXCEPT ![p] = 0]
         /\ UNCHANGED <<proc, tcp, data, reads, stats, length, writes, taken, wire>>
         /\ pipe' \in [Ids -> Pipes]
         /\ \A r \in Ids \ {p} : pipe'[r] = pipe[r]
         /\ \A r \in Ids :
              /\ pipe'[r].nread = pipe[r].nread /\ pipe'[r].nwritten = pipe[r].nwritten
              /\ pipe'[r].left = pipe[r].left /\ pipe'[r].size = pipe[r].size
<1> DEFINE stopped == [pipe[p] EXCEPT !.reading = FALSE]
<1>1. /\ burst[p] > 0 /\ burst' = [burst EXCEPT ![p] = 0]
      /\ UNCHANGED <<proc, tcp, data, reads, stats, length, writes, taken, wire>>
      /\ pipe' = pipe \/ pipe' = [pipe EXCEPT ![p] = stopped]
  BY DEF OnFileError, ReadLoop, fileVars
<1>2. ~(p > data) /\ p \in Int /\ data \in Int
  BY <1>1, IdsAndKinds DEF Records, Types
<1>3. pipe \in [Ids -> Pipes] /\ pipe[p] \in Pipes
  BY DEF Types
<1>4. /\ stopped \in Pipes /\ stopped.nread = pipe[p].nread /\ stopped.left = pipe[p].left
      /\ stopped.nwritten = pipe[p].nwritten /\ stopped.size = pipe[p].size
  BY <1>3 DEF Pipes
<1> HIDE DEF stopped
<1>5. pipe' \in [Ids -> Pipes] /\ \A r \in Ids \ {p} : pipe'[r] = pipe[r]
  BY <1>1, <1>3, <1>4
<1>6. pipe'[p] = pipe[p] \/ pipe'[p] = stopped
  BY <1>1, <1>3
<1> QED BY <1>1, <1>2, <1>4, <1>5, <1>6

LEMMA PolloutShape ==
  ASSUME Types, Pollout
  PROVE  /\ tcp = "open" /\ taken + 1 \in 1..Len(writes) /\ taken' = taken + 1
         /\ writes[taken + 1] \in WriteReqs /\ writes[taken + 1].kind \in Kinds
         /\ UNCHANGED <<proc, tcp, data, reads, stats, pipe, length, burst, writes>>
         /\ wire' = [wire EXCEPT ![writes[taken + 1].kind] = wire[writes[taken + 1].kind] + 1]
         /\ wire' \in [Kinds -> Nat]
<1> DEFINE r == writes[taken + 1]
<1>1. /\ tcp = "open" /\ taken + 1 \in 1..Len(writes) /\ taken' = taken + 1
      /\ UNCHANGED <<proc, tcp, data, reads, stats, pipe, length, burst, writes>>
      /\ wire' = [wire EXCEPT ![r.kind] = wire[r.kind] + 1]
      /\ wire \in [Kinds -> Nat] /\ writes \in Seq(WriteReqs)
  BY DEF Pollout, Types, fileVars
<1>2. r \in WriteReqs
  BY <1>1, ElementOfSeq
<1>3. r.kind \in Kinds
  BY <1>2 DEF WriteReqs
<1> HIDE DEF r
<1>4. wire' \in [Kinds -> Nat]
  BY <1>1, <1>3
<1> QED BY <1>1, <1>2, <1>3, <1>4 DEF r

LEMMA OnResEndShape ==
  ASSUME Types, OnResEnd, proc' = "running"
  PROVE  /\ tcp = "closing" /\ writes = << >> /\ tcp' = "freed" /\ pipe' \in [Ids -> Pipes]
         /\ \A p \in Ids : pipe'[p] = pipe[p] \/
              (p = data /\ pipe'[p] = [pipe[p] EXCEPT !.mem = "freed"])
         /\ UNCHANGED <<proc, data, reads, stats, length, burst, writes, taken, wire>>
<1>1. /\ tcp = "closing" /\ writes = << >> /\ tcp' = "freed" /\ pipe \in [Ids -> Pipes]
      /\ UNCHANGED <<proc, data, reads, stats, length, burst, writes, taken, wire>>
      /\ pipe' = [pipe EXCEPT ![data] = [pipe[data] EXCEPT !.mem = "freed"]]
  BY DEF OnResEnd, Stop, fileVars, FileAtEnd, Types
<1>2. \A p \in Ids : [pipe[p] EXCEPT !.mem = "freed"] \in Pipes
  BY <1>1, RecordUpdates
<1> QED BY <1>1, <1>2

\* A step keeps the shapes below if all that stops the process does.
LEMMA StepShape ==
  ASSUME [Next]_vars
  PROVE  \/ UNCHANGED <<tcp, data, reads, stats, pipe, length, burst, writes, taken, wire>>
         \/ OnReqRead \/ OnHeadersSent \/ OnWriteRes \/ Pollout
         \/ OnDropped
         \/ proc' = "running" /\ (OnFileStat \/ OnResEnd)
         \/ proc' = "running" /\ \E p \in Ids : PollFile(p)
         \/ \E p \in Ids : OnFileData(p) \/ OnFileError(p)
<1>1. ASSUME NEW p \in Ids, PollFile(p)
      PROVE  \/ UNCHANGED <<tcp, data, reads, stats, pipe, length, burst, writes, taken, wire>>
             \/ proc' = "running"
  BY <1>1 DEF PollFile, Stop, fileVars, LoopFree
<1>4. ASSUME NEW p \in Ids, OnFileEof(p)
      PROVE  UNCHANGED <<tcp, data, reads, stats, pipe, length, burst, writes, taken, wire>>
  BY <1>4 DEF OnFileEof, Stop, fileVars
<1>2. OnFileStat \/ OnResEnd =>
        \/ UNCHANGED <<tcp, data, reads, stats, pipe, length, burst, writes, taken, wire>>
        \/ proc' = "running"
  BY DEF OnFileStat, OnResEnd, Stop, fileVars, LoopFree
<1>3. OnWriteError \/ Over \/ UNCHANGED vars =>
        UNCHANGED <<tcp, data, reads, stats, pipe, length, burst, writes, taken, wire>>
  BY DEF OnWriteError, Over, Stop, fileVars, vars
<1> QED BY <1>1, <1>2, <1>3, <1>4 DEF Next, OnFileRead

-----------------------------------------------------------------------------
(* The types are kept.                                                      *)

\* A bound on the records of the requests, kept when one is added or called back.
LEMMA AllIds ==
  ASSUME NEW s \in Seq(WriteReqs), NEW i \in 1..Len(s)
  PROVE  s[i] \in WriteReqs /\ s[i].id \in Nat
<1>1. s[i] \in WriteReqs
  BY ElementOfSeq
<1>2. \A r \in WriteReqs : r.id \in Nat
  BY IdsAndKinds DEF WriteReqs
<1> QED BY <1>1, <1>2

LEMMA OneLess ==
  ASSUME NEW s \in Seq(WriteReqs), NEW t \in Seq(WriteReqs), Len(t) = Len(s) - 1,
         \A i \in 1..Len(t) : t[i] = s[i + 1],
         NEW d \in Nat, \A i \in 1..Len(s) : s[i].id <= d
  PROVE  \A i \in 1..Len(t) : t[i].id <= d
<1> TAKE i \in 1..Len(t)
<1>1. i + 1 \in 1..Len(s)
  OBVIOUS
<1> QED BY <1>1

LEMMA OneMore ==
  ASSUME NEW s \in Seq(WriteReqs), NEW t \in Seq(WriteReqs), Len(t) = Len(s) + 1,
         \A i \in 1..Len(s) : t[i] = s[i],
         NEW d \in Nat, NEW e \in Nat, d <= e,
         t[Len(s) + 1].id <= e, \A i \in 1..Len(s) : s[i].id <= d
  PROVE  \A i \in 1..Len(t) : t[i].id <= e
<1> TAKE i \in 1..Len(t)
<1>1. CASE i \in 1..Len(s)
  <2>1. s[i].id \in Nat /\ s[i].id <= d /\ t[i] = s[i]
    BY <1>1, AllIds
  <2> HIDE DEF WriteReqs
  <2> QED BY <2>1
<1>2. CASE i = Len(s) + 1
  BY <1>2
<1> QED BY <1>1, <1>2

LEMMA TypesStep ==
  ASSUME Types, Records, [Next]_vars
  PROVE  Types' /\ Records'
<1>0. tcp' \in {"open", "closing", "freed", "dropping", "dropped"}
  <2>1. ASSUME NEW p \in Ids, OnFileRead(p) \/ PollFile(p)
        PROVE  tcp' = tcp
    BY <2>1 DEF OnFileRead, OnFileData, OnFileEof, OnFileError, PollFile, Stop
  <2> QED
    BY <2>1 DEF Types, Next, vars, OnReqRead, OnFileStat, OnHeadersSent, OnWriteRes, OnWriteError,
       Pollout, OnResEnd, OnDropped, Over, Stop
<1>1. /\ reads \in Nat /\ stats \in Nat /\ length \in Nat /\ data = reads - stats
      /\ stats <= reads /\ reads <= MaxReads /\ data \in Nat
      /\ pipe \in [Ids -> Pipes] /\ burst \in [Ids -> Nat] /\ Len(writes) \in Nat
      /\ writes \in Seq(WriteReqs) /\ taken \in 0..Len(writes) /\ wire \in [Kinds -> Nat]
  BY DEF Types
<1>2. /\ \A p \in Ids : p > data => pipe[p] = NoPipe /\ burst[p] = 0
      /\ \A i \in 1..Len(writes) : writes[i].id <= data
  BY DEF Records
<1>3. \A i \in 1..Len(writes) : writes[i] \in WriteReqs /\ writes[i].id \in Nat
  BY <1>1, AllIds
<1>4. CASE UNCHANGED <<tcp, data, reads, stats, pipe, length, burst, writes, taken, wire>>
  BY <1>0, <1>1, <1>2, <1>4 DEF Types, Records
<1>5. CASE OnReqRead
  <2>1. UNCHANGED <<data, pipe, length, burst, writes, taken, wire>>
    BY <1>5 DEF OnReqRead, fileVars
  <2>2. \/ reads < MaxReads /\ reads' = reads + 1 /\ stats' = stats + 1
        \/ UNCHANGED <<reads, stats>>
    BY <1>5 DEF OnReqRead
  <2>3. /\ reads' \in Nat /\ stats' \in Nat /\ reads' - stats' = data /\ stats' <= reads'
        /\ reads' <= MaxReads
    <3>1. CASE reads < MaxReads /\ reads' = reads + 1 /\ stats' = stats + 1
      BY <1>1, <3>1, IdsAndKinds
    <3>2. CASE UNCHANGED <<reads, stats>>
      BY <1>1, <3>2
    <3> QED BY <2>2, <3>1, <3>2
  <2> QED BY <1>0, <1>1, <1>2, <2>1, <2>3 DEF Types, Records
<1>6. CASE OnHeadersSent
  <2>1. /\ UNCHANGED <<data, reads, stats, length, burst, wire>> /\ pipe' \in [Ids -> Pipes]
        /\ \A p \in Ids : pipe'[p] = pipe[p] \/ p = data
    BY <1>6, OnHeadersSentShape
  <2>2. /\ writes' \in Seq(WriteReqs) /\ Len(writes') = Len(writes) - 1
        /\ \A i \in 1..Len(writes') : writes'[i] = writes[i + 1]
        /\ taken' \in 0..Len(writes')
    BY <1>6, OnHeadersSentShape, CalledBackEffect
  <2>3. \A i \in 1..Len(writes') : writes'[i].id <= data
    BY <1>1, <1>2, <2>2, OneLess
  <2> QED BY <1>0, <1>1, <1>2, <2>1, <2>2, <2>3, IdsAndKinds DEF Types, Records
<1>7. CASE OnWriteRes
  <2>1. /\ UNCHANGED <<data, reads, stats, length, burst, wire>> /\ pipe' \in [Ids -> Pipes]
        /\ pipe' = [pipe EXCEPT ![writes[1].id] = Counted(pipe[writes[1].id])]
    BY <1>7, OnWriteResShape
  <2>2. /\ writes' \in Seq(WriteReqs) /\ Len(writes') = Len(writes) - 1
        /\ Len(writes) \in Nat \ {0}
        /\ \A i \in 1..Len(writes') : writes'[i] = writes[i + 1]
        /\ taken' \in 0..Len(writes')
    BY <1>7, OnWriteResShape, CalledBackEffect
  <2>3. writes[1].id <= data /\ \A i \in 1..Len(writes') : writes'[i].id <= data
    BY <1>1, <1>2, <2>2, OneLess
  <2>4. ASSUME NEW p \in Ids, p > data
        PROVE  pipe'[p] = NoPipe /\ burst'[p] = 0
    <3>1. p # writes[1].id
      <4>1. 1 \in 1..Len(writes)
        BY <2>2
      <4>2. writes[1].id <= data
        BY <1>2, <4>1, Zenon
      <4>3. ~(p <= data)
        BY <1>1, <2>4, IdsAndKinds
      <4> QED BY <4>2, <4>3, Zenon
    <3>2. pipe'[p] = pipe[p]
      BY <1>1, <2>1, <3>1
    <3>3. pipe[p] = NoPipe /\ burst[p] = 0
      BY <1>2, <2>4, Zenon
    <3> QED BY <2>1, <3>2, <3>3, Zenon
  <2> QED BY <1>0, <1>1, <2>1, <2>2, <2>3, <2>4 DEF Types, Records
<1>8. CASE Pollout
  <2>1. /\ taken + 1 \in 1..Len(writes) /\ taken' = taken + 1 /\ wire' \in [Kinds -> Nat]
        /\ UNCHANGED <<data, reads, stats, pipe, length, burst, writes>>
    BY <1>8, PolloutShape
  <2> QED BY <1>0, <1>1, <1>2, <2>1 DEF Types, Records
<1>9. CASE OnDropped
  BY <1>0, <1>1, <1>2, <1>9 DEF OnDropped, Types, Records, fileVars
<1>10. CASE OnFileStat /\ proc' = "running"
  <2>1. /\ data + 1 \in Ids /\ data' = data + 1 /\ stats' = stats - 1 /\ stats \in Nat \ {0}
        /\ Write("headers", data + 1) /\ UNCHANGED <<reads, length, burst>>
    BY <1>10, OnFileStatShape DEF fileVars
  <2>2. PICK opened \in BOOLEAN : pipe' = [pipe EXCEPT ![data + 1] = NewPipe(opened)]
    BY <1>10, OnFileStatShape
  <2>3. NewPipe(opened) \in Pipes
    BY NewPipeIsPipe
  <2>4. pipe' \in [Ids -> Pipes]
    BY <1>1, <2>1, <2>2, <2>3
  <2>5. /\ writes' \in Seq(WriteReqs) /\ taken' \in 0..Len(writes') /\ wire' \in [Kinds -> Nat]
    BY <2>1, WriteEffect, IdsAndKinds
  <2>6. \A i \in 1..Len(writes') : writes'[i].id <= data'
    <3>1. CASE tcp = "open"
      <4>1. /\ Len(writes') = Len(writes) + 1
            /\ writes'[Len(writes) + 1] = [kind |-> "headers", id |-> data + 1]
            /\ \A i \in 1..Len(writes) : writes'[i] = writes[i]
        BY <2>1, <3>1, WriteEffect, IdsAndKinds
      <4>2. writes'[Len(writes) + 1].id <= data + 1 /\ data + 1 \in Nat /\ data <= data + 1
        BY <1>1, <4>1
      <4> QED BY <1>1, <1>2, <2>1, <2>5, <4>1, <4>2, OneMore
    <3>2. CASE tcp # "open"
      <4>1. writes' = writes
        BY <2>1, <3>2, WriteEffect, IdsAndKinds
      <4> QED BY <1>1, <1>2, <1>3, <2>1, <4>1
    <3> QED BY <3>1, <3>2
  <2>7. \A p \in Ids : p > data' => pipe'[p] = NoPipe /\ burst'[p] = 0
    BY <1>1, <1>2, <2>1, <2>2, IdsAndKinds
  <2> QED BY <1>0, <1>1, <2>1, <2>4, <2>5, <2>6, <2>7 DEF Types, Records
<1>11. CASE OnResEnd /\ proc' = "running"
  <2>1. /\ pipe' \in [Ids -> Pipes]
        /\ \A p \in Ids : pipe'[p] = pipe[p] \/ p = data
        /\ UNCHANGED <<data, reads, stats, length, burst, writes, taken, wire>>
    BY <1>11, OnResEndShape
  <2> QED BY <1>0, <1>1, <1>2, <2>1, IdsAndKinds DEF Types, Records
<1>12. ASSUME NEW p \in Ids, PollFile(p), proc' = "running"
       PROVE  Types' /\ Records'
  <2>1. /\ p <= data /\ burst' = [burst EXCEPT ![p] = Batch]
        /\ UNCHANGED <<data, reads, stats, pipe, length, writes, taken, wire>>
    BY <1>12, PollFileShape
  <2>2. burst' \in [Ids -> Nat]
    BY <1>1, <2>1, IdsAndKinds
  <2>3. \A r \in Ids : r > data => burst'[r] = 0
    BY <1>1, <1>2, <2>1, IdsAndKinds
  <2> QED BY <1>0, <1>1, <1>2, <2>1, <2>2, <2>3 DEF Types, Records
<1>14. ASSUME NEW p \in Ids, OnFileError(p)
       PROVE  Types' /\ Records'
  <2>1. /\ p <= data /\ burst' = [burst EXCEPT ![p] = 0] /\ pipe' \in [Ids -> Pipes]
        /\ \A r \in Ids \ {p} : pipe'[r] = pipe[r]
        /\ UNCHANGED <<data, reads, stats, length, writes, taken, wire>>
    BY <1>14, OnFileErrorShape
  <2>2. burst' \in [Ids -> Nat]
    BY <1>1, <2>1
  <2>3. \A r \in Ids : r > data => pipe'[r] = NoPipe /\ burst'[r] = 0
    BY <1>1, <1>2, <2>1, IdsAndKinds
  <2> QED BY <1>0, <1>1, <1>2, <2>1, <2>2, <2>3 DEF Types, Records
<1>13. ASSUME NEW p \in Ids, OnFileData(p)
       PROVE  Types' /\ Records'
  <2>1. /\ p <= data /\ data \in Ids /\ pipe' \in [Ids -> Pipes] /\ Write("data", data)
        /\ pipe' = [pipe EXCEPT ![p] = BufferRead(pipe[p])]
        /\ burst' = [burst EXCEPT ![p] = ReadsLeft(p)] /\ ReadsLeft(p) \in Nat
        /\ UNCHANGED <<data, reads, stats, length>>
    BY <1>13, OnFileDataShape
  <2>2. burst' \in [Ids -> Nat]
    BY <1>1, <2>1
  <2>3. /\ writes' \in Seq(WriteReqs) /\ taken' \in 0..Len(writes') /\ wire' \in [Kinds -> Nat]
    BY <2>1, WriteEffect, IdsAndKinds
  <2>4. \A r \in Ids : r > data => pipe'[r] = NoPipe /\ burst'[r] = 0
    BY <1>1, <1>2, <2>1, IdsAndKinds
  <2>5. \A i \in 1..Len(writes') : writes'[i].id <= data
    <3>1. CASE tcp = "open"
      <4>1. /\ Len(writes') = Len(writes) + 1
            /\ writes'[Len(writes) + 1] = [kind |-> "data", id |-> data]
            /\ \A i \in 1..Len(writes) : writes'[i] = writes[i]
        BY <2>1, <3>1, WriteEffect, IdsAndKinds
      <4>2. writes'[Len(writes) + 1].id <= data /\ data <= data
        BY <1>1, <4>1
      <4> QED BY <1>1, <1>2, <2>3, <4>1, <4>2, OneMore
    <3>2. CASE tcp # "open"
      BY <1>2, <2>1, <3>2, WriteEffect, IdsAndKinds
    <3> QED BY <3>1, <3>2
  <2> QED BY <1>0, <1>1, <2>1, <2>2, <2>3, <2>4, <2>5 DEF Types, Records
<1> QED BY <1>4, <1>5, <1>6, <1>7, <1>8, <1>9, <1>10, <1>11, <1>12, <1>13, <1>14, StepShape

-----------------------------------------------------------------------------
(* One response to a request that arrived in one read.                      *)

LEMMA ResponseInit == Init => Response
<1> SUFFICES ASSUME Init PROVE Response
  OBVIOUS
<1>1. data = 0 /\ writes = << >> /\ wire["headers"] = 0 /\ wire["data"] = 0
      /\ tcp \in {"open", "dropping"}
  BY IdsAndKinds DEF Init
<1> QED BY <1>1 DEF Response, NoResponse

LEMMA Difference == \A r, s \in Nat : \A d : d = r - s /\ s <= r /\ r <= 1 => d \in 0..1
OBVIOUS

LEMMA LastOne == \A w, k, n \in Nat : w + 1 = n /\ w + k = n => k = 1
OBVIOUS

LEMMA OneOver ==
  \A w, k, n \in Nat : (w + k = n => (w + 1) + (k - 1) = n) /\ w + k = (w + 1) + (k - 1)
OBVIOUS

LEMMA ReadsGrow ==
  ASSUME Types, Records, [Next]_vars, InOneRead'
  PROVE  InOneRead /\ data \in 0..1 /\ data' \in 0..1
<1>1. Types'
  BY TypesStep
<1>2. reads' = reads \/ reads' = reads + 1
  <2>1. CASE OnReqRead
    BY <2>1 DEF OnReqRead
  <2>2. CASE OnHeadersSent
    BY <2>2, OnHeadersSentShape
  <2>3. CASE OnWriteRes
    BY <2>3, OnWriteResShape
  <2>4. CASE Pollout
    BY <2>4, PolloutShape
  <2>5. CASE OnDropped
    BY <2>5 DEF OnDropped
  <2>6. CASE proc' = "running" /\ OnFileStat
    BY <2>6, OnFileStatShape
  <2>7. CASE proc' = "running" /\ OnResEnd
    BY <2>7, OnResEndShape
  <2>8. ASSUME NEW p \in Ids, proc' = "running", PollFile(p)
        PROVE  reads' = reads
    BY <2>8, PollFileShape
  <2>9. ASSUME NEW p \in Ids, OnFileData(p) \/ OnFileError(p)
        PROVE  reads' = reads
    BY <2>9, OnFileDataShape, OnFileErrorShape
  <2> QED BY <2>1, <2>2, <2>3, <2>4, <2>5, <2>6, <2>7, <2>8, <2>9, StepShape
<1>3. reads \in Nat /\ reads' \in Nat /\ data \in Int /\ data' \in Int
  BY <1>1 DEF Types
<1>4. /\ data = reads - stats /\ stats \in Nat /\ stats <= reads
      /\ data' = reads' - stats' /\ stats' \in Nat /\ stats' <= reads'
  BY <1>1 DEF Types
<1>5. reads <= reads' /\ reads' <= 1
  BY <1>2, <1>3 DEF InOneRead
<1>6. reads <= 1
  BY <1>3, <1>5
<1>7. data \in 0..1
  BY <1>3, <1>4, <1>6, Difference, Zenon
<1>8. data' \in 0..1
  BY <1>3, <1>4, <1>5, Difference, Zenon
<1> QED BY <1>6, <1>7, <1>8 DEF InOneRead

LEMMA ResponseStep ==
  ASSUME Types, Records, Response, [Next]_vars
  PROVE  Response'
<1> SUFFICES ASSUME InOneRead'
             PROVE  Response'
  BY DEF Response
<1>1. /\ reads \in Nat /\ stats \in Nat /\ length \in Nat
      /\ pipe \in [Ids -> Pipes] /\ burst \in [Ids -> Nat] /\ Len(writes) \in Nat
      /\ writes \in Seq(WriteReqs) /\ taken \in 0..Len(writes) /\ wire \in [Kinds -> Nat]
      /\ 1 \in Ids /\ Batch \in Nat \ {0} /\ "headers" \in Kinds /\ "data" \in Kinds
      /\ tcp \in {"open", "closing", "freed", "dropping", "dropped"}
  BY IdsAndKinds DEF Types
<1>2. InOneRead /\ data \in 0..1 /\ data' \in 0..1
  BY ReadsGrow
<1>3. /\ NoResponse \/ (data = 1 /\ (HeadersFirst \/ Unanswered \/ FileFollows))
      /\ data = 1 => pipe[1].size = length /\ pipe[1].nread + pipe[1].left = length
      /\ tcp \in {"closing", "freed"} =>
           /\ data = 1 /\ FileFollows /\ writes = << >> /\ burst[1] = 0
           /\ pipe[1].nwritten = length /\ pipe[1].left = 0
  BY <1>2 DEF Response
<1>4. pipe[1] \in Pipes /\ pipe[1].nread \in Nat /\ pipe[1].nwritten \in Nat
      /\ pipe[1].left \in Nat /\ pipe[1].size \in Nat
  BY <1>1 DEF Pipes
<1>5. CASE UNCHANGED <<tcp, data, reads, stats, pipe, length, burst, writes, taken, wire>>
  BY <1>3, <1>5 DEF Response, NoResponse, HeadersFirst, Unanswered, FileFollows
<1>6. CASE OnReqRead
  <2>1. /\ tcp = "open" /\ tcp' \in {"open", "dropping"}
        /\ UNCHANGED <<data, pipe, length, burst, writes, taken, wire>>
    BY <1>6 DEF OnReqRead, fileVars
  <2> QED BY <1>3, <2>1 DEF Response, NoResponse, HeadersFirst, Unanswered, FileFollows
<1>7. CASE OnDropped
  <2>1. /\ tcp = "dropping" /\ tcp' = "dropped"
        /\ UNCHANGED <<data, pipe, length, burst, writes, taken, wire>>
    BY <1>7 DEF OnDropped, fileVars
  <2> QED BY <1>3, <2>1 DEF Response, NoResponse, HeadersFirst, Unanswered, FileFollows
<1>8. CASE OnHeadersSent
  <2>1. /\ writes[1].kind = "headers" /\ UNCHANGED <<tcp, data, length, burst, wire>>
        /\ pipe'[1] = pipe[1] \/ pipe'[1] = [pipe[1] EXCEPT !.reading = TRUE]
    BY <1>1, <1>8, OnHeadersSentShape
  <2>2. /\ writes # << >> /\ Len(writes) \in Nat \ {0} /\ writes' \in Seq(WriteReqs)
        /\ Len(writes') = Len(writes) - 1 /\ taken \in 1..Len(writes) /\ taken' = taken - 1
    BY <1>8, OnHeadersSentShape, CalledBackEffect
  <2>3. /\ pipe'[1].nread = pipe[1].nread /\ pipe'[1].nwritten = pipe[1].nwritten
        /\ pipe'[1].size = pipe[1].size /\ pipe'[1].left = pipe[1].left
    <3> DEFINE r == pipe[1]
    <3>1. r \in Pipes /\ (pipe'[1] = r \/ pipe'[1] = [r EXCEPT !.reading = TRUE])
      BY <1>4, <2>1, Zenon
    <3> HIDE DEF r
    <3>2. pipe'[1].nread = r.nread /\ pipe'[1].nwritten = r.nwritten
      BY <3>1 DEF Pipes
    <3>3. pipe'[1].size = r.size /\ pipe'[1].left = r.left
      BY <3>1 DEF Pipes
    <3> QED BY <3>2, <3>3, Zenon DEF r
  <2>4. data = 1 /\ HeadersFirst
    BY <1>1, <1>3, <2>1, <2>2 DEF NoResponse, Unanswered, FileFollows
  <2>5. Len(writes') = 0 /\ taken' = 0 /\ taken = 1
    BY <2>2, <2>4 DEF HeadersFirst
  <2>6. FileFollows'
    BY <1>1, <1>4, <2>1, <2>3, <2>4, <2>5 DEF HeadersFirst, FileFollows
  <2>7. tcp' \notin {"closing", "freed"}
    BY <1>3, <2>1, <2>2
  <2> QED BY <1>3, <2>1, <2>3, <2>4, <2>6, <2>7 DEF Response
<1>9. CASE OnWriteRes
  <2>1. /\ writes[1].kind = "data" /\ writes[1].id \in Ids
        /\ UNCHANGED <<data, reads, stats, length, burst, wire>>
        /\ pipe' = [pipe EXCEPT ![writes[1].id] = Counted(pipe[writes[1].id])]
        /\ \/ tcp' = tcp
           \/ /\ tcp = "open" /\ tcp' = "closing"
              /\ pipe'[writes[1].id].nwritten = pipe'[writes[1].id].nread
              /\ pipe'[writes[1].id].size = pipe'[writes[1].id].nread
    BY <1>9, OnWriteResShape
  <2>2. /\ writes # << >> /\ Len(writes) \in Nat \ {0} /\ writes' \in Seq(WriteReqs)
        /\ Len(writes') = Len(writes) - 1 /\ taken \in 1..Len(writes) /\ taken' = taken - 1
        /\ \A i \in 1..Len(writes') : writes'[i] = writes[i + 1]
    BY <1>9, OnWriteResShape, CalledBackEffect
  <2>3. burst[1] = 0
    BY <1>1, <1>9 DEF OnWriteRes, CalledBack, LoopFree
  <2>4. data = 1 /\ FileFollows
    BY <1>1, <1>3, <2>1, <2>2 DEF NoResponse, Unanswered, HeadersFirst
  <2>5. writes[1].id = 1
    BY <2>2, <2>4 DEF FileFollows
  <2>6. pipe'[1] = Counted(pipe[1])
    BY <1>1, <2>1, <2>5
  <2>7. /\ pipe'[1].nread = pipe[1].nread /\ pipe'[1].nwritten = pipe[1].nwritten + 1
        /\ pipe'[1].size = pipe[1].size /\ pipe'[1].left = pipe[1].left
    <3> DEFINE r == pipe[1]
    <3>1. r \in Pipes /\ pipe'[1] = Counted(r)
      BY <1>4, <2>6, Zenon
    <3> HIDE DEF r
    <3>2. /\ Counted(r).nwritten = r.nwritten + 1 /\ Counted(r).nread = r.nread
          /\ Counted(r).size = r.size /\ Counted(r).left = r.left
      BY <3>1, RecordUpdates, Zenon
    <3> QED BY <3>1, <3>2, Zenon DEF r
  <2>8. /\ wire["headers"] = 1 /\ wire["data"] = pipe[1].nwritten + taken
        /\ tcp \in {"dropping", "dropped"} \/ pipe[1].nwritten + Len(writes) = pipe[1].nread
    BY <2>4 DEF FileFollows
  <2>9. \A i \in 1..Len(writes') : writes'[i] = [kind |-> "data", id |-> 1]
    <3> TAKE i \in 1..Len(writes')
    <3>1. i + 1 \in 1..Len(writes) /\ writes'[i] = writes[i + 1]
      BY <2>2
    <3> QED BY <2>4, <3>1 DEF FileFollows
  <2>10. tcp \notin {"closing", "freed"}
    BY <1>3, <2>2, Zenon
  <2>11. /\ tcp' \in {"dropping", "dropped"} \/ pipe'[1].nwritten + Len(writes') = pipe'[1].nread
         /\ wire'["data"] = pipe'[1].nwritten + taken'
    <3>1. /\ pipe[1].nwritten + Len(writes) = pipe[1].nread =>
               (pipe[1].nwritten + 1) + (Len(writes) - 1) = pipe[1].nread
          /\ pipe[1].nwritten + taken = (pipe[1].nwritten + 1) + (taken - 1)
      <4>1. pipe[1].nwritten \in Nat /\ Len(writes) \in Nat /\ pipe[1].nread \in Nat /\ taken \in Nat
        BY <1>1, <1>4
      <4> QED BY <4>1, OneOver, Zenon
    <3>2. wire' = wire /\ tcp \in {"dropping", "dropped"} => tcp' \in {"dropping", "dropped"}
      BY <2>1
    <3>3. /\ Len(writes') = Len(writes) - 1 /\ taken' = taken - 1 /\ wire' = wire
          /\ pipe'[1].nwritten = pipe[1].nwritten + 1 /\ pipe'[1].nread = pipe[1].nread
      BY <2>1, <2>2, <2>7, Zenon
    <3> QED BY <2>8, <3>1, <3>2, <3>3, Zenon
  <2>12. FileFollows'
    BY <2>1, <2>8, <2>9, <2>11 DEF FileFollows
  <2>13. ASSUME tcp' \in {"closing", "freed"}
         PROVE  writes' = << >> /\ pipe'[1].nwritten = length /\ pipe'[1].left = 0
    <3>1. tcp = "open" /\ pipe'[1].nwritten = pipe'[1].nread /\ pipe'[1].size = pipe'[1].nread
      BY <2>1, <2>5, <2>10, <2>13
    <3>2. pipe[1].size = length /\ pipe[1].nread + pipe[1].left = length
      BY <1>3, <2>4
    <3>3. pipe[1].nwritten + 1 = pipe[1].nread /\ pipe[1].size = pipe[1].nread
      BY <2>7, <3>1
    <3>4. pipe[1].nwritten + Len(writes) = pipe[1].nread
      BY <2>8, <3>1
    <3>5. Len(writes) = 1
      <4>1. pipe[1].nwritten \in Nat /\ Len(writes) \in Nat /\ pipe[1].nread \in Nat
        BY <1>1, <1>4
      <4>2. pipe[1].nwritten + 1 = pipe[1].nread
        BY <3>3
      <4> QED BY <3>4, <4>1, <4>2, LastOne, Zenon
    <3>6. pipe[1].left = 0
      BY <1>4, <3>2, <3>3
    <3> QED BY <2>2, <2>7, <3>1, <3>2, <3>3, <3>5, <3>6
  <2> QED BY <1>3, <2>1, <2>3, <2>4, <2>7, <2>12, <2>13 DEF Response
<1>10. CASE Pollout
  <2>1. /\ tcp = "open" /\ taken + 1 \in 1..Len(writes) /\ taken' = taken + 1
        /\ UNCHANGED <<proc, tcp, data, reads, stats, pipe, length, burst, writes>>
        /\ wire' = [wire EXCEPT ![writes[taken + 1].kind] = wire[writes[taken + 1].kind] + 1]
    BY <1>10, PolloutShape
  <2>2. data = 1 /\ (HeadersFirst \/ FileFollows)
    BY <1>1, <1>3, <2>1 DEF NoResponse, Unanswered
  <2>3. HeadersFirst => HeadersFirst'
    <3>1. HeadersFirst => taken + 1 = 1 /\ writes[taken + 1].kind = "headers"
      BY <1>1, <2>1 DEF HeadersFirst
    <3> QED BY <1>1, <2>1, <3>1 DEF HeadersFirst
  <2>4. FileFollows => FileFollows'
    <3>1. FileFollows => writes[taken + 1].kind = "data"
      BY <1>1, <2>1 DEF FileFollows
    <3>2. FileFollows => wire'["headers"] = 1 /\ wire'["data"] = pipe[1].nwritten + (taken + 1)
      <4>1. FileFollows => wire["headers"] = 1 /\ wire["data"] = pipe[1].nwritten + taken
        BY DEF FileFollows
      <4>2. FileFollows => wire' = [wire EXCEPT !["data"] = wire["data"] + 1]
        BY <2>1, <3>1
      <4>3. FileFollows => wire'["headers"] = wire["headers"] /\ wire'["data"] = wire["data"] + 1
        BY <1>1, <4>2, IdsAndKinds
      <4>4. pipe[1].nwritten \in Nat /\ taken \in Nat
        BY <1>1, <1>4
      <4>5. (pipe[1].nwritten + taken) + 1 = pipe[1].nwritten + (taken + 1)
        BY <4>4
      <4> QED BY <4>1, <4>3, <4>5, Zenon
    <3> QED BY <1>1, <2>1, <3>2 DEF FileFollows
  <2> QED BY <1>3, <2>1, <2>2, <2>3, <2>4 DEF Response
<1>11. CASE OnFileStat /\ proc' = "running"
  <2>1. /\ data' = data + 1 /\ Write("headers", data + 1) /\ UNCHANGED <<tcp, reads, length, burst>>
    BY <1>11, OnFileStatShape DEF fileVars
  <2>2. PICK opened \in BOOLEAN : pipe' = [pipe EXCEPT ![data + 1] = NewPipe(opened)]
    BY <1>11, OnFileStatShape
  <2>3. data = 0 /\ data' = 1 /\ NoResponse /\ burst[1] = 0
    BY <1>1, <1>2, <1>3, <2>1 DEF Records
  <2>4. pipe'[1] = NewPipe(opened)
    BY <1>1, <2>2, <2>3
  <2>5. /\ pipe'[1].size = length /\ pipe'[1].left = length /\ pipe'[1].nread = 0
        /\ pipe'[1].nwritten = 0 /\ ~pipe'[1].reading
    BY <2>4, NewPipeIsPipe
  <2>6. tcp \in {"open", "dropping", "dropped"} /\ Len(writes) = 0 /\ taken = 0
    BY <1>1, <1>3, <2>3 DEF NoResponse
  <2>7. CASE tcp = "open"
    <3>1. /\ Len(writes') = Len(writes) + 1
          /\ writes'[Len(writes) + 1] = [kind |-> "headers", id |-> data + 1]
          /\ \/ taken' = taken /\ wire' = wire
             \/ /\ taken' = taken + 1
                /\ wire' = [wire EXCEPT !["headers"] = wire["headers"] + 1]
      BY <1>1, <2>1, <2>3, <2>7, WriteEffect
    <3>2. Len(writes') = 1 /\ writes'[1] = [kind |-> "headers", id |-> 1]
      BY <2>3, <2>6, <3>1
    <3>3. wire'["headers"] = taken' /\ wire'["data"] = 0
      BY <1>1, <2>3, <2>6, <3>1 DEF NoResponse
    <3>4. HeadersFirst'
      BY <2>1, <2>3, <2>5, <3>2, <3>3 DEF HeadersFirst
    <3> QED BY <1>1, <2>1, <2>3, <2>5, <2>7, <3>4 DEF Response
  <2>8. CASE tcp # "open"
    <3>1. writes' = << >>
      BY <1>1, <2>1, <2>3, <2>8, WriteEffect DEF NoResponse
    <3>2. Unanswered'
      BY <2>1, <2>3, <2>5, <2>6, <2>8, <3>1 DEF Unanswered
    <3> QED BY <1>1, <2>1, <2>3, <2>5, <2>6, <3>2 DEF Response
  <2> QED BY <2>7, <2>8
<1>12. CASE OnResEnd /\ proc' = "running"
  <2>1. /\ tcp = "closing" /\ writes = << >> /\ tcp' = "freed"
        /\ pipe'[1] = pipe[1] \/ pipe'[1] = [pipe[1] EXCEPT !.mem = "freed"]
        /\ UNCHANGED <<proc, data, reads, stats, length, burst, writes, taken, wire>>
    BY <1>1, <1>12, OnResEndShape
  <2>2. /\ pipe'[1].nread = pipe[1].nread /\ pipe'[1].nwritten = pipe[1].nwritten
        /\ pipe'[1].size = pipe[1].size /\ pipe'[1].left = pipe[1].left
    BY <1>4, <2>1 DEF Pipes
  <2>3. data = 1 /\ FileFollows /\ burst[1] = 0 /\ pipe[1].nwritten = length /\ pipe[1].left = 0
        /\ pipe[1].size = length /\ pipe[1].nread + pipe[1].left = length
    BY <1>3, <2>1
  <2>4. FileFollows'
    BY <2>1, <2>2, <2>3 DEF FileFollows
  <2> QED BY <2>1, <2>2, <2>3, <2>4 DEF Response
<1>13. ASSUME NEW p \in Ids, PollFile(p), proc' = "running"
       PROVE  Response'
  <2>1. /\ pipe[p].reading /\ pipe[p].left > 0 /\ p <= data
        /\ burst' = [burst EXCEPT ![p] = Batch]
        /\ UNCHANGED <<tcp, data, reads, stats, pipe, length, writes, taken, wire>>
    BY <1>13, PollFileShape
  <2>2. p = 1 /\ data = 1
    BY <1>2, <2>1, IdsAndKinds
  <2>3. FileFollows /\ tcp \notin {"closing", "freed"}
    BY <1>3, <1>4, <2>1, <2>2 DEF NoResponse, HeadersFirst, Unanswered
  <2>4. FileFollows'
    BY <2>1, <2>3 DEF FileFollows
  <2> QED BY <1>3, <2>1, <2>2, <2>3, <2>4 DEF Response
<1>15. ASSUME NEW p \in Ids, OnFileError(p)
       PROVE  Response'
  <2>1. /\ p <= data /\ burst[p] > 0
        /\ UNCHANGED <<tcp, data, reads, stats, length, writes, taken, wire>>
        /\ \A q \in Ids :
             /\ pipe'[q].nread = pipe[q].nread /\ pipe'[q].nwritten = pipe[q].nwritten
             /\ pipe'[q].left = pipe[q].left /\ pipe'[q].size = pipe[q].size
    BY <1>15, OnFileErrorShape
  <2>2. p = 1 /\ data = 1
    BY <1>2, <2>1, IdsAndKinds
  <2>3. FileFollows /\ tcp \notin {"closing", "freed"}
    BY <1>3, <2>1, <2>2 DEF NoResponse, HeadersFirst, Unanswered
  <2>4. FileFollows'
    BY <1>1, <2>1, <2>3 DEF FileFollows
  <2>5. pipe'[1].size = length' /\ pipe'[1].nread + pipe'[1].left = length'
    BY <1>1, <1>3, <2>1, <2>2
  <2> QED BY <2>1, <2>2, <2>3, <2>4, <2>5 DEF Response
<1>14. ASSUME NEW p \in Ids, OnFileData(p)
       PROVE  Response'
  <2>1. /\ pipe[p].left > 0 /\ p <= data /\ data \in Ids /\ burst[p] \in Nat \ {0}
        /\ pipe' = [pipe EXCEPT ![p] = BufferRead(pipe[p])]
        /\ Write("data", data) /\ UNCHANGED <<proc, tcp, data, reads, stats, length>>
    BY <1>14, OnFileDataShape
  <2>2. p = 1 /\ data = 1
    BY <1>2, <2>1, IdsAndKinds
  <2>3. FileFollows /\ tcp \notin {"closing", "freed"}
    BY <1>3, <2>1, <2>2 DEF NoResponse, HeadersFirst, Unanswered
  <2>4. pipe'[1] = BufferRead(pipe[1])
    BY <1>1, <2>1, <2>2
  <2>5. /\ pipe'[1].nread = pipe[1].nread + 1 /\ pipe'[1].left = pipe[1].left - 1
        /\ pipe'[1].nwritten = pipe[1].nwritten /\ pipe'[1].size = pipe[1].size
    <3> DEFINE r == pipe[1]
    <3>1. r \in Pipes /\ pipe'[1] = BufferRead(r) /\ r.left > 0
      BY <1>4, <2>1, <2>2, <2>4, Zenon
    <3> HIDE DEF r
    <3>2. /\ BufferRead(r).nread = r.nread + 1 /\ BufferRead(r).left = r.left - 1
          /\ BufferRead(r).nwritten = r.nwritten /\ BufferRead(r).size = r.size
      BY <3>1, RecordUpdates, Zenon
    <3> QED BY <3>1, <3>2, Zenon DEF r
  <2>6. /\ wire["headers"] = 1 /\ wire["data"] = pipe[1].nwritten + taken
        /\ tcp \in {"dropping", "dropped"} \/ pipe[1].nwritten + Len(writes) = pipe[1].nread
        /\ \A i \in 1..Len(writes) : writes[i] = [kind |-> "data", id |-> 1]
    BY <2>3 DEF FileFollows
  <2>7. ASSUME tcp = "open"
        PROVE  FileFollows'
    <3>1. /\ Len(writes') = Len(writes) + 1
          /\ writes'[Len(writes) + 1] = [kind |-> "data", id |-> 1]
          /\ \A i \in 1..Len(writes) : writes'[i] = writes[i]
          /\ \/ taken' = taken /\ wire' = wire
             \/ /\ taken' = taken + 1
                /\ wire' = [wire EXCEPT !["data"] = wire["data"] + 1]
      BY <1>1, <2>1, <2>2, <2>7, WriteEffect
    <3>2. wire'["headers"] = 1 /\ wire'["data"] = pipe'[1].nwritten + taken'
      <4>1. CASE taken' = taken /\ wire' = wire
        BY <1>1, <1>4, <2>5, <2>6, <4>1
      <4>2. CASE /\ taken' = taken + 1
                 /\ wire' = [wire EXCEPT !["data"] = wire["data"] + 1]
        <5>1. wire'["headers"] = 1 /\ wire'["data"] = wire["data"] + 1
          BY <1>1, <2>6, <4>2
        <5>2. wire'["data"] = pipe[1].nwritten + (taken + 1)
          <6>1. pipe[1].nwritten \in Nat /\ taken \in Nat /\ wire["data"] \in Nat
            BY <1>1, <1>4
          <6>2. (pipe[1].nwritten + taken) + 1 = pipe[1].nwritten + (taken + 1)
            BY <6>1
          <6> QED BY <2>6, <5>1, <6>2, Zenon
        <5> QED BY <2>5, <4>2, <5>1, <5>2, Zenon
      <4> QED BY <3>1, <4>1, <4>2
    <3>3. \A i \in 1..Len(writes') : writes'[i] = [kind |-> "data", id |-> 1]
      <4>1. \A i \in 1..Len(writes') : i \in 1..Len(writes) \/ i = Len(writes) + 1
        BY <1>1, <3>1
      <4> QED BY <2>6, <3>1, <4>1, Zenon
    <3>4. pipe'[1].nwritten + Len(writes') = pipe'[1].nread
      <4>1. pipe[1].nwritten + Len(writes) = pipe[1].nread
        BY <2>6, <2>7
      <4>2. pipe[1].nwritten \in Nat /\ Len(writes) \in Nat /\ pipe[1].nread \in Nat
        BY <1>1, <1>4
      <4>3. /\ Len(writes') = Len(writes) + 1 /\ pipe'[1].nwritten = pipe[1].nwritten
            /\ pipe'[1].nread = pipe[1].nread + 1
        BY <2>5, <3>1
      <4>4. pipe[1].nwritten + (Len(writes) + 1) = pipe[1].nread + 1
        <5> DEFINE w == pipe[1].nwritten  k == Len(writes)  n == pipe[1].nread
        <5>1. w \in Nat /\ k \in Nat /\ n \in Nat /\ w + k = n
          BY <4>1, <4>2, Zenon
        <5> HIDE DEF w, k, n
        <5>2. w + (k + 1) = n + 1
          BY <5>1
        <5> QED BY <5>2, Zenon DEF w, k, n
      <4> QED BY <4>3, <4>4, Zenon
    <3> QED BY <3>2, <3>3, <3>4 DEF FileFollows
  <2>8. ASSUME tcp # "open"
        PROVE  FileFollows'
    <3>1. UNCHANGED <<writes, taken, wire>>
      BY <1>1, <2>1, <2>2, <2>8, WriteEffect
    <3> QED BY <1>1, <2>1, <2>3, <2>5, <2>6, <2>8, <3>1 DEF FileFollows
  <2>9. FileFollows'
    BY <2>7, <2>8
  <2>10. pipe'[1].size = length' /\ pipe'[1].nread + pipe'[1].left = length'
    BY <1>3, <1>4, <2>1, <2>2, <2>5
  <2> QED BY <2>1, <2>2, <2>3, <2>9, <2>10 DEF Response
<1> QED BY <1>5, <1>6, <1>7, <1>8, <1>9, <1>10, <1>11, <1>12, <1>13, <1>14, <1>15,
          StepShape

-----------------------------------------------------------------------------
(* The buffers read and written, and the writes of file data, are counted.  *)

DataOf(s) == {i \in DOMAIN s : s[i].kind = "data"}

LEMMA InBuffers ==
  ASSUME NEW count, NEW b
  PROVE  b \in Buffers(count) <=> \E p \in Ids : \E n \in 1..count[p] : b = <<p, n>>
BY DEF Buffers

LEMMA SameBuffers ==
  ASSUME NEW c, NEW d, \A p \in Ids : c[p] = d[p]
  PROVE  Buffers(c) = Buffers(d)
<1>1. ASSUME NEW b
      PROVE  b \in Buffers(c) <=> b \in Buffers(d)
  <2>1. b \in Buffers(c) <=> \E p \in Ids : \E n \in 1..c[p] : b = <<p, n>>
    BY InBuffers
  <2>2. b \in Buffers(d) <=> \E p \in Ids : \E n \in 1..d[p] : b = <<p, n>>
    BY InBuffers
  <2> QED BY <2>1, <2>2
<1> QED BY <1>1

LEMMA OneMoreBuffer ==
  ASSUME NEW c, NEW d, NEW r \in Ids, c[r] \in Nat, d[r] = c[r] + 1,
         \A p \in Ids \ {r} : d[p] = c[p], IsFiniteSet(Buffers(c))
  PROVE  IsFiniteSet(Buffers(d)) /\ Cardinality(Buffers(d)) = Cardinality(Buffers(c)) + 1
<1> DEFINE b == <<r, c[r] + 1>>
<1>1. b \notin Buffers(c)
  <2> SUFFICES ASSUME NEW p \in Ids, NEW n \in 1..c[p], b = <<p, n>>
               PROVE  FALSE
    BY InBuffers
  <2> QED OBVIOUS
<1>2. ASSUME NEW x
      PROVE  x \in Buffers(d) <=> x \in Buffers(c) \/ x = b
  <2>1. ASSUME NEW p \in Ids \ {r}
        PROVE  (\E n \in 1..d[p] : x = <<p, n>>) <=> (\E n \in 1..c[p] : x = <<p, n>>)
    BY <2>1
  <2>2. (\E n \in 1..d[r] : x = <<r, n>>) <=> (\E n \in 1..c[r] : x = <<r, n>>) \/ x = b
    <3>1. \A n : n \in 1..d[r] <=> n \in 1..c[r] \/ n = c[r] + 1
      OBVIOUS
    <3> QED BY <3>1
  <2> HIDE DEF b
  <2> QED BY <2>1, <2>2, InBuffers
<1>3. Buffers(d) = Buffers(c) \cup {b}
  <2> HIDE DEF b
  <2> QED BY <1>2
<1> HIDE DEF b
<1> QED BY <1>1, <1>3, FS_AddElement

LEMMA DataFinite ==
  ASSUME NEW s \in Seq(WriteReqs)
  PROVE  IsFiniteSet(DataOf(s)) /\ Cardinality(DataOf(s)) \in Nat
<1>1. IsFiniteSet(1..Len(s)) /\ DataOf(s) \in SUBSET (1..Len(s))
  BY FS_Interval DEF DataOf
<1>2. IsFiniteSet(DataOf(s))
  BY <1>1, FS_Subset
<1> QED BY <1>2, FS_CardinalityType

\* A request behind the others counts if it writes file data.
LEMMA DataAdded ==
  ASSUME NEW s \in Seq(WriteReqs), NEW t \in Seq(WriteReqs), Len(t) = Len(s) + 1,
         \A i \in 1..Len(s) : t[i] = s[i]
  PROVE  Cardinality(DataOf(t)) =
           Cardinality(DataOf(s)) + (IF t[Len(s) + 1].kind = "data" THEN 1 ELSE 0)
<1>1. /\ DOMAIN t = DOMAIN s \cup {Len(s) + 1} /\ Len(s) + 1 \notin DOMAIN s
      /\ \A i \in DOMAIN s : t[i] = s[i]
  OBVIOUS
<1>2. CASE t[Len(s) + 1].kind = "data"
  <2> DEFINE l == Len(s) + 1
  <2>1. /\ DOMAIN t = DOMAIN s \cup {l} /\ l \notin DOMAIN s /\ t[l].kind = "data"
        /\ \A i \in DOMAIN s : t[i] = s[i]
    BY <1>1, <1>2
  <2> HIDE DEF l
  <2>2. DataOf(t) = DataOf(s) \cup {l} /\ l \notin DataOf(s)
    BY <2>1, Zenon DEF DataOf
  <2>3. DataOf(t) = DataOf(s) \cup {Len(s) + 1} /\ Len(s) + 1 \notin DataOf(s)
    BY <2>2, Zenon DEF l
  <2> QED BY <1>2, <2>3, DataFinite, FS_AddElement
<1>3. CASE t[Len(s) + 1].kind # "data"
  <2>1. DataOf(t) = DataOf(s)
    BY <1>1, <1>3 DEF DataOf
  <2> QED BY <1>3, <2>1, DataFinite
<1> QED BY <1>2, <1>3

\* And so does the oldest when it is called back.
LEMMA DataCalledBack ==
  ASSUME NEW s \in Seq(WriteReqs), NEW t \in Seq(WriteReqs), Len(s) \in Nat \ {0},
         Len(t) = Len(s) - 1, \A i \in 1..Len(t) : t[i] = s[i + 1]
  PROVE  Cardinality(DataOf(s)) =
           Cardinality(DataOf(t)) + (IF s[1].kind = "data" THEN 1 ELSE 0)
<1> DEFINE f == [i \in DataOf(t) |-> i + 1]
           rest == DataOf(s) \ {1}
<1>1. \A i : i \in DataOf(t) <=> i \in 1..Len(t) /\ s[i + 1].kind = "data"
  BY DEF DataOf
<1>2. \A i : i \in rest <=> i \in 2..Len(s) /\ s[i].kind = "data"
  BY DEF DataOf
<1>3. \A i \in DataOf(t) : i + 1 \in rest /\ i \in Nat
  BY <1>1, <1>2
<1>4. ASSUME NEW j \in rest
      PROVE  \E i \in DataOf(t) : f[i] = j
  <2>1. j - 1 \in 1..Len(t) /\ (j - 1) + 1 = j
    BY <1>2
  <2>2. j - 1 \in DataOf(t)
    BY <1>1, <1>2, <2>1
  <2> QED BY <2>1, <2>2
<1>5. f \in Bijection(DataOf(t), rest)
  <2>1. f \in [DataOf(t) -> rest]
    BY <1>3
  <2>2. \A i, j \in DataOf(t) : f[i] = f[j] => i = j
    BY <1>3
  <2> HIDE DEF f, rest
  <2>3. DOMAIN f = DataOf(t)
    BY <2>1
  <2> QED BY <1>4, <2>1, <2>2, <2>3 DEF Bijection, Injection, Surjection, IsInjective
<1>6. Cardinality(rest) = Cardinality(DataOf(t))
  <2> HIDE DEF f, rest
  <2>1. ExistsBijection(DataOf(t), rest)
    BY <1>5 DEF ExistsBijection
  <2> QED BY <2>1, DataFinite, FS_Bijection
<1>7. Cardinality(rest) = IF 1 \in DataOf(s) THEN Cardinality(DataOf(s)) - 1
                                            ELSE Cardinality(DataOf(s))
  BY DataFinite, FS_RemoveElement
<1>8. 1 \in DataOf(s) <=> s[1].kind = "data"
  BY DEF DataOf
<1> HIDE DEF rest
<1> QED BY <1>6, <1>7, <1>8, DataFinite

\* What has been read or written of each file.
Reads == [p \in Ids |-> pipe[p].nread]
Written == [p \in Ids |-> pipe[p].nwritten]

CountsAgree ==
  /\ BuffersRead = Buffers(Reads) /\ BuffersWritten = Buffers(Written)
  /\ \A p \in Ids : /\ Reads[p] = pipe[p].nread /\ Reads[p] \in Nat
                   /\ Written[p] = pipe[p].nwritten /\ Written[p] \in Nat

LEMMA Counts == Types => CountsAgree
BY DEF CountsAgree, BuffersRead, BuffersWritten, Reads, Written, Types, Pipes

LEMMA AccountsInit == Init => Accounts /\ WritesAccounted
<1> SUFFICES ASSUME Init PROVE Accounts /\ WritesAccounted
  OBVIOUS
<1>1. /\ Types /\ writes = << >>
      /\ \A p \in Ids : pipe[p].nread = 0 /\ pipe[p].nwritten = 0
  BY TypesInit DEF Init, NoPipe
<1>2. BuffersRead = {} /\ BuffersWritten = {}
  <2>1. \A p \in Ids : Reads[p] = 0 /\ Written[p] = 0
    BY <1>1 DEF Reads, Written
  <2>2. \A b : b \notin Buffers(Reads) /\ b \notin Buffers(Written)
    BY <2>1, InBuffers
  <2> QED BY <1>1, <2>2, Counts DEF CountsAgree
<1>3. DataWrites = {}
  BY <1>1 DEF DataWrites
<1> QED BY <1>2, <1>3, FS_EmptySet DEF Accounts, WritesAccounted

\* A connection that is open, in a process that runs, was so all along.
LEMMA StillOpen ==
  ASSUME Types, Records, [Next]_vars, proc' = "running", tcp' = "open"
  PROVE  proc = "running" /\ tcp = "open"
<1>1. ASSUME NEW p \in Ids, PollFile(p) \/ OnFileRead(p)
      PROVE  proc = "running" /\ tcp' = tcp
  BY <1>1 DEF PollFile, OnFileRead, OnFileData, OnFileEof, OnFileError, ReadLoop, Stop, LoopFree
<1>2. OnReqRead \/ OnHeadersSent \/ OnWriteRes =>
        proc = "running" /\ (tcp' = tcp \/ tcp = "open")
  BY DEF OnReqRead, OnHeadersSent, OnWriteRes, CalledBack, LoopFree
<1>3. Pollout \/ OnDropped \/ OnWriteError \/ OnFileStat \/ OnResEnd =>
        proc = "running" /\ (tcp' = tcp \/ tcp' \in {"dropped", "freed"})
  BY DEF Pollout, OnDropped, OnWriteError, OnFileStat, OnResEnd, Stop, LoopFree
<1>4. Over \/ UNCHANGED vars => proc' = proc /\ tcp' = tcp
  BY DEF Over, vars
<1> QED BY <1>1, <1>2, <1>3, <1>4 DEF Next

LEMMA SameCounts ==
  ASSUME Types, Types',
         \A p \in Ids : /\ pipe'[p].nread = pipe[p].nread
                       /\ pipe'[p].nwritten = pipe[p].nwritten
  PROVE  BuffersRead' = BuffersRead /\ BuffersWritten' = BuffersWritten
<1>0. Types' => CountsAgree'
  BY Counts, PTL
<1>1. /\ BuffersRead' = Buffers(Reads') /\ BuffersWritten' = Buffers(Written')
      /\ \A p \in Ids : Reads'[p] = pipe'[p].nread /\ Written'[p] = pipe'[p].nwritten
      /\ BuffersRead = Buffers(Reads) /\ BuffersWritten = Buffers(Written)
      /\ \A p \in Ids : /\ Reads[p] = pipe[p].nread /\ Reads[p] \in Nat
                       /\ Written[p] = pipe[p].nwritten /\ Written[p] \in Nat
  BY <1>0, Counts DEF CountsAgree
<1>2. \A p \in Ids : Reads'[p] = Reads[p] /\ Written'[p] = Written[p]
  BY <1>1
<1>3. Buffers(Reads') = Buffers(Reads) /\ Buffers(Written') = Buffers(Written)
  BY <1>2, SameBuffers
<1> QED BY <1>1, <1>3

LEMMA OneMoreRead ==
  ASSUME Types, Types', Accounts, NEW r \in Ids, pipe'[r].nread = pipe[r].nread + 1,
         \A p \in Ids \ {r} : pipe'[p].nread = pipe[p].nread,
         \A p \in Ids : pipe'[p].nwritten = pipe[p].nwritten
  PROVE  /\ IsFiniteSet(BuffersRead') /\ BuffersWritten' = BuffersWritten
         /\ Cardinality(BuffersRead') = Cardinality(BuffersRead) + 1
<1>0. Types' => CountsAgree'
  BY Counts, PTL
<1>1. /\ BuffersRead' = Buffers(Reads') /\ BuffersWritten' = Buffers(Written')
      /\ \A p \in Ids : Reads'[p] = pipe'[p].nread /\ Written'[p] = pipe'[p].nwritten
      /\ BuffersRead = Buffers(Reads) /\ BuffersWritten = Buffers(Written)
      /\ \A p \in Ids : /\ Reads[p] = pipe[p].nread /\ Reads[p] \in Nat
                       /\ Written[p] = pipe[p].nwritten /\ Written[p] \in Nat
  BY <1>0, Counts DEF CountsAgree
<1>2. \A p \in Ids : Written'[p] = Written[p]
  BY <1>1
<1>3. Buffers(Written') = Buffers(Written)
  BY <1>2, SameBuffers
<1>4. /\ Reads[r] \in Nat /\ Reads'[r] = Reads[r] + 1
      /\ \A p \in Ids \ {r} : Reads'[p] = Reads[p] /\ IsFiniteSet(Buffers(Reads))
  BY <1>1 DEF Accounts
<1>5. /\ IsFiniteSet(Buffers(Reads'))
      /\ Cardinality(Buffers(Reads')) = Cardinality(Buffers(Reads)) + 1
  BY <1>1, <1>4, OneMoreBuffer DEF Accounts
<1> QED BY <1>1, <1>3, <1>5

LEMMA OneMoreWritten ==
  ASSUME Types, Types', Accounts, NEW r \in Ids, pipe'[r].nwritten = pipe[r].nwritten + 1,
         \A p \in Ids \ {r} : pipe'[p].nwritten = pipe[p].nwritten,
         \A p \in Ids : pipe'[p].nread = pipe[p].nread
  PROVE  /\ IsFiniteSet(BuffersWritten') /\ BuffersRead' = BuffersRead
         /\ Cardinality(BuffersWritten') = Cardinality(BuffersWritten) + 1
<1>0. Types' => CountsAgree'
  BY Counts, PTL
<1>1. /\ BuffersRead' = Buffers(Reads') /\ BuffersWritten' = Buffers(Written')
      /\ \A p \in Ids : Reads'[p] = pipe'[p].nread /\ Written'[p] = pipe'[p].nwritten
      /\ BuffersRead = Buffers(Reads) /\ BuffersWritten = Buffers(Written)
      /\ \A p \in Ids : /\ Reads[p] = pipe[p].nread /\ Reads[p] \in Nat
                       /\ Written[p] = pipe[p].nwritten /\ Written[p] \in Nat
  BY <1>0, Counts DEF CountsAgree
<1>2. \A p \in Ids : Reads'[p] = Reads[p]
  BY <1>1
<1>3. Buffers(Reads') = Buffers(Reads)
  BY <1>2, SameBuffers
<1>4. /\ Written[r] \in Nat /\ Written'[r] = Written[r] + 1
      /\ \A p \in Ids \ {r} : Written'[p] = Written[p]
  BY <1>1
<1>5. /\ IsFiniteSet(Buffers(Written'))
      /\ Cardinality(Buffers(Written')) = Cardinality(Buffers(Written)) + 1
  BY <1>1, <1>4, OneMoreBuffer DEF Accounts
<1> QED BY <1>1, <1>3, <1>5

\* A step counts nothing; or the connection was closed before; or a buffer is read
\* and its write begins; or such a write is called back.
LEMMA AccountsStep ==
  ASSUME Types, Records, Accounts, WritesAccounted, [Next]_vars
  PROVE  Accounts' /\ WritesAccounted'
<1> DEFINE inFlight == Cardinality(DataWrites)
<1>1. Types' /\ Records'
  BY TypesStep
<1>2. /\ pipe \in [Ids -> Pipes] /\ writes \in Seq(WriteReqs) /\ Len(writes) \in Nat
      /\ writes' \in Seq(WriteReqs)
      /\ \A p \in Ids : pipe[p] \in Pipes
  BY <1>1 DEF Types
<1>3. /\ DataWrites = DataOf(writes) /\ DataWrites' = DataOf(writes')
      /\ inFlight \in Nat /\ inFlight' \in Nat
      /\ Cardinality(BuffersRead) \in Nat /\ Cardinality(BuffersWritten) \in Nat
  <2>1. DataWrites = DataOf(writes) /\ DataWrites' = DataOf(writes')
    BY DEF DataWrites, DataOf
  <2> QED BY <1>2, <2>1, DataFinite, FS_CardinalityType DEF Accounts
<1>4. ASSUME \A p \in Ids : /\ pipe'[p].nread = pipe[p].nread
                           /\ pipe'[p].nwritten = pipe[p].nwritten,
             tcp' = "open" => inFlight' = inFlight
      PROVE  Accounts' /\ WritesAccounted'
  <2>1. BuffersRead' = BuffersRead /\ BuffersWritten' = BuffersWritten
    BY <1>1, <1>4, SameCounts
  <2> HIDE DEF WritesAccounted
  <2>2. ASSUME proc' = "running", tcp' = "open"
        PROVE  Cardinality(BuffersRead') = Cardinality(BuffersWritten') + inFlight'
    BY <1>4, <2>1, <2>2, StillOpen DEF WritesAccounted
  <2> QED BY <2>1, <2>2 DEF Accounts, WritesAccounted
<1>5. CASE UNCHANGED <<tcp, data, reads, stats, pipe, length, burst, writes, taken, wire>>
  BY <1>3, <1>4, <1>5
<1>6. CASE OnReqRead \/ OnDropped \/ Pollout
  BY <1>3, <1>4, <1>6 DEF OnReqRead, OnDropped, Pollout
<1>7. CASE OnHeadersSent
  <2>1. /\ writes[1].kind = "headers"
        /\ \A p \in Ids :
             pipe'[p] = pipe[p] \/ (p = data /\ pipe'[p] = [pipe[p] EXCEPT !.reading = TRUE])
        /\ Len(writes) \in Nat \ {0} /\ Len(writes') = Len(writes) - 1
        /\ \A i \in 1..Len(writes') : writes'[i] = writes[i + 1]
    BY <1>7, OnHeadersSentShape, CalledBackEffect
  <2>2. inFlight' = inFlight
    <3>1. Cardinality(DataOf(writes)) = Cardinality(DataOf(writes')) + 0
      BY <1>2, <2>1, DataCalledBack
    <3> QED BY <1>3, <3>1
  <2>3. \A p \in Ids : /\ pipe'[p].nread = pipe[p].nread
                      /\ pipe'[p].nwritten = pipe[p].nwritten
    BY <1>2, <2>1 DEF Pipes
  <2> QED BY <1>4, <2>2, <2>3
<1>8. CASE OnWriteRes
  <2>1. /\ writes[1].kind = "data" /\ writes[1].id \in Ids
        /\ pipe' = [pipe EXCEPT ![writes[1].id] = Counted(pipe[writes[1].id])]
        /\ Len(writes) \in Nat \ {0} /\ Len(writes') = Len(writes) - 1
        /\ \A i \in 1..Len(writes') : writes'[i] = writes[i + 1]
    BY <1>8, OnWriteResShape, CalledBackEffect
  <2>2. inFlight = inFlight' + 1
    <3>1. Cardinality(DataOf(writes)) = Cardinality(DataOf(writes')) + 1
      BY <1>2, <2>1, DataCalledBack
    <3> QED BY <1>3, <3>1
  <2> DEFINE r == writes[1].id
  <2>3. /\ pipe'[r].nwritten = pipe[r].nwritten + 1 /\ pipe'[r].nread = pipe[r].nread
        /\ \A p \in Ids \ {r} : pipe'[p] = pipe[p]
    BY <1>2, <2>1, RecordUpdates
  <2>4. r \in Ids
    BY <2>1
  <2> HIDE DEF r
  <2>5. /\ IsFiniteSet(BuffersWritten') /\ BuffersRead' = BuffersRead
        /\ Cardinality(BuffersWritten') = Cardinality(BuffersWritten) + 1
    BY <1>1, <2>3, <2>4, OneMoreWritten
  <2>6. ASSUME proc' = "running", tcp' = "open"
        PROVE  Cardinality(BuffersRead') = Cardinality(BuffersWritten') + inFlight'
    <3>1. Cardinality(BuffersRead) = Cardinality(BuffersWritten) + inFlight
      BY <2>6, StillOpen DEF WritesAccounted
    <3> HIDE DEF inFlight
    <3> QED BY <1>3, <2>2, <2>5, <3>1
  <2> QED BY <2>5, <2>6 DEF Accounts, WritesAccounted
<1>9. CASE OnFileStat /\ proc' = "running"
  <2>1. /\ data + 1 \in Ids /\ data \in Nat /\ Write("headers", data + 1) /\ tcp' = tcp
    BY <1>9, OnFileStatShape
  <2>2. PICK opened \in BOOLEAN : pipe' = [pipe EXCEPT ![data + 1] = NewPipe(opened)]
    BY <1>9, OnFileStatShape
  <2>3. pipe[data + 1].nread = 0 /\ pipe[data + 1].nwritten = 0
    BY <2>1 DEF Records, NoPipe
  <2>4. \A p \in Ids : /\ pipe'[p].nread = pipe[p].nread
                      /\ pipe'[p].nwritten = pipe[p].nwritten
    BY <1>2, <2>1, <2>2, <2>3, NewPipeIsPipe
  <2>5. ASSUME tcp' = "open"
        PROVE  inFlight' = inFlight
    <3>1. /\ Len(writes') = Len(writes) + 1 /\ \A i \in 1..Len(writes) : writes'[i] = writes[i]
          /\ writes'[Len(writes) + 1] = [kind |-> "headers", id |-> data + 1]
      BY <2>1, <2>5, IdsAndKinds, WriteEffect
    <3>2. Cardinality(DataOf(writes')) = Cardinality(DataOf(writes)) + 0
      BY <1>2, <3>1, DataAdded
    <3> QED BY <1>3, <3>2
  <2> QED BY <1>4, <2>4, <2>5
<1>10. CASE OnResEnd /\ proc' = "running"
  <2>1. /\ tcp' = "freed"
        /\ \A p \in Ids : pipe'[p] = pipe[p] \/
             (p = data /\ pipe'[p] = [pipe[p] EXCEPT !.mem = "freed"])
    BY <1>10, OnResEndShape
  <2>2. \A p \in Ids : /\ pipe'[p].nread = pipe[p].nread
                      /\ pipe'[p].nwritten = pipe[p].nwritten
    BY <1>2, <2>1 DEF Pipes
  <2> QED BY <1>4, <2>1, <2>2
<1>11. ASSUME NEW p \in Ids, PollFile(p), proc' = "running"
       PROVE  Accounts' /\ WritesAccounted'
  <2>1. pipe' = pipe /\ writes' = writes
    BY <1>11, PollFileShape
  <2> QED BY <1>3, <1>4, <2>1
<1>13. ASSUME NEW p \in Ids, OnFileError(p)
       PROVE  Accounts' /\ WritesAccounted'
  <2>1. /\ writes' = writes
        /\ \A q \in Ids : /\ pipe'[q].nread = pipe[q].nread
                           /\ pipe'[q].nwritten = pipe[q].nwritten
    BY <1>13, OnFileErrorShape
  <2> QED BY <1>3, <1>4, <2>1
<1>12. ASSUME NEW r \in Ids, OnFileData(r)
       PROVE  Accounts' /\ WritesAccounted'
  <2>1. /\ pipe[r].left > 0 /\ data \in Ids /\ Write("data", data) /\ tcp' = tcp
        /\ pipe' = [pipe EXCEPT ![r] = BufferRead(pipe[r])]
    BY <1>12, OnFileDataShape
  <2>2. /\ pipe'[r].nread = pipe[r].nread + 1 /\ pipe'[r].nwritten = pipe[r].nwritten
        /\ \A p \in Ids \ {r} : pipe'[p] = pipe[p]
    BY <1>2, <2>1, RecordUpdates
  <2>3. /\ IsFiniteSet(BuffersRead') /\ BuffersWritten' = BuffersWritten
        /\ Cardinality(BuffersRead') = Cardinality(BuffersRead) + 1
    BY <1>1, <2>2, OneMoreRead
  <2>4. ASSUME proc' = "running", tcp' = "open"
        PROVE  Cardinality(BuffersRead') = Cardinality(BuffersWritten') + inFlight'
    <3>1. Cardinality(BuffersRead) = Cardinality(BuffersWritten) + inFlight
      BY <2>4, StillOpen DEF WritesAccounted
    <3>2. /\ Len(writes') = Len(writes) + 1 /\ \A i \in 1..Len(writes) : writes'[i] = writes[i]
          /\ writes'[Len(writes) + 1] = [kind |-> "data", id |-> data]
      BY <2>1, <2>4, IdsAndKinds, WriteEffect
    <3>3. Cardinality(DataOf(writes')) = Cardinality(DataOf(writes)) + 1
      BY <1>2, <3>2, DataAdded
    <3>4. inFlight' = inFlight + 1
      BY <1>3, <3>3
    <3> HIDE DEF inFlight
    <3> QED BY <1>3, <2>3, <3>1, <3>4
  <2> QED BY <2>3, <2>4 DEF Accounts, WritesAccounted
<1> QED BY <1>5, <1>6, <1>7, <1>8, <1>9, <1>10, <1>11, <1>12, <1>13, StepShape

-----------------------------------------------------------------------------
(* The theorems.                                                            *)

\* The server closes a connection whose request arrived in one read only when it
\* gave the client the headers, once, and the whole file: what on_write_res counts
\* is then what was read, and what was read is the file's size.
THEOREM WholeResponses == Spec => []ResponseIsWhole
<1>1. Init => Types /\ Records /\ Response
  BY TypesInit, ResponseInit
<1>2. Types /\ Records /\ Response /\ [Next]_vars => Types' /\ Records' /\ Response'
  BY TypesStep, ResponseStep
<1>3. Types /\ Response => ResponseIsWhole
  <2> SUFFICES ASSUME Types, Response, InOneRead, tcp \in {"closing", "freed"}
               PROVE  wire = [headers |-> 1, data |-> length]
    BY DEF ResponseIsWhole
  <2>1. /\ wire["headers"] = 1 /\ wire["data"] = length + taken /\ writes = << >>
        /\ length \in Nat /\ taken \in 0..Len(writes)
    BY DEF Response, FileFollows, Types
  <2>2. wire["data"] = length
    BY <2>1
  <2> QED BY <2>1, <2>2 DEF Types, Kinds
<1> QED BY <1>1, <1>2, <1>3, PTL DEF Spec


\* As long as a connection is open, every buffer read from a file is written off by a
\* callback or its write is still to be called back, however many records the reads of
\* the request made and whichever of them tcp->data refers to by then.
THEOREM NoWriteIsLost == Spec => []WritesAccounted
<1>1. Init => Types /\ Records /\ Accounts /\ WritesAccounted
  BY TypesInit, AccountsInit
<1>2. Types /\ Records /\ Accounts /\ WritesAccounted /\ [Next]_vars =>
        Types' /\ Records' /\ Accounts' /\ WritesAccounted'
  BY TypesStep, AccountsStep
<1> QED BY <1>1, <1>2, PTL DEF Spec

=============================================================================
