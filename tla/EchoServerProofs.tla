--------------------------- MODULE EchoServerProofs --------------------------
(***************************************************************************)
(* Proofs about EchoServer, for any number of clients, any sizes, and all  *)
(* faults.                                                                 *)
(***************************************************************************)
EXTENDS EchoServer, StreamTheorems

USE SizesNat

\* The types the count of requests depends on.
StreamTypes ==
  /\ outq \in [Conns -> Seq(Bytes)] /\ calls \in [Conns -> Seq(Codes)]
  /\ conn \in [Conns -> {"none", "open", "failed", "closed"}]
  /\ taken \in [Conns -> Nat] /\ bufs \in [Conns -> Int]

\* Nothing is allocated, and nothing queued, before a connection is accepted.
NoneYet ==
  \A c \in Conns : conn[c] = "none" => bufs[c] = 0 /\ outq[c] = << >> /\ calls[c] = << >>

IInv == StreamTypes /\ NoneYet /\ BuffersAccounted

-----------------------------------------------------------------------------
(* The streams.                                                             *)

\* What is written of a buffer is a sequence of bytes.
LEMMA ReadIsBytes ==
  ASSUME StreamTypes, NEW c \in Conns, NEW n \in 0..BufSize
  PROVE  Read(c, n) \in Bytes /\ Buffer(c, n) \in Bytes
<1>1. Read(c, n) \in Bytes
  BY DEF StreamTypes, Read, Bytes
<1>2. [k \in 1..(BufSize - n) |-> Junk] \in Bytes
  BY DEF Bytes, Junk
<1> QED BY <1>1, <1>2 DEF Buffer, Bytes

\* uv_write adds one request to the stream.
LEMMA WriteCounts ==
  ASSUME StreamTypes, NEW c \in Conns, NEW b \in Bytes, UvWrite({c}, b)
  PROVE  /\ outq' \in [Conns -> Seq(Bytes)] /\ UNCHANGED calls
         /\ Len(outq'[c]) = Len(outq[c]) + 1
         /\ \A d \in Conns \ {c} : outq'[d] = outq[d]
<1>1. outq' = [s \in Conns |-> IF s \in {c} THEN Append(outq[s], b) ELSE outq[s]]
  BY DEF UvWrite, StreamTypes
<1>2. \A s \in Conns : outq[s] \in Seq(Bytes) /\ Append(outq[s], b) \in Seq(Bytes)
  BY DEF StreamTypes
<1>3. UNCHANGED calls
  BY DEF UvWrite
<1> QED BY <1>1, <1>2, <1>3

\* uv_close turns requests into callbacks.
LEMMA CloseCounts ==
  ASSUME StreamTypes, NEW c \in Conns, UvClose({c})
  PROVE  /\ outq' \in [Conns -> Seq(Bytes)] /\ calls' \in [Conns -> Seq(Codes)]
         /\ \A d \in Conns \ {c} : outq'[d] = outq[d] /\ calls'[d] = calls[d]
<1>1. outq' = [s \in Conns |-> IF s \in {c} THEN << >> ELSE outq[s]]
  BY DEF UvClose, StreamTypes
<1>2. \A s \in Conns : outq[s] \in Seq(Bytes) /\ << >> \in Seq(Bytes)
  BY DEF StreamTypes
<1>3. calls' = [s \in Conns |->
                  IF s \in {c} THEN calls[s] \o [k \in DOMAIN outq[s] |-> "UV_ECANCELED"]
                               ELSE calls[s]]
  BY DEF UvClose, StreamTypes
<1>4. ASSUME NEW s \in Conns
      PROVE  calls[s] \in Seq(Codes) /\ calls[s] \o [k \in DOMAIN outq[s] |-> "UV_ECANCELED"] \in Seq(Codes)
  <2>1. DOMAIN outq[s] = 1..Len(outq[s]) /\ Len(outq[s]) \in Nat
    BY <1>2
  <2>2. [k \in 1..Len(outq[s]) |-> "UV_ECANCELED"] \in Seq(Codes)
    <3>1. "UV_ECANCELED" \in Codes
      BY DEF Codes
    <3> QED BY <2>1, <3>1
  <2> QED BY <2>1, <2>2 DEF StreamTypes
<1> QED BY <1>1, <1>2, <1>3, <1>4

\* The kernel takes a whole request, whose callback is then due, or part of one.
LEMMA PolloutCounts ==
  ASSUME StreamTypes, NEW c \in Conns, Taken(c) \/ Refused(c)
  PROVE  /\ outq' \in [Conns -> Seq(Bytes)] /\ calls' \in [Conns -> Seq(Codes)]
         /\ outq[c] # << >>
         /\ Len(outq'[c]) + Len(calls'[c]) = Len(outq[c]) + Len(calls[c])
         /\ \A d \in Conns \ {c} : outq'[d] = outq[d] /\ calls'[d] = calls[d]
<1>1. /\ outq[c] \in Seq(Bytes) /\ outq[c] # << >> /\ calls[c] \in Seq(Codes)
      /\ Head(outq[c]) = outq[c][1] /\ outq[c][1] \in Bytes /\ 1 \in 1..Len(outq[c])
  <2>1. outq[c] \in Seq(Bytes) /\ outq[c] # << >> /\ calls[c] \in Seq(Codes)
    BY DEF Taken, Refused, StreamTypes
  <2> QED BY <2>1, HeadTailProperties
<1>2. ASSUME NEW e \in Codes,
             outq' = [outq EXCEPT ![c] = Tail(@)], calls' = [calls EXCEPT ![c] = Append(@, e)]
      PROVE  /\ outq' \in [Conns -> Seq(Bytes)] /\ calls' \in [Conns -> Seq(Codes)]
             /\ Len(outq'[c]) + Len(calls'[c]) = Len(outq[c]) + Len(calls[c])
             /\ \A d \in Conns \ {c} : outq'[d] = outq[d] /\ calls'[d] = calls[d]
  <2>1. Tail(outq[c]) \in Seq(Bytes) /\ Len(Tail(outq[c])) = Len(outq[c]) - 1
    BY <1>1, HeadTailProperties
  <2>2. Append(calls[c], e) \in Seq(Codes) /\ Len(Append(calls[c], e)) = Len(calls[c]) + 1
    BY <1>1
  <2>3. outq'[c] = Tail(outq[c]) /\ calls'[c] = Append(calls[c], e)
    BY <1>2 DEF StreamTypes
  <2>4. Len(outq[c]) \in Nat /\ Len(calls[c]) \in Nat
    BY <1>1
  <2> QED BY <1>2, <2>1, <2>2, <2>3, <2>4 DEF StreamTypes
<1>3. ASSUME NEW n \in 1..(Len(Head(outq[c])) - 1),
             outq' = [outq EXCEPT ![c][1] = SubSeq(@, n + 1, Len(@))], UNCHANGED calls
      PROVE  /\ outq' \in [Conns -> Seq(Bytes)] /\ calls' \in [Conns -> Seq(Codes)]
             /\ Len(outq'[c]) + Len(calls'[c]) = Len(outq[c]) + Len(calls[c])
             /\ \A d \in Conns \ {c} : outq'[d] = outq[d] /\ calls'[d] = calls[d]
  <2> DEFINE x == SubSeq(outq[c][1], n + 1, Len(outq[c][1]))
  <2>1. x \in Bytes
    <3> DEFINE s == outq[c][1]
    <3>1. s \in Seq(Nat) /\ Len(s) \in Nat /\ n \in Nat
      BY <1>1, <1>3 DEF Bytes
    <3> HIDE DEF s
    <3>2. \A i \in (n + 1)..Len(s) : s[i] \in Nat
      BY <3>1
    <3>3. SubSeq(s, n + 1, Len(s)) \in Seq(Nat)
      BY <3>1, <3>2, SubSeqProperties
    <3> QED BY <3>3 DEF Bytes, s
  <2>2. outq' = [outq EXCEPT ![c] = [outq[c] EXCEPT ![1] = x]]
    BY <1>3
  <2> HIDE DEF x
  <2>3. [outq[c] EXCEPT ![1] = x] \in Seq(Bytes) /\ Len([outq[c] EXCEPT ![1] = x]) = Len(outq[c])
    BY <1>1, <2>1, ExceptSeq
  <2>4. outq'[c] = [outq[c] EXCEPT ![1] = x]
    BY <2>2 DEF StreamTypes
  <2> QED BY <1>3, <2>2, <2>3, <2>4 DEF StreamTypes
<1>4. "0" \in Codes /\ "UV_EPIPE" \in Codes
  BY DEF Codes
<1>5. \/ \E e \in Codes : /\ outq' = [outq EXCEPT ![c] = Tail(@)]
                          /\ calls' = [calls EXCEPT ![c] = Append(@, e)]
      \/ \E n \in 1..(Len(Head(outq[c])) - 1) :
           outq' = [outq EXCEPT ![c][1] = SubSeq(@, n + 1, Len(@))] /\ UNCHANGED calls
  BY <1>4 DEF Taken, Refused
<1> QED BY <1>1, <1>2, <1>3, <1>5

-----------------------------------------------------------------------------
(* The callbacks.                                                           *)

LEMMA InitIInv == Init => IInv
BY DEF Init, StreamsInit, IInv, StreamTypes, NoneYet, BuffersAccounted, Bytes

\* A read: one more buffer, and one more request, or the connection is given up.
LEMMA ReadCbAccounts ==
  ASSUME IInv, NEW c \in Conns, conn[c] = "open", taken' \in [Conns -> Nat],
         NEW n \in {UV_EOF, Error} \cup 0..BufSize, ReadCb(c, n)
  PROVE  IInv'
<1>1. StreamTypes /\ bufs[c] = Len(outq[c]) + Len(calls[c])
      /\ Len(outq[c]) \in Nat /\ Len(calls[c]) \in Nat
  BY DEF IInv, StreamTypes, BuffersAccounted
<1>2. ASSUME NEW b \in Bytes, Write(c, b), bufs' = [bufs EXCEPT ![c] = @ + 1] PROVE IInv'
  <2>1. /\ outq' \in [Conns -> Seq(Bytes)] /\ UNCHANGED <<calls, conn>>
        /\ Len(outq'[c]) = Len(outq[c]) + 1
        /\ \A d \in Conns \ {c} : outq'[d] = outq[d]
    BY <1>1, <1>2, WriteCounts DEF Write
  <2>2. bufs' \in [Conns -> Int] /\ bufs'[c] = bufs[c] + 1 /\ \A d \in Conns \ {c} : bufs'[d] = bufs[d]
    BY <1>1, <1>2 DEF StreamTypes
  <2>3. StreamTypes'
    BY <1>1, <2>1, <2>2 DEF StreamTypes
  <2>4. NoneYet'
    BY <2>1, <2>2 DEF IInv, NoneYet
  <2>5. BuffersAccounted'
    <3> SUFFICES ASSUME NEW d \in Conns, conn'[d] = "open"
                 PROVE  bufs'[d] = Len(outq'[d]) + Len(calls'[d])
      BY DEF BuffersAccounted
    <3>1. bufs'[c] = Len(outq'[c]) + Len(calls'[c])
      <4>1. Len(calls'[c]) = Len(calls[c])
        BY <2>1
      <4>2. bufs'[c] = (Len(outq[c]) + Len(calls[c])) + 1
        BY <1>1, <2>2
      <4>3. Len(outq'[c]) = Len(outq[c]) + 1 /\ Len(outq[c]) \in Nat /\ Len(calls[c]) \in Nat
        BY <1>1, <2>1
      <4>4. (Len(outq[c]) + Len(calls[c])) + 1 = (Len(outq[c]) + 1) + Len(calls[c])
        <5>1. \A x, y \in Nat : (x + y) + 1 = (x + 1) + y
          OBVIOUS
        <5> QED BY <4>3, <5>1, Zenon
      <4> QED BY <4>1, <4>2, <4>3, <4>4, Zenon
    <3>2. CASE d # c
      BY <2>1, <2>2, <3>2 DEF IInv, BuffersAccounted
    <3> QED BY <3>1, <3>2
  <2> QED BY <2>3, <2>4, <2>5 DEF IInv
<1>3. ASSUME Close(c), bufs' = [bufs EXCEPT ![c] = @ + 1] PROVE IInv'
  <2>1. /\ outq' \in [Conns -> Seq(Bytes)] /\ calls' \in [Conns -> Seq(Codes)]
        /\ \A d \in Conns \ {c} : outq'[d] = outq[d] /\ calls'[d] = calls[d]
    BY <1>1, <1>3, CloseCounts DEF Close
  <2>2. bufs' \in [Conns -> Int] /\ \A d \in Conns \ {c} : bufs'[d] = bufs[d]
    BY <1>1, <1>3 DEF StreamTypes
  <2>3. /\ conn' \in [Conns -> {"none", "open", "failed", "closed"}]
        /\ conn'[c] = "closed" /\ \A d \in Conns \ {c} : conn'[d] = conn[d]
    BY <1>1, <1>3 DEF Close, StreamTypes
  <2>4. StreamTypes'
    BY <1>1, <2>1, <2>2, <2>3 DEF StreamTypes
  <2>5. NoneYet' /\ BuffersAccounted'
    BY <2>1, <2>2, <2>3 DEF IInv, NoneYet, BuffersAccounted
  <2> QED BY <2>4, <2>5 DEF IInv
<1>4. ASSUME conn' = [conn EXCEPT ![c] = "failed"], bufs' = [bufs EXCEPT ![c] = @ + 1],
             UNCHANGED streamVars
      PROVE  IInv'
  <2>1. /\ conn' \in [Conns -> {"none", "open", "failed", "closed"}] /\ bufs' \in [Conns -> Int]
        /\ conn'[c] = "failed"
        /\ \A d \in Conns \ {c} : conn'[d] = conn[d] /\ bufs'[d] = bufs[d]
    BY <1>1, <1>4 DEF StreamTypes
  <2>2. StreamTypes'
    BY <1>1, <1>4, <2>1 DEF StreamTypes, streamVars
  <2>3. NoneYet' /\ BuffersAccounted'
    BY <1>4, <2>1 DEF IInv, NoneYet, BuffersAccounted, streamVars
  <2> QED BY <2>2, <2>3 DEF IInv
<1>5. ASSUME UNCHANGED <<conn, streamVars, bufs>> PROVE IInv'
  BY <1>1, <1>5 DEF IInv, StreamTypes, NoneYet, BuffersAccounted, streamVars
<1>6. CASE n \in 0..BufSize
  <2>1. n # UV_EOF /\ n # Error
    BY <1>6 DEF UV_EOF, Error
  <2>2. Read(c, n) \in Bytes /\ Buffer(c, n) \in Bytes
    BY <1>1, <1>6, ReadIsBytes
  <2>3. \/ UNCHANGED <<conn, streamVars, bufs>>
        \/ \E b \in Bytes : Write(c, b) /\ bufs' = [bufs EXCEPT ![c] = @ + 1]
    BY <2>1, <2>2 DEF ReadCb, TcpReadCb, PipeReadCb
  <2> QED BY <1>2, <1>5, <2>3
<1>7. CASE n \in {UV_EOF, Error}
  BY <1>3, <1>4, <1>7 DEF ReadCb, TcpReadCb, PipeReadCb, UV_EOF, Error
<1> QED BY <1>6, <1>7

\* A callback: a buffer and its request are gone, or the process.
LEMMA WriteCbAccounts ==
  ASSUME IInv, NEW c \in Conns, WriteCb(c)
  PROVE  IInv'
<1>1. /\ StreamTypes /\ calls[c] \in Seq(Codes) /\ calls[c] # << >>
      /\ UNCHANGED <<conn, taken>>
  BY DEF IInv, StreamTypes, WriteCb
<1>2. CASE CalledBack(c) /\ bufs' = [bufs EXCEPT ![c] = @ - 1]
  <2>1. Tail(calls[c]) \in Seq(Codes) /\ Len(Tail(calls[c])) = Len(calls[c]) - 1
        /\ Len(calls[c]) \in Nat
    BY <1>1, HeadTailProperties
  <2>2. /\ calls' \in [Conns -> Seq(Codes)] /\ Len(calls'[c]) = Len(calls[c]) - 1
        /\ \A d \in Conns \ {c} : calls'[d] = calls[d]
        /\ UNCHANGED outq
    BY <1>1, <1>2, <2>1 DEF CalledBack, StreamTypes
  <2>3. bufs' \in [Conns -> Int] /\ bufs'[c] = bufs[c] - 1 /\ \A d \in Conns \ {c} : bufs'[d] = bufs[d]
    BY <1>1, <1>2 DEF StreamTypes
  <2>4. StreamTypes'
    BY <1>1, <2>2, <2>3 DEF StreamTypes
  <2>5. NoneYet'
    BY <1>1, <2>2, <2>3 DEF IInv, NoneYet
  <2>6. Len(outq[c]) \in Nat
    BY <1>1 DEF StreamTypes
  <2>7. BuffersAccounted'
    <3> SUFFICES ASSUME NEW d \in Conns, conn'[d] = "open"
                 PROVE  bufs'[d] = Len(outq'[d]) + Len(calls'[d])
      BY DEF BuffersAccounted
    <3>1. CASE d = c
      <4>1. bufs[c] = Len(outq[c]) + Len(calls[c]) /\ outq'[c] = outq[c]
        BY <1>1, <2>2, <3>1 DEF IInv, BuffersAccounted
      <4>2. bufs'[c] = (Len(outq[c]) + Len(calls[c])) - 1
        BY <2>3, <4>1
      <4>3. Len(calls'[c]) = Len(calls[c]) - 1 /\ Len(calls[c]) \in Nat /\ Len(outq[c]) \in Nat
        BY <2>1, <2>2, <2>6
      <4>4. bufs'[c] = Len(outq'[c]) + Len(calls'[c])
        BY ONLY <4>1, <4>2, <4>3
      <4> QED BY <3>1, <4>4
    <3>2. CASE d # c
      BY <1>1, <2>2, <2>3, <3>2 DEF IInv, BuffersAccounted
    <3> QED BY <3>1, <3>2
  <2> QED BY <2>4, <2>5, <2>7 DEF IInv
<1>3. CASE UNCHANGED <<streamVars, bufs>>
  BY <1>1, <1>3 DEF IInv, StreamTypes, NoneYet, BuffersAccounted, streamVars
<1> QED BY <1>2, <1>3 DEF WriteCb

LEMMA PolloutAccounts ==
  ASSUME IInv, NEW c \in Conns, Pollout(c)
  PROVE  IInv'
<1>1. StreamTypes /\ UNCHANGED <<conn, taken, bufs>> /\ (Taken(c) \/ Refused(c))
  BY DEF IInv, Pollout
<1>2. /\ outq' \in [Conns -> Seq(Bytes)] /\ calls' \in [Conns -> Seq(Codes)]
      /\ outq[c] # << >>
      /\ Len(outq'[c]) + Len(calls'[c]) = Len(outq[c]) + Len(calls[c])
      /\ \A d \in Conns \ {c} : outq'[d] = outq[d] /\ calls'[d] = calls[d]
  BY <1>1, PolloutCounts
<1>3. StreamTypes'
  BY <1>1, <1>2 DEF StreamTypes
<1>4. NoneYet' /\ BuffersAccounted'
  BY <1>1, <1>2 DEF IInv, NoneYet, BuffersAccounted
<1> QED BY <1>3, <1>4 DEF IInv

\* A connection is accepted with nothing allocated for it.
LEMMA OnConnectionAccounts ==
  ASSUME IInv, NEW c \in Conns, OnConnection(c)
  PROVE  IInv'
<1>1. StreamTypes /\ UNCHANGED <<taken, streamVars, bufs>> /\ conn[c] = "none"
  BY DEF IInv, OnConnection
<1>2. UNCHANGED conn \/ \E s \in {"open", "closed"} : conn' = [conn EXCEPT ![c] = s]
  BY DEF OnConnection, TcpConnectionCb, PipeConnectCb, Accept
<1>3. /\ bufs[c] = 0 /\ outq[c] = << >> /\ calls[c] = << >>
      /\ Len(outq[c]) = 0 /\ Len(calls[c]) = 0
  BY <1>1 DEF IInv, NoneYet
<1>4. /\ conn' \in [Conns -> {"none", "open", "failed", "closed"}]
      /\ \A d \in Conns \ {c} : conn'[d] = conn[d]
  BY <1>1, <1>2 DEF StreamTypes
<1>5. UNCHANGED <<taken, outq, calls, bufs>>
  BY <1>1 DEF streamVars
<1>6. StreamTypes'
  BY <1>1, <1>4, <1>5 DEF StreamTypes
<1>7. NoneYet'
  BY <1>3, <1>4, <1>5 DEF IInv, NoneYet
<1>8. BuffersAccounted'
  <2> SUFFICES ASSUME NEW d \in Conns, conn'[d] = "open"
               PROVE  bufs[d] = Len(outq[d]) + Len(calls[d])
    BY <1>5 DEF BuffersAccounted
  <2>1. CASE d = c
    <3>1. 0 + 0 = 0
      OBVIOUS
    <3> QED BY <1>3, <2>1, <3>1, Zenon
  <2>2. CASE d # c
    BY <1>4, <2>2 DEF IInv, BuffersAccounted
  <2> QED BY <2>1, <2>2
<1> QED BY <1>6, <1>7, <1>8 DEF IInv

LEMMA Inductive == IInv /\ [Next]_vars => IInv'
<1> SUFFICES ASSUME IInv, [Next]_vars PROVE IInv'
  OBVIOUS
<1>1. ASSUME NEW c \in Conns, OnData(c) PROVE IInv'
  <2>1. PICK n \in 1..BufSize : taken' = [taken EXCEPT ![c] = @ + n] /\ ReadCb(c, n)
    BY <1>1 DEF OnData
  <2>2. taken' \in [Conns -> Nat]
    BY <2>1 DEF IInv, StreamTypes
  <2> QED BY <1>1, <2>1, <2>2, ReadCbAccounts DEF OnData
<1>2. ASSUME NEW c \in Conns, OnNothing(c) \/ OnEnd(c) PROVE IInv'
  <2>1. conn[c] = "open" /\ taken' \in [Conns -> Nat]
    BY <1>2 DEF OnNothing, OnEnd, IInv, StreamTypes
  <2>2. PICK n \in {UV_EOF, Error} \cup 0..BufSize : ReadCb(c, n)
    BY <1>2 DEF OnNothing, OnEnd
  <2> QED BY <2>1, <2>2, ReadCbAccounts
<1>3. ASSUME NEW c \in Conns, OnConnection(c) \/ WriteCb(c) \/ Pollout(c) PROVE IInv'
  BY <1>3, OnConnectionAccounts, WriteCbAccounts, PolloutAccounts
<1>4. ASSUME UNCHANGED <<conn, taken, streamVars, bufs>> PROVE IInv'
  BY <1>4 DEF IInv, StreamTypes, NoneYet, BuffersAccounted, streamVars
<1> QED
  BY <1>1, <1>2, <1>3, <1>4 DEF Next, Listens, SigintCb, Server, Env, ClientSends, ClientEnds, vars

-----------------------------------------------------------------------------

\* A buffer that alloc_cb gave out belongs to one write request until the callback of
\* that request frees it (05-tcp-echo-server/main.c:82), in every interleaving of
\* any number of connections, while the connection is open.
THEOREM BuffersBelongToWrites == Spec => []BuffersAccounted
<1>1. IInv => BuffersAccounted
  BY DEF IInv
<1> QED BY <1>1, InitIInv, Inductive, PTL DEF Spec

-----------------------------------------------------------------------------
(* The data bytes of a stream.                                              *)

Parts(a) == [k \in DOMAIN a |-> IF a[k] = Junk THEN << >> ELSE <<a[k]>>]

LEMMA DataType ==
  ASSUME NEW a \in Seq(Nat)
  PROVE  /\ Parts(a) \in Seq(Seq(Nat)) /\ Len(Parts(a)) = Len(a)
         /\ \A k \in 1..Len(a) : Parts(a)[k] = IF a[k] = Junk THEN << >> ELSE <<a[k]>>
         /\ Data(a) = FlattenSeq(Parts(a)) /\ Data(a) \in Seq(Nat)
<1>1. /\ Parts(a) \in Seq(Seq(Nat)) /\ Len(Parts(a)) = Len(a)
      /\ \A k \in 1..Len(a) : Parts(a)[k] = IF a[k] = Junk THEN << >> ELSE <<a[k]>>
  <2>1. DOMAIN a = 1..Len(a) /\ Len(a) \in Nat /\ \A k \in 1..Len(a) : a[k] \in Nat
    OBVIOUS
  <2>2. \A k \in 1..Len(a) : (IF a[k] = Junk THEN << >> ELSE <<a[k]>>) \in Seq(Nat)
    BY <2>1
  <2> QED BY <2>1, <2>2 DEF Parts
<1>2. Data(a) = FlattenSeq(Parts(a))
  BY DEF Data, Parts
<1>3. FlattenSeq(Parts(a)) \in Seq(Nat)
  <2> HIDE DEF Parts
  <2> QED BY <1>1, FlattenType
<1> QED BY <1>1, <1>2, <1>3

\* The data of two sequences are those of the one they make up.
LEMMA DataConcat ==
  ASSUME NEW a \in Seq(Nat), NEW b \in Seq(Nat)
  PROVE  Data(a \o b) = Data(a) \o Data(b)
<1>1. a \o b \in Seq(Nat) /\ Len(a \o b) = Len(a) + Len(b) /\ Len(a) \in Nat /\ Len(b) \in Nat
  BY Lengths, Zenon
<1>2. \A k \in 1..(Len(a) + Len(b)) : (a \o b)[k] = IF k <= Len(a) THEN a[k] ELSE b[k - Len(a)]
  BY ConcatProperties
<1> DEFINE p == Parts(a)  q == Parts(b)  r == Parts(a \o b)
<1>3. /\ p \in Seq(Seq(Nat)) /\ Len(p) = Len(a)
      /\ \A k \in 1..Len(a) : p[k] = IF a[k] = Junk THEN << >> ELSE <<a[k]>>
      /\ Data(a) = FlattenSeq(p)
  BY DataType
<1>4. /\ q \in Seq(Seq(Nat)) /\ Len(q) = Len(b)
      /\ \A k \in 1..Len(b) : q[k] = IF b[k] = Junk THEN << >> ELSE <<b[k]>>
      /\ Data(b) = FlattenSeq(q)
  BY DataType
<1>5. /\ r \in Seq(Seq(Nat)) /\ Len(r) = Len(a) + Len(b)
      /\ \A k \in 1..(Len(a) + Len(b)) : r[k] = IF (a \o b)[k] = Junk THEN << >> ELSE <<(a \o b)[k]>>
      /\ Data(a \o b) = FlattenSeq(r)
  <2> DEFINE c == a \o b
  <2>1. c \in Seq(Nat) /\ Len(c) = Len(a) + Len(b)
    BY <1>1
  <2> HIDE DEF c
  <2>2. /\ Parts(c) \in Seq(Seq(Nat)) /\ Len(Parts(c)) = Len(a) + Len(b)
        /\ \A k \in 1..(Len(a) + Len(b)) : Parts(c)[k] = IF c[k] = Junk THEN << >> ELSE <<c[k]>>
        /\ Data(c) = FlattenSeq(Parts(c))
    BY <2>1, DataType
  <2> QED BY <2>2 DEF c
<1> HIDE DEF p, q, r
<1>6. /\ p \o q \in Seq(Seq(Nat)) /\ Len(p \o q) = Len(a) + Len(b)
      /\ \A k \in 1..(Len(a) + Len(b)) : (p \o q)[k] = IF k <= Len(a) THEN p[k] ELSE q[k - Len(a)]
  <2> DEFINE S == Seq(Nat)
  <2>1. p \in Seq(S) /\ q \in Seq(S) /\ Len(p) = Len(a) /\ Len(q) = Len(b)
    BY <1>3, <1>4
  <2> HIDE DEF S
  <2>2. /\ p \o q \in Seq(S) /\ Len(p \o q) = Len(p) + Len(q)
        /\ \A k \in 1..(Len(p) + Len(q)) : (p \o q)[k] = IF k <= Len(p) THEN p[k] ELSE q[k - Len(p)]
    BY <2>1, ConcatProperties
  <2> QED BY <2>1, <2>2, Zenon DEF S
<1>7. ASSUME NEW k \in 1..(Len(a) + Len(b)) PROVE (p \o q)[k] = r[k]
  <2>1. CASE k <= Len(a)
    <3>1. k \in 1..Len(a)
      BY <1>1, <2>1
    <3> QED BY <1>2, <1>3, <1>5, <1>6, <2>1, <3>1
  <2>2. CASE ~(k <= Len(a))
    <3>1. k - Len(a) \in 1..Len(b)
      BY <1>1, <2>2
    <3> QED BY <1>2, <1>4, <1>5, <1>6, <2>2, <3>1
  <2> QED BY <2>1, <2>2
<1>8. p \o q = r
  BY <1>5, <1>6, <1>7, SeqEqual
<1>9. FlattenSeq(p \o q) = FlattenSeq(p) \o FlattenSeq(q)
  BY <1>3, <1>4, FlattenConcat
<1> QED BY <1>3, <1>4, <1>5, <1>8, <1>9

LEMMA DataNone == Data(<< >>) = << >>
<1>1. Parts(<< >>) = << >>
  BY DEF Parts
<1> QED BY <1>1, FlattenNone DEF Data, Parts

LEMMA DataOne ==
  ASSUME NEW x \in Nat
  PROVE  Data(<<x>>) = IF x = Junk THEN << >> ELSE <<x>>
<1>1. Parts(<<x>>) = <<IF x = Junk THEN << >> ELSE <<x>> >>
  BY DEF Parts
<1>2. Data(<<x>>) = FlattenSeq(Parts(<<x>>))
  BY DEF Data, Parts
<1>3. FlattenSeq(<<IF x = Junk THEN << >> ELSE <<x>> >>) = IF x = Junk THEN << >> ELSE <<x>>
  BY FlattenOne
<1> QED BY <1>1, <1>2, <1>3

\* Bytes that were read are data.
LEMMA DataCount ==
  ASSUME NEW t \in Nat, NEW n \in Nat
  PROVE  Data([k \in 1..n |-> t + k]) = [k \in 1..n |-> t + k]
<1> DEFINE f(m) == [k \in 1..m |-> t + k]
           T == {m \in 1..n : Data(f(m)) = f(m)}
<1>0. ASSUME NEW m \in Nat
      PROVE  f(m) \in Seq(Nat) /\ t + (m + 1) \in Nat /\ t + (m + 1) # Junk
             /\ f(m + 1) = f(m) \o <<t + (m + 1)>>
  <2>1. t + (m + 1) \in Nat /\ t + (m + 1) # Junk /\ \A k \in 1..m : t + k \in Nat
    BY DEF Junk
  <2>2. f(m) \in Seq(Nat)
    BY <2>1
  <2>3. f(m + 1) = f(m) \o <<t + (m + 1)>>
    OBVIOUS
  <2> QED BY <2>1, <2>2, <2>3
<1>1. Data(f(0)) = f(0) /\ f(0) = << >>
  BY DataNone
<1>2. ASSUME NEW m \in Nat, Data(f(m)) = f(m) PROVE Data(f(m + 1)) = f(m + 1)
  <2>1. <<t + (m + 1)>> \in Seq(Nat) /\ Data(<<t + (m + 1)>>) = <<t + (m + 1)>>
    <3>1. \A x \in Nat : x # Junk => Data(<<x>>) = <<x>>
      BY DataOne
    <3>2. \A x \in Nat : <<x>> \in Seq(Nat)
      OBVIOUS
    <3> QED BY <1>0, <3>1, <3>2, Zenon
  <2> HIDE DEF f
  <2>2. Data(f(m) \o <<t + (m + 1)>>) = Data(f(m)) \o Data(<<t + (m + 1)>>)
    BY <1>0, <2>1, DataConcat
  <2> QED BY <1>0, <1>2, <2>1, <2>2
<1>3. n > 0 => 1 \in T
  <2>1. Data(f(0 + 1)) = f(0 + 1) /\ 0 + 1 = 1
    <3> HIDE DEF f
    <3> QED BY <1>1, <1>2
  <2> QED BY <2>1
<1>4. \A m \in 1..(n - 1) : m \in T => m + 1 \in T
  <2> HIDE DEF f
  <2> QED BY <1>2
<1>5. 1..n \subseteq T
  <2> HIDE DEF T
  <2> QED BY <1>3, <1>4, Induction
<1>6. CASE n = 0
  BY <1>1, <1>6
<1>7. CASE n > 0
  BY <1>5, <1>7
<1> QED BY <1>6, <1>7

\* What is left in the buffer behind them is not.
LEMMA DataJunk ==
  ASSUME NEW n \in Nat
  PROVE  Data([k \in 1..n |-> Junk]) = << >>
<1> DEFINE f(m) == [k \in 1..m |-> Junk]
           T == {m \in 1..n : Data(f(m)) = << >>}
<1>0. ASSUME NEW m \in Nat
      PROVE  f(m) \in Seq(Nat) /\ <<Junk>> \in Seq(Nat) /\ f(m + 1) = f(m) \o <<Junk>>
  BY DEF Junk
<1>1. Data(f(0)) = << >>
  BY DataNone
<1>2. ASSUME NEW m \in Nat, Data(f(m)) = << >> PROVE Data(f(m + 1)) = << >>
  <2>1. Data(<<Junk>>) = << >>
    BY DataOne DEF Junk
  <2> HIDE DEF f
  <2>2. Data(f(m) \o <<Junk>>) = Data(f(m)) \o Data(<<Junk>>)
    BY <1>0, DataConcat
  <2>3. << >> \o << >> = << >>
    OBVIOUS
  <2> QED BY <1>0, <1>2, <2>1, <2>2, <2>3
<1>3. n > 0 => 1 \in T
  <2>1. Data(f(0 + 1)) = << >> /\ 0 + 1 = 1
    <3> HIDE DEF f
    <3> QED BY <1>1, <1>2
  <2> QED BY <2>1
<1>4. \A m \in 1..(n - 1) : m \in T => m + 1 \in T
  <2> HIDE DEF f
  <2> QED BY <1>2
<1>5. 1..n \subseteq T
  <2> HIDE DEF T
  <2> QED BY <1>3, <1>4, Induction
<1>6. CASE n = 0
  BY <1>1, <1>6
<1>7. CASE n > 0
  BY <1>5, <1>7
<1> QED BY <1>6, <1>7

LEMMA StreamIsData ==
  ASSUME NEW n \in Nat
  PROVE  Stream(n) \in Seq(Nat) /\ Len(Stream(n)) = n /\ Data(Stream(n)) = Stream(n)
<1>1. Stream(n) = [k \in 1..n |-> 0 + k]
  BY DEF Stream
<1>2. Data([k \in 1..n |-> 0 + k]) = [k \in 1..n |-> 0 + k]
  BY DataCount
<1>3. Stream(n) \in Seq(Nat) /\ Len(Stream(n)) = n
  BY DEF Stream
<1> QED BY <1>1, <1>2, <1>3

\* What a read of n bytes makes either program write.
LEMMA ReadIsNext ==
  ASSUME NEW c \in Conns, taken[c] \in Nat, NEW n \in 0..BufSize
  PROVE  /\ Read(c, n) \in Seq(Nat) /\ Len(Read(c, n)) = n /\ Data(Read(c, n)) = Read(c, n)
         /\ Buffer(c, n) \in Piece /\ Data(Buffer(c, n)) = Read(c, n)
         /\ Stream(taken[c]) \o Read(c, n) = Stream(taken[c] + n)
<1> DEFINE j == [k \in 1..(BufSize - n) |-> Junk]
<1>1. n \in Nat /\ BufSize - n \in Nat /\ \A k \in 1..n : taken[c] + k \in Nat
  OBVIOUS
<1>2. Read(c, n) \in Seq(Nat) /\ Len(Read(c, n)) = n
  BY <1>1 DEF Read
<1>3. Data(Read(c, n)) = Read(c, n)
  BY <1>1, DataCount DEF Read
<1>4. j \in Seq(Nat) /\ Len(j) = BufSize - n /\ Data(j) = << >>
  <2>1. Data(j) = << >>
    BY <1>1, DataJunk
  <2>2. j \in Seq(Nat) /\ Len(j) = BufSize - n
    BY <1>1 DEF Junk
  <2> QED BY <2>1, <2>2
<1>5. Buffer(c, n) = Read(c, n) \o j
  BY DEF Buffer
<1> HIDE DEF j
<1>6. Data(Buffer(c, n)) = Read(c, n)
  <2>1. Data(Read(c, n) \o j) = Data(Read(c, n)) \o Data(j)
    BY <1>2, <1>4, DataConcat
  <2> QED BY <1>2, <1>3, <1>4, <1>5, <2>1
<1>7. Buffer(c, n) \in Piece
  <2>1. Read(c, n) \o j \in Seq(Nat) /\ Len(Read(c, n) \o j) = Len(Read(c, n)) + Len(j)
    BY <1>2, <1>4, Lengths, Zenon
  <2>2. Len(Read(c, n) \o j) # 0
    BY <1>1, <1>2, <1>4, <2>1
  <2> QED BY <1>5, <2>1, <2>2 DEF Piece, Bytes
<1>8. Stream(taken[c]) \o Read(c, n) = Stream(taken[c] + n)
  BY <1>1, CountGrows DEF Stream, Read
<1> QED BY <1>2, <1>3, <1>6, <1>7, <1>8

-----------------------------------------------------------------------------
(* What a connection has had, has and is owed.                              *)

EchoTypes ==
  /\ Streams(Conns) /\ program \in {"tcp", "pipe"}
  /\ taken \in [Conns -> Nat] /\ sent \in [Conns -> Nat]
  /\ ended \in [Conns -> {"no", "patient", "early", "reset"}]

\* While a connection lasts, what is written to it are the bytes read from it.
OwedData(c) == Data(Written(c)) = Stream(taken[c])
Owed(c) ==
  conn[c] # "closed" /\ ended[c] # "reset" =>
    OwedData(c) /\ (program = "tcp" => Written(c) = Stream(taken[c]))

Returned(c) ==
  /\ Echoed(c) \in Seq(Nat) /\ Echoed(c) = Stream(Len(Echoed(c)))
  /\ Len(Echoed(c)) <= taken[c] /\ taken[c] <= sent[c]

\* A write fails where the client did not wait for it, or 19-pipe-echo-server did not.
WhyFailed(c) ==
  \A k \in DOMAIN calls[c] :
    /\ calls[c][k] = "UV_EPIPE" => ended[c] = "reset"
    /\ calls[c][k] = "UV_ECANCELED" => program = "pipe" \/ ended[c] \in {"early", "reset"}

Connection(c) ==
  /\ Owed(c) /\ Returned(c) /\ WhyFailed(c)
  /\ conn[c] = "closed" => outq[c] = << >>
  /\ ended[c] = "patient" => Len(Echoed(c)) >= sent[c]

EchoInv == EchoTypes /\ (\A c \in Conns : Connection(c)) /\ WritesSucceed

LEMMA OthersKeep ==
  ASSUME NEW d \in Conns, Connection(d), UNCHANGED program, outq'[d] = outq[d], calls'[d] = calls[d],
         got'[d] = got[d], conn'[d] = conn[d], ended'[d] = ended[d], sent'[d] = sent[d],
         taken'[d] = taken[d]
  PROVE  Connection(d)'
BY DEF Connection, Owed, OwedData, Returned, WhyFailed, Written, Echoed

\* What a client got is the beginning of what it is owed.
OwedIsReturned ==
  EchoTypes =>
    \A c \in Conns :
      /\ Echoed(c) \in Seq(Nat) /\ Written(c) \in Seq(Nat)
      /\ OwedData(c) => Echoed(c) = Stream(Len(Echoed(c))) /\ Len(Echoed(c)) <= taken[c]

LEMMA WhatIsReturned == OwedIsReturned
<1> SUFFICES ASSUME EchoTypes, NEW c \in Conns
             PROVE  /\ Echoed(c) \in Seq(Nat) /\ Written(c) \in Seq(Nat)
                    /\ OwedData(c) => Echoed(c) = Stream(Len(Echoed(c))) /\ Len(Echoed(c)) <= taken[c]
  BY DEF OwedIsReturned
<1> DEFINE rest == FlattenSeq(outq[c])
<1>1. /\ got[c] \in Seq(Nat) /\ rest \in Seq(Nat) /\ Written(c) \in Seq(Nat) /\ taken[c] \in Nat
      /\ Written(c) = got[c] \o rest
  BY WrittenType DEF EchoTypes, Written
<1> HIDE DEF rest
<1>2. Data(got[c]) \in Seq(Nat) /\ Data(rest) \in Seq(Nat)
  BY <1>1, DataType
<1>3. ASSUME OwedData(c) PROVE Echoed(c) = Stream(Len(Echoed(c))) /\ Len(Echoed(c)) <= taken[c]
  <2>1. Data(got[c]) \o Data(rest) = [k \in 1..taken[c] |-> k]
    BY <1>1, <1>3, DataConcat DEF OwedData, Stream
  <2> QED BY <1>1, <1>2, <2>1, CountPrefix DEF Echoed, Stream
<1> QED BY <1>1, <1>2, <1>3 DEF Echoed

LEMMA EchoInitially == Init => EchoInv
<1> SUFFICES ASSUME Init PROVE EchoInv
  OBVIOUS
<1>1. /\ outq = [c \in Conns |-> << >>] /\ calls = [c \in Conns |-> << >>] /\ got = [c \in Conns |-> << >>]
      /\ taken = [c \in Conns |-> 0] /\ sent = [c \in Conns |-> 0] /\ ended = [c \in Conns |-> "no"]
      /\ program \in {"tcp", "pipe"} /\ proc = "running"
  BY ProgramsKnown DEF Init, StreamsInit
<1>2. EchoTypes
  BY <1>1 DEF EchoTypes, Streams, Bytes
<1>3. WritesSucceed
  BY <1>1 DEF WritesSucceed
<1>4. ASSUME NEW c \in Conns PROVE Connection(c)
  <2>1. outq[c] = << >> /\ calls[c] = << >> /\ got[c] = << >> /\ taken[c] = 0 /\ sent[c] = 0 /\ ended[c] = "no"
    BY <1>1
  <2>2. Written(c) = << >>
    <3>1. << >> \in Seq(Nat)
      OBVIOUS
    <3> QED BY <2>1, <3>1, FlattenNone DEF Written
  <2>3. Stream(0) = << >> /\ Len(<< >>) = 0 /\ << >> \in Seq(Nat)
    BY DEF Stream
  <2>4. Owed(c) /\ Returned(c)
    <3>1. Echoed(c) = << >> /\ Data(Written(c)) = << >>
      BY <2>1, <2>2, DataNone DEF Echoed
    <3>2. Owed(c)
      BY <2>1, <2>2, <2>3, <3>1 DEF Owed, OwedData
    <3>3. Returned(c)
      BY <2>1, <2>3, <3>1 DEF Returned
    <3> QED BY <3>2, <3>3
  <2>5. WhyFailed(c)
    BY <2>1 DEF WhyFailed
  <2> QED BY <2>1, <2>4, <2>5 DEF Connection
<1> QED BY <1>2, <1>3, <1>4 DEF EchoInv

\* A read that is written back.
LEMMA WriteOwes ==
  ASSUME IInv, EchoInv, NEW c \in Conns, conn[c] = "open", NEW n \in 0..BufSize, NEW b \in Piece, Write(c, b),
         b \in {Read(c, n), Buffer(c, n)}, program = "tcp" => b = Read(c, n),
         taken[c] + n <= sent[c], taken' = [taken EXCEPT ![c] = @ + n],
         UNCHANGED <<program, proc, sent, ended>>
  PROVE  EchoInv'
<1>1. EchoTypes /\ WritesSucceed /\ \A d \in Conns : Connection(d)
  BY DEF EchoInv
<1>2. /\ Streams(Conns)' /\ UNCHANGED <<calls, got, conn>>
      /\ (Written(c))' = Written(c) \o b
      /\ \A d \in Conns \ {c} : outq'[d] = outq[d]
  BY <1>1, WriteAdds DEF EchoTypes, Write
<1>3. /\ taken[c] \in Nat /\ n \in Nat /\ taken' \in [Conns -> Nat] /\ taken'[c] = taken[c] + n
      /\ \A d \in Conns \ {c} : taken'[d] = taken[d]
  BY <1>1 DEF EchoTypes
<1>4. EchoTypes' /\ WritesSucceed'
  BY <1>1, <1>2, <1>3 DEF EchoTypes, WritesSucceed
<1>5. ASSUME NEW d \in Conns \ {c} PROVE Connection(d)'
  BY <1>1, <1>2, <1>3, OthersKeep
<1>6. Connection(c)'
  <2>1. /\ Data(b) = Read(c, n) /\ Stream(taken[c]) \o Read(c, n) = Stream(taken[c] + n)
    BY <1>3, ReadIsNext
  <2>2. Data(Written(c) \o b) = Data(Written(c)) \o Data(b)
    <3>1. Written(c) \in Seq(Nat) /\ b \in Seq(Nat)
      BY <1>1, WhatIsReturned DEF OwedIsReturned, Piece, Bytes
    <3> QED BY <3>1, DataConcat
  <2>3. (Owed(c))'
    BY <1>1, <1>2, <1>3, <2>1, <2>2 DEF Connection, Owed, OwedData
  <2>4. (Returned(c))'
    <3>1. (Echoed(c))' = Echoed(c)
      BY <1>2 DEF Echoed
    <3>2. Echoed(c) \in Seq(Nat) /\ Len(Echoed(c)) <= taken[c] /\ Echoed(c) = Stream(Len(Echoed(c)))
      BY <1>1 DEF Connection, Returned
    <3>3. Len(Echoed(c)) \in Nat
      BY <3>2, Lengths, Zenon
    <3>4. \A i \in Nat : i <= taken[c] => i <= taken[c] + n
      BY <1>3
    <3> QED BY <1>3, <3>1, <3>2, <3>3, <3>4 DEF Returned
  <2>5. (WhyFailed(c))' /\ (Echoed(c))' = Echoed(c)
    BY <1>1, <1>2 DEF Connection, WhyFailed, Echoed
  <2> QED BY <1>1, <1>2, <2>3, <2>4, <2>5 DEF Connection
<1> QED BY <1>4, <1>5, <1>6 DEF EchoInv

\* A client of 05-tcp-echo-server that has its echo finds nothing queued for it.
LEMMA EchoIsAll ==
  ASSUME EchoInv, NEW c \in Conns, program = "tcp", conn[c] = "open", ended[c] = "patient",
         taken[c] = sent[c]
  PROVE  outq[c] = << >>
<1>1. /\ EchoTypes /\ Written(c) = Stream(taken[c]) /\ Len(Echoed(c)) >= taken[c] /\ taken[c] \in Nat
  BY DEF EchoInv, EchoTypes, Connection, Owed
<1> DEFINE rest == FlattenSeq(outq[c])
<1>2. got[c] \in Seq(Nat) /\ rest \in Seq(Nat) /\ got[c] \o rest = [k \in 1..taken[c] |-> k]
  BY <1>1, WrittenType DEF EchoTypes, Written, Stream
<1>3. got[c] = [k \in 1..Len(got[c]) |-> k] /\ Len(got[c]) \in Nat
  <2> HIDE DEF rest
  <2>1. Len(got[c]) \in Nat
    BY <1>2, Lengths, Zenon
  <2> QED BY <1>1, <1>2, <2>1, CountPrefix
<1>4. Echoed(c) = got[c]
  BY <1>3, StreamIsData DEF Echoed, Stream
<1>5. Len(Written(c)) = taken[c]
  BY <1>1, StreamIsData
<1>6. outq[c] # << >> => Len(got[c]) < Len(Written(c))
  BY <1>1, QueuedIsBehind DEF EchoTypes
<1> QED BY <1>1, <1>3, <1>4, <1>5, <1>6

\* A connection is closed.
LEMMA CloseOwesNothing ==
  ASSUME IInv, EchoInv, NEW c \in Conns, conn[c] = "open", Close(c),
         program = "pipe" \/ (ended[c] \in {"patient", "early"} /\ taken[c] = sent[c]),
         UNCHANGED <<program, proc, sent, ended, taken>>
  PROVE  EchoInv'
<1>1. EchoTypes /\ WritesSucceed /\ \A d \in Conns : Connection(d)
  BY DEF EchoInv
<1>2. /\ Streams(Conns)' /\ UNCHANGED got /\ outq'[c] = << >>
      /\ \A d \in Conns \ {c} : outq'[d] = outq[d] /\ calls'[d] = calls[d]
      /\ \A k \in DOMAIN calls'[c] :
           \/ k \in DOMAIN calls[c] /\ calls'[c][k] = calls[c][k]
           \/ calls'[c][k] = "UV_ECANCELED" /\ outq[c] # << >>
  <2>1. c \in Conns \cap {c}
    OBVIOUS
  <2>2. /\ Streams(Conns)' /\ UNCHANGED got
        /\ \A s \in Conns \cap {c} : outq'[s] = << >>
        /\ \A s \in Conns : s \notin {c} => outq'[s] = outq[s] /\ calls'[s] = calls[s]
        /\ \A s \in Conns \cap {c} : \A k \in DOMAIN calls'[s] :
             \/ k \in DOMAIN calls[s] /\ calls'[s][k] = calls[s][k]
             \/ calls'[s][k] = "UV_ECANCELED" /\ outq[s] # << >>
    BY <1>1, CloseCancels DEF EchoTypes, Close
  <2> QED BY <2>1, <2>2
<1>3. conn'[c] = "closed" /\ \A d \in Conns \ {c} : conn'[d] = conn[d]
  BY DEF Close, IInv, StreamTypes
<1>4. EchoTypes' /\ WritesSucceed'
  BY <1>1, <1>2 DEF EchoTypes, WritesSucceed
<1>5. ASSUME NEW d \in Conns \ {c} PROVE Connection(d)'
  BY <1>1, <1>2, <1>3, OthersKeep
<1>6. Connection(c)'
  <2>1. (Echoed(c))' = Echoed(c)
    BY <1>2 DEF Echoed
  <2>2. outq[c] # << >> => program = "pipe" \/ ended[c] \in {"early", "reset"}
    BY <1>1, EchoIsAll DEF EchoTypes
  <2>3. (WhyFailed(c))'
    <3> SUFFICES ASSUME NEW k \in DOMAIN calls'[c]
                 PROVE  /\ calls'[c][k] = "UV_EPIPE" => ended[c] = "reset"
                        /\ calls'[c][k] = "UV_ECANCELED" => program = "pipe" \/ ended[c] \in {"early", "reset"}
      BY DEF WhyFailed
    <3> QED BY <1>1, <1>2, <2>2 DEF Connection, WhyFailed
  <2> QED BY <1>1, <1>2, <1>3, <2>1, <2>3 DEF Connection, Owed, Returned
<1> QED BY <1>4, <1>5, <1>6 DEF EchoInv

\* The kernel takes what is owed, or the client is gone.
LEMMA PolloutReturns ==
  ASSUME IInv, EchoInv, NEW c \in Conns, Pollout(c)
  PROVE  EchoInv'
<1>1. /\ EchoTypes /\ WritesSucceed /\ \A d \in Conns : Connection(d)
      /\ UNCHANGED <<program, proc, conn, sent, ended, taken>>
  BY DEF EchoInv, Pollout
<1>2. CASE ended[c] = "reset" /\ Refused(c)
  <2>1. /\ Streams(Conns)' /\ outq[c] # << >> /\ UNCHANGED got
        /\ \A d \in Conns \ {c} : outq'[d] = outq[d] /\ calls'[d] = calls[d]
    BY <1>1, <1>2, RefusedDrops DEF EchoTypes
  <2>2. EchoTypes' /\ WritesSucceed'
    BY <1>1, <2>1 DEF EchoTypes, WritesSucceed
  <2>3. Connection(c)'
    BY <1>1, <1>2, <2>1 DEF Connection, Owed, Returned, WhyFailed, Echoed
  <2>4. \A d \in Conns \ {c} : Connection(d)'
    BY <1>1, <2>1, OthersKeep
  <2> QED BY <2>2, <2>3, <2>4 DEF EchoInv
<1>3. CASE ended[c] # "reset" /\ Taken(c)
  <2>1. /\ Streams(Conns)' /\ outq[c] # << >> /\ (Written(c))' = Written(c)
        /\ \A d \in Conns \ {c} : outq'[d] = outq[d] /\ calls'[d] = calls[d] /\ got'[d] = got[d]
        /\ calls'[c] \in {calls[c], Append(calls[c], "0")}
    BY <1>1, <1>3, TakenKeeps DEF EchoTypes
  <2>2. PICK p \in Piece : got'[c] = got[c] \o p
    BY <1>1, <1>3, TakenKeeps DEF EchoTypes
  <2>3. EchoTypes' /\ WritesSucceed'
    BY <1>1, <2>1 DEF EchoTypes, WritesSucceed
  <2>4. conn[c] # "closed" /\ Owed(c) /\ OwedData(c)
    BY <1>1, <1>3, <2>1 DEF Connection, Owed
  <2>5. (Owed(c))' /\ (OwedData(c))'
    BY <1>1, <2>1, <2>4 DEF Owed, OwedData
  <2>6. (Returned(c))'
    <3>1. OwedIsReturned'
      BY WhatIsReturned, PTL
    <3>2. /\ (Echoed(c))' \in Seq(Nat) /\ (Echoed(c))' = (Stream(Len(Echoed(c))))'
          /\ Len((Echoed(c))') <= taken'[c]
      BY <2>3, <2>5, <3>1 DEF OwedIsReturned
    <3>3. taken[c] <= sent[c]
      BY <1>1 DEF Connection, Returned
    <3> QED BY <1>1, <3>2, <3>3 DEF Returned
  <2>7. ended[c] = "patient" => Len((Echoed(c))') >= sent[c]
    <3>1. got[c] \in Seq(Nat) /\ p \in Seq(Nat)
      BY <1>1 DEF EchoTypes, Streams, Piece, Bytes
    <3>2. (Echoed(c))' = Echoed(c) \o Data(p) /\ Data(p) \in Seq(Nat) /\ Echoed(c) \in Seq(Nat)
      BY <2>2, <3>1, DataConcat, DataType DEF Echoed
    <3>3. /\ Len(Echoed(c) \o Data(p)) = Len(Echoed(c)) + Len(Data(p))
          /\ Len(Echoed(c)) \in Nat /\ Len(Data(p)) \in Nat
      BY <3>2, Lengths, Zenon
    <3>4. sent[c] \in Nat /\ (ended[c] = "patient" => Len(Echoed(c)) >= sent[c])
      BY <1>1 DEF EchoTypes, Connection
    <3>5. \A i, j, k \in Nat : i >= k => i + j >= k
      OBVIOUS
    <3> QED BY <3>2, <3>3, <3>4, <3>5
  <2>8. (WhyFailed(c))'
    <3>1. CASE calls'[c] = calls[c]
      BY <1>1, <3>1 DEF Connection, WhyFailed
    <3>2. CASE calls'[c] = Append(calls[c], "0")
      <4>1. calls[c] \in Seq(Codes) /\ "0" \in Codes
        BY <1>1 DEF EchoTypes, Streams, Codes
      <4>2. \A k \in DOMAIN calls'[c] :
              \/ k \in DOMAIN calls[c] /\ calls'[c][k] = calls[c][k]
              \/ calls'[c][k] = "0"
        BY <3>2, <4>1, OneMoreCall
      <4>3. "0" # "UV_EPIPE" /\ "0" # "UV_ECANCELED"
        OBVIOUS
      <4> QED BY <1>1, <4>2, <4>3 DEF Connection, WhyFailed
    <3> QED BY <2>1, <3>1, <3>2
  <2>9. Connection(c)'
    BY <1>1, <2>4, <2>5, <2>6, <2>7, <2>8 DEF Connection
  <2>10. \A d \in Conns \ {c} : Connection(d)'
    BY <1>1, <2>1, OthersKeep
  <2> QED BY <2>3, <2>9, <2>10 DEF EchoInv
<1> QED BY <1>2, <1>3 DEF Pollout

\* A callback, or the assertion it fails.
LEMMA WriteCbTells ==
  ASSUME IInv, EchoInv, NEW c \in Conns, WriteCb(c)
  PROVE  EchoInv'
<1>1. /\ EchoTypes /\ WritesSucceed /\ \A d \in Conns : Connection(d)
      /\ UNCHANGED <<program, conn, sent, ended, taken>> /\ calls[c] # << >>
  BY DEF EchoInv, WriteCb
<1>2. CASE Head(calls[c]) = "0" /\ CalledBack(c) /\ UNCHANGED proc
  <2>1. /\ Streams(Conns)' /\ UNCHANGED <<outq, got>>
        /\ \A d \in Conns : (Written(d))' = Written(d)
        /\ \A d \in Conns \ {c} : calls'[d] = calls[d]
        /\ \A k \in DOMAIN calls'[c] : k + 1 \in DOMAIN calls[c] /\ calls'[c][k] = calls[c][k + 1]
    BY <1>1, <1>2, CalledBackDrops DEF EchoTypes
  <2>2. EchoTypes' /\ WritesSucceed'
    BY <1>1, <1>2, <2>1 DEF EchoTypes, WritesSucceed
  <2>3. (WhyFailed(c))'
    BY <1>1, <2>1 DEF Connection, WhyFailed
  <2>4. Connection(c)'
    BY <1>1, <2>1, <2>3 DEF Connection, Owed, OwedData, Returned, Echoed
  <2>5. \A d \in Conns \ {c} : Connection(d)'
    BY <1>1, <2>1, OthersKeep
  <2> QED BY <2>2, <2>4, <2>5 DEF EchoInv
<1>3. CASE Head(calls[c]) # "0" /\ UNCHANGED streamVars
  <2>1. calls[c][1] \in Codes \ {"0"} /\ 1 \in DOMAIN calls[c]
    <3>1. calls[c] \in Seq(Codes)
      BY <1>1 DEF EchoTypes, Streams
    <3>2. Head(calls[c]) \in Codes /\ Head(calls[c]) = calls[c][1] /\ Len(calls[c]) \in Nat \ {0}
      BY <1>1, <3>1, HeadTailProperties
    <3> QED BY <1>3, <3>1, <3>2
  <2>2. program = "pipe" \/ ended[c] \in {"early", "reset"}
    BY <1>1, <2>1 DEF Codes, Connection, WhyFailed
  <2>3. WritesSucceed'
    BY <1>1, <2>2 DEF WritesSucceed
  <2>4. EchoTypes'
    BY <1>1, <1>3 DEF EchoTypes, Streams, streamVars
  <2>5. \A d \in Conns : Connection(d)'
    BY <1>1, <1>3, OthersKeep DEF streamVars
  <2> QED BY <2>3, <2>4, <2>5 DEF EchoInv
<1> QED BY <1>2, <1>3 DEF WriteCb

\* What the client does, and its acceptance.
LEMMA ClientKeeps ==
  ASSUME IInv, EchoInv, NEW c \in Conns, ClientSends(c) \/ ClientEnds(c) \/ OnConnection(c)
  PROVE  EchoInv'
<1>1. /\ EchoTypes /\ WritesSucceed /\ \A d \in Conns : Connection(d)
      /\ UNCHANGED <<program, taken, streamVars>> /\ conn \in [Conns -> {"none", "open", "failed", "closed"}]
      /\ Streams(Conns)'
  BY DEF EchoInv, EchoTypes, ClientSends, ClientEnds, OnConnection, Streams, streamVars, IInv, StreamTypes
<1>2. (Echoed(c))' = Echoed(c) /\ (Written(c))' = Written(c) /\ outq'[c] = outq[c] /\ calls'[c] = calls[c]
  BY <1>1 DEF Echoed, Written, streamVars
<1>3. CASE ClientSends(c)
  <2>1. /\ sent' \in [Conns -> Nat] /\ sent'[c] = sent[c] + 1 /\ taken[c] \in Nat /\ sent[c] \in Nat
        /\ \A d \in Conns \ {c} : sent'[d] = sent[d]
        /\ UNCHANGED <<proc, conn, ended>> /\ ended[c] = "no"
    BY <1>1, <1>3 DEF ClientSends, EchoTypes
  <2>2. EchoTypes' /\ WritesSucceed'
    BY <1>1, <2>1 DEF EchoTypes, WritesSucceed
  <2>3. Connection(c)'
    <3>1. (Returned(c))'
      BY <1>1, <1>2, <2>1 DEF Connection, Returned
    <3>2. (Owed(c))' /\ (WhyFailed(c))'
      BY <1>1, <1>2, <2>1 DEF Connection, Owed, OwedData, WhyFailed
    <3> QED BY <1>1, <1>2, <2>1, <3>1, <3>2 DEF Connection
  <2>4. \A d \in Conns \ {c} : Connection(d)'
    BY <1>1, <2>1, OthersKeep DEF streamVars
  <2> QED BY <2>2, <2>3, <2>4 DEF EchoInv
<1>4. CASE ClientEnds(c)
  <2>1. /\ ended[c] = "no" /\ UNCHANGED <<proc, conn, sent>>
        /\ \E e \in {"patient", "early", "reset"} :
             ended' = [ended EXCEPT ![c] = e] /\ (e = "patient" => Len(Echoed(c)) >= sent[c])
    BY <1>4 DEF ClientEnds
  <2>2. /\ ended' \in [Conns -> {"no", "patient", "early", "reset"}]
        /\ \A d \in Conns \ {c} : ended'[d] = ended[d]
        /\ ended'[c] = "patient" => Len(Echoed(c)) >= sent[c]
    BY <1>1, <2>1 DEF EchoTypes
  <2>3. EchoTypes'
    BY <1>1, <2>1, <2>2 DEF EchoTypes
  <2>4. WritesSucceed'
    <3>1. ASSUME NEW d \in Conns, ended[d] \in {"early", "reset"} PROVE ended'[d] \in {"early", "reset"}
      BY <2>1, <2>2, <3>1
    <3> QED BY <1>1, <2>1, <3>1 DEF WritesSucceed
  <2>5. Connection(c)'
    <3>1. (WhyFailed(c))'
      BY <1>1, <1>2, <2>1 DEF Connection, WhyFailed
    <3>2. (Owed(c))' /\ (Returned(c))'
      BY <1>1, <1>2, <2>1 DEF Connection, Owed, OwedData, Returned
    <3> QED BY <1>1, <1>2, <2>1, <2>2, <3>1, <3>2 DEF Connection
  <2>6. \A d \in Conns \ {c} : Connection(d)'
    BY <1>1, <2>1, <2>2, OthersKeep DEF streamVars
  <2> QED BY <2>3, <2>4, <2>5, <2>6 DEF EchoInv
<1>5. CASE OnConnection(c)
  <2>1. /\ conn[c] = "none" /\ UNCHANGED <<sent, ended>> /\ proc' \in {proc, "bad_connection"}
        /\ \A d \in Conns \ {c} : conn'[d] = conn[d]
    BY <1>1, <1>5 DEF OnConnection, TcpConnectionCb, PipeConnectCb, Accept
  <2>2. outq[c] = << >>
    BY <2>1 DEF IInv, NoneYet
  <2>3. EchoTypes' /\ WritesSucceed'
    BY <1>1, <2>1 DEF EchoTypes, WritesSucceed
  <2>4. Connection(c)'
    BY <1>1, <1>2, <2>1, <2>2 DEF Connection, Owed, OwedData, Returned, WhyFailed
  <2>5. \A d \in Conns \ {c} : Connection(d)'
    BY <1>1, <2>1, OthersKeep DEF streamVars
  <2> QED BY <2>3, <2>4, <2>5 DEF EchoInv
<1> QED BY <1>3, <1>4, <1>5

LEMMA EchoInductive == IInv /\ EchoInv /\ [Next]_vars => EchoInv'
<1> SUFFICES ASSUME IInv, EchoInv, [Next]_vars PROVE EchoInv'
  OBVIOUS
<1>0. /\ EchoTypes /\ WritesSucceed /\ \A d \in Conns : Connection(d)
      /\ \A d \in Conns : taken[d] \in Nat /\ taken[d] <= sent[d]
  BY DEF EchoInv, EchoTypes, Connection, Returned
<1>1. ASSUME NEW c \in Conns, OnData(c) PROVE EchoInv'
  <2>1. PICK n \in 1..BufSize : /\ taken[c] + n <= sent[c] /\ taken' = [taken EXCEPT ![c] = @ + n]
                               /\ ReadCb(c, n)
    BY <1>1 DEF OnData
  <2>2. n \in 0..BufSize /\ n # 0 /\ n # UV_EOF /\ n # Error
    BY DEF UV_EOF, Error
  <2>3. Read(c, n) \in Seq(Nat) /\ Len(Read(c, n)) = n /\ Buffer(c, n) \in Piece
    BY <1>0, <2>2, ReadIsNext
  <2>4. Read(c, n) \in Piece
    BY <2>2, <2>3 DEF Piece, Bytes
  <2>5. \E b \in {Read(c, n), Buffer(c, n)} : Write(c, b) /\ (program = "tcp" => b = Read(c, n))
    BY <2>1, <2>2 DEF ReadCb, TcpReadCb, PipeReadCb
  <2> QED BY <1>1, <2>1, <2>2, <2>3, <2>4, <2>5, WriteOwes DEF OnData
<1>2. ASSUME NEW c \in Conns, OnNothing(c) PROVE EchoInv'
  <2>1. ReadCb(c, 0) /\ conn[c] = "open" /\ UNCHANGED <<program, proc, sent, ended, taken>>
    BY <1>2 DEF OnNothing
  <2>2. CASE program = "tcp"
    <3>1. UNCHANGED <<conn, streamVars>>
      BY <2>1, <2>2 DEF ReadCb, TcpReadCb, UV_EOF, Error
    <3> QED BY <1>0, <2>1, <3>1, OthersKeep DEF EchoInv, EchoTypes, Streams, WritesSucceed, streamVars
  <2>3. CASE program # "tcp"
    <3>1. Write(c, Buffer(c, 0))
      BY <2>1, <2>3 DEF ReadCb, PipeReadCb, UV_EOF, Error
    <3>2. 0 \in 0..BufSize /\ Buffer(c, 0) \in Piece
      BY <1>0, ReadIsNext
    <3>3. taken[c] + 0 <= sent[c] /\ taken' = [taken EXCEPT ![c] = @ + 0]
      BY <1>0, <2>1 DEF EchoTypes
    <3> QED BY <2>1, <2>3, <3>1, <3>2, <3>3, WriteOwes
  <2> QED BY <2>2, <2>3
<1>3. ASSUME NEW c \in Conns, OnEnd(c) PROVE EchoInv'
  <2>1. /\ conn[c] = "open" /\ UNCHANGED <<program, proc, sent, ended, taken>>
        /\ \/ ended[c] \in {"patient", "early"} /\ taken[c] = sent[c] /\ ReadCb(c, UV_EOF)
           \/ ended[c] = "reset" /\ ReadCb(c, Error)
    BY <1>3 DEF OnEnd
  <2>2. CASE Close(c) /\ (program = "pipe" \/ (ended[c] \in {"patient", "early"} /\ taken[c] = sent[c]))
    BY <2>1, <2>2, CloseOwesNothing
  <2>3. CASE ended[c] = "reset" /\ conn' = [conn EXCEPT ![c] = "failed"] /\ UNCHANGED streamVars
    <3>1. /\ \A d \in Conns \ {c} : conn'[d] = conn[d]
          /\ conn'[c] = "failed"
      BY <2>3 DEF IInv, StreamTypes
    <3>2. EchoTypes' /\ WritesSucceed'
      BY <1>0, <2>1, <2>3 DEF EchoTypes, Streams, WritesSucceed, streamVars
    <3>3. Connection(c)'
      BY <1>0, <2>1, <2>3, <3>1 DEF Connection, Owed, Returned, WhyFailed, Echoed, streamVars
    <3>4. \A d \in Conns \ {c} : Connection(d)'
      BY <1>0, <2>1, <2>3, <3>1, OthersKeep DEF streamVars
    <3> QED BY <3>2, <3>3, <3>4 DEF EchoInv
  <2>4. program = "tcp" \/ program = "pipe"
    BY <1>0 DEF EchoTypes
  <2> QED BY <2>1, <2>2, <2>3, <2>4 DEF ReadCb, TcpReadCb, PipeReadCb, UV_EOF, Error
<1>4. ASSUME NEW c \in Conns, WriteCb(c) \/ Pollout(c) PROVE EchoInv'
  BY <1>4, WriteCbTells, PolloutReturns
<1>5. ASSUME NEW c \in Conns, ClientSends(c) \/ ClientEnds(c) \/ OnConnection(c) PROVE EchoInv'
  BY <1>5, ClientKeeps
<1>6. ASSUME UNCHANGED <<program, conn, sent, ended, taken, streamVars>>, proc' = "aborted" => proc = "aborted"
      PROVE  EchoInv'
  BY <1>0, <1>6, OthersKeep DEF EchoInv, EchoTypes, Streams, WritesSucceed, streamVars
<1>7. CASE SigintCb \/ Listens \/ UNCHANGED vars
  BY <1>6, <1>7 DEF SigintCb, Listens, vars
<1> QED BY <1>1, <1>2, <1>3, <1>4, <1>5, <1>7 DEF Next, Server, Env

\* No write fails in 05-tcp-echo-server as long as every client waits for its echo
\* before it ends (write_cb, main.c:76), however reads, writes, callbacks and any
\* number of clients interleave.
THEOREM PatientClientsAreServed == Spec => []WritesSucceed
<1>1. EchoInv => WritesSucceed
  BY DEF EchoInv
<1> QED BY <1>1, InitIInv, Inductive, EchoInitially, EchoInductive, PTL DEF Spec

-----------------------------------------------------------------------------
(* The servers implement Echo.                                              *)

LEMMA EchoInitImplements == Init => AbstractEcho!Init
<1> SUFFICES ASSUME Init PROVE AbstractEcho!Init
  OBVIOUS
<1>1. sent = [c \in Conns |-> 0] /\ got = [c \in Conns |-> << >>]
  BY DEF Init, StreamsInit
<1>2. \A c \in Conns : Echoed(c) = << >>
  BY <1>1, DataNone DEF Echoed
<1> QED BY <1>1, <1>2 DEF AbstractEcho!Init

\* A client that takes bytes has then got more of what it sent, or more junk.
LEMMA EchoStepImplements ==
  ASSUME IInv, EchoInv, EchoInv', [Next]_vars
  PROVE  [\E c \in Conns : AbstractEcho!Send(c) \/ AbstractEcho!Return(c)]_<<sent, [c \in Conns |-> Echoed(c)]>>
<1> DEFINE bar == [c \in Conns |-> Echoed(c)]
<1>1. EchoTypes /\ \A c \in Conns : Connection(c) /\ Connection(c)'
  BY DEF EchoInv
<1>2. ASSUME UNCHANGED <<sent, got>> PROVE UNCHANGED <<sent, bar>>
  BY <1>2 DEF Echoed
<1>3. ASSUME NEW c \in Conns, ClientSends(c) PROVE AbstractEcho!Send(c)
  BY <1>3 DEF ClientSends, AbstractEcho!Send, Echoed, streamVars
<1>4. ASSUME NEW c \in Conns, Pollout(c) PROVE AbstractEcho!Return(c) \/ UNCHANGED <<sent, bar>>
  <2>1. CASE Refused(c)
    BY <1>2, <1>4, <2>1 DEF Pollout, Refused
  <2>2. CASE Taken(c)
    <3>1. /\ \A d \in Conns \ {c} : got'[d] = got[d]
          /\ \E p \in Piece : got'[c] = got[c] \o p
      BY <1>1, <2>2, TakenKeeps DEF EchoTypes
    <3>2. PICK p \in Piece : got'[c] = got[c] \o p
      BY <3>1
    <3>3. UNCHANGED <<sent, taken>>
      BY <1>4 DEF Pollout
    <3> DEFINE n == Len((Echoed(c))')
    <3>4. /\ Echoed(c) \in Seq(Nat) /\ Echoed(c) = Stream(Len(Echoed(c))) /\ (Echoed(c))' \in Seq(Nat)
          /\ (Echoed(c))' = Stream(n) /\ n <= taken[c] /\ taken[c] <= sent[c]
      BY <1>1, <3>3 DEF Connection, Returned, Stream
    <3>5. n \in Nat /\ Len(Echoed(c)) \in Nat /\ taken[c] \in Nat /\ sent[c] \in Nat
      BY <1>1, <3>4, Lengths, Zenon DEF EchoTypes
    <3>6. Len(Echoed(c)) <= n
      <4>1. got[c] \in Seq(Nat) /\ p \in Seq(Nat)
        BY <1>1 DEF EchoTypes, Streams, Piece, Bytes
      <4>2. (Echoed(c))' = Echoed(c) \o Data(p) /\ Data(p) \in Seq(Nat)
        BY <3>2, <4>1, DataConcat, DataType DEF Echoed
      <4>3. n = Len(Echoed(c)) + Len(Data(p)) /\ Len(Data(p)) \in Nat
        BY <3>4, <4>2, Lengths, Zenon
      <4> QED BY <3>5, <4>3
    <3>7. bar' = [bar EXCEPT ![c] = Stream(n)]
      <4>1. \A d \in Conns \ {c} : (Echoed(d))' = Echoed(d)
        BY <3>1 DEF Echoed
      <4>2. bar' = [d \in Conns |-> (Echoed(d))']
        OBVIOUS
      <4> HIDE DEF n
      <4> QED BY <3>4, <4>1, <4>2
    <3>8. bar[c] = Echoed(c)
      OBVIOUS
    <3> HIDE DEF n
    <3>9. CASE n = Len(Echoed(c))
      <4>1. bar' = bar
        BY <3>4, <3>7, <3>8, <3>9
      <4> QED BY <3>3, <4>1
    <3>10. CASE n # Len(Echoed(c))
      <4>1. n \in (Len(bar[c]) + 1)..sent[c]
        BY <3>4, <3>5, <3>6, <3>8, <3>10
      <4> QED BY <3>3, <3>7, <4>1 DEF AbstractEcho!Return, AbstractEcho!Stream, Stream
    <3> QED BY <3>9, <3>10
  <2> QED BY <1>4, <2>1, <2>2 DEF Pollout
<1>5. ASSUME NEW c \in Conns, OnData(c) \/ OnNothing(c) \/ OnEnd(c) PROVE UNCHANGED <<sent, got>>
  BY <1>5 DEF OnData, OnNothing, OnEnd, ReadCb, TcpReadCb, PipeReadCb, Write, Close, UvWrite, UvClose, streamVars
<1>6. ASSUME NEW c \in Conns, OnConnection(c) \/ WriteCb(c) \/ ClientEnds(c) PROVE UNCHANGED <<sent, got>>
  BY <1>6 DEF OnConnection, WriteCb, CalledBack, ClientEnds, streamVars
<1>7. ASSUME SigintCb \/ Listens \/ UNCHANGED vars PROVE UNCHANGED <<sent, got>>
  BY <1>7 DEF SigintCb, Listens, vars, streamVars
<1> HIDE DEF bar
<1>8. (\E c \in Conns : AbstractEcho!Send(c) \/ AbstractEcho!Return(c)) \/ UNCHANGED <<sent, bar>>
  BY <1>2, <1>3, <1>4, <1>5, <1>6, <1>7 DEF Next, Server, Env
<1> QED BY <1>8 DEF bar

\* Whatever the client does, and however the bytes are read, written and taken in
\* pieces: what comes back is, junk aside, a prefix of what was sent that only grows.
THEOREM ServersEcho == Spec => ImplementsEcho
<1>1. EchoInv /\ EchoInv' /\ IInv /\ [Next]_vars =>
        [\E c \in Conns : AbstractEcho!Send(c) \/ AbstractEcho!Return(c)]_<<sent, [c \in Conns |-> Echoed(c)]>>
  BY EchoStepImplements
<1> QED BY <1>1, InitIInv, Inductive, EchoInitially, EchoInductive, EchoInitImplements, PTL
        DEF Spec, ImplementsEcho, AbstractEcho!Spec

=============================================================================
