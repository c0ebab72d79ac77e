--------------------------- MODULE StreamTheorems ---------------------------
(***************************************************************************)
(* What the proofs about streams need of sequences of sequences: what a    *)
(* stream's requests make up when they are flattened, and that nothing is  *)
(* lost between them.  FlattenSeq is defined by recursion; its facts are   *)
(* proved by looking at the least number for which one would fail.         *)
(***************************************************************************)
EXTENDS UvStream, Integers, SequenceTheorems, WellFoundedInduction, TLAPS

-----------------------------------------------------------------------------
(* Induction.                                                               *)

Below == {ss \in Nat \X Nat : ss[1] < ss[2]}

\* A set of numbers that is not empty has a least one.
LEMMA Least ==
  ASSUME NEW T, T \subseteq Nat, T # {}
  PROVE  \E x \in T : \A y \in T : x <= y
<1>1. IsWellFoundedOn(Below, Nat)
  BY NatLessThanWellFounded DEF OpToRel, Below
<1>2. PICK x \in T : \A y \in T : <<y, x>> \notin Below
  BY <1>1, WFMin
<1>3. \A y \in T : <<y, x>> \in Below <=> y < x
  BY DEF Below
<1>4. ASSUME NEW y \in T
      PROVE  x <= y
  <2>1. ~(y < x) /\ x \in Nat /\ y \in Nat
    BY <1>2, <1>3
  <2> QED BY <2>1
<1> QED BY <1>4

\* A set that has 1 and, with a number below n, the next one, has 1..n.
LEMMA Induction ==
  ASSUME NEW n \in Nat, NEW S, n > 0 => 1 \in S,
         \A i \in 1..(n - 1) : i \in S => i + 1 \in S
  PROVE  1..n \subseteq S
<1> DEFINE T == (1..n) \ S
<1> SUFFICES ASSUME T # {} PROVE FALSE
  OBVIOUS
<1>1. PICK x \in T : \A y \in T : x <= y
  <2>1. T \subseteq Nat
    OBVIOUS
  <2> HIDE DEF T
  <2> QED BY <2>1, Least
<1>2. x \in 1..n /\ x \notin S /\ x # 1
  OBVIOUS
<1>3. x - 1 \in 1..(n - 1) /\ x - 1 < x /\ (x - 1) + 1 = x
  BY <1>2
<1>4. x - 1 \in S
  BY <1>1, <1>3
<1> QED BY <1>2, <1>3, <1>4

-----------------------------------------------------------------------------
(* Flattening.                                                              *)

\* The recursive function of FlattenSeq, for the first n of s.
Flat(f, s, n) == f = [i \in 1..n |-> IF i = 1 THEN s[i] ELSE f[i - 1] \o s[i]]
FlatSteps(s, n) == CHOOSE f : Flat(f, s, n)

LEMMA FlattenIsFlatSteps ==
  ASSUME NEW s
  PROVE  FlattenSeq(s) = IF Len(s) = 0 THEN s ELSE FlatSteps(s, Len(s))[Len(s)]
BY DEF FlattenSeq, FlatSteps, Flat

LEMMA FlatExists ==
  ASSUME NEW n \in Nat, NEW s
  PROVE  \E f : Flat(f, s, n)
<1> DEFINE S == {m \in 1..n : \E f : Flat(f, s, m)}
<1>1. n > 0 => 1 \in S
  <2>1. Flat([i \in 1..1 |-> s[1]], s, 1)
    BY DEF Flat
  <2> QED BY <2>1
<1>2. ASSUME NEW m \in 1..(n - 1), m \in S
      PROVE  m + 1 \in S
  <2>1. PICK f : Flat(f, s, m)
    BY <1>2
  <2> DEFINE g == [i \in 1..(m + 1) |-> IF i = m + 1 THEN f[m] \o s[m + 1] ELSE f[i]]
  <2>2. f = [i \in 1..m |-> IF i = 1 THEN s[i] ELSE f[i - 1] \o s[i]]
    BY <2>1 DEF Flat
  <2>3. ASSUME NEW i \in 1..(m + 1)
        PROVE  g[i] = IF i = 1 THEN s[i] ELSE g[i - 1] \o s[i]
    <3>1. CASE i = m + 1
      <4>1. i # 1 /\ i - 1 = m /\ m \in 1..(m + 1) /\ m # m + 1
        BY <3>1
      <4> QED BY <3>1, <4>1
    <3>2. CASE i # m + 1
      <4>1. i \in 1..m /\ (i # 1 => i - 1 \in 1..(m + 1) /\ i - 1 # m + 1)
        BY <3>2
      <4>2. g[i] = f[i] /\ f[i] = IF i = 1 THEN s[i] ELSE f[i - 1] \o s[i]
        BY <2>2, <3>2, <4>1
      <4> QED BY <4>1, <4>2
    <3> QED BY <3>1, <3>2
  <2>4. g = [i \in 1..(m + 1) |-> IF i = 1 THEN s[i] ELSE g[i - 1] \o s[i]]
    <3>1. g = [i \in 1..(m + 1) |-> g[i]]
      OBVIOUS
    <3> HIDE DEF g
    <3> QED BY <2>3, <3>1
  <2>5. m + 1 \in 1..n
    OBVIOUS
  <2> HIDE DEF g
  <2> QED BY <2>4, <2>5 DEF Flat
<1>3. 1..n \subseteq S
  <2> HIDE DEF S
  <2> QED BY <1>1, <1>2, Induction
<1>4. CASE n > 0
  BY <1>3, <1>4
<1>5. CASE n = 0
  <2>1. Flat([i \in 1..0 |-> s[1]], s, 0)
    BY DEF Flat
  <2> QED BY <1>5, <2>1
<1> QED BY <1>4, <1>5

LEMMA FlatStepsIsFlat ==
  ASSUME NEW n \in Nat, NEW s
  PROVE  Flat(FlatSteps(s, n), s, n)
BY FlatExists, Zenon DEF FlatSteps

LEMMA FlatAt ==
  ASSUME NEW f, NEW s, NEW n, Flat(f, s, n), NEW i \in 1..n
  PROVE  f[i] = IF i = 1 THEN s[i] ELSE f[i - 1] \o s[i]
<1> DEFINE g == [j \in 1..n |-> IF j = 1 THEN s[j] ELSE f[j - 1] \o s[j]]
<1>1. f = g
  BY Zenon DEF Flat
<1>2. g[i] = IF i = 1 THEN s[i] ELSE f[i - 1] \o s[i]
  OBVIOUS
<1> HIDE DEF g
<1> QED BY <1>1, <1>2, Zenon

LEMMA FlatType ==
  ASSUME NEW S, NEW s \in Seq(Seq(S)), NEW f, Flat(f, s, Len(s))
  PROVE  \A i \in 1..Len(s) : f[i] \in Seq(S)
<1> DEFINE T == {i \in 1..Len(s) : f[i] \in Seq(S)}
<1>1. \A i \in 1..Len(s) : s[i] \in Seq(S) /\ f[i] = IF i = 1 THEN s[i] ELSE f[i - 1] \o s[i]
  BY ElementOfSeq DEF Flat
<1>2. Len(s) \in Nat /\ (Len(s) > 0 => 1 \in T)
  BY <1>1
<1>3. ASSUME NEW i \in 1..(Len(s) - 1), i \in T
      PROVE  i + 1 \in T
  <2>1. i + 1 \in 1..Len(s) /\ i + 1 # 1 /\ (i + 1) - 1 = i
    BY <1>2
  <2>2. f[i + 1] = f[i] \o s[i + 1] /\ f[i] \in Seq(S) /\ s[i + 1] \in Seq(S)
    BY <1>1, <1>3, <2>1
  <2>3. f[i + 1] \in Seq(S)
    BY <2>2, ConcatProperties
  <2> QED BY <2>1, <2>3
<1>4. 1..Len(s) \subseteq T
  <2> HIDE DEF T
  <2> QED BY <1>2, <1>3, Induction
<1> QED BY <1>4

LEMMA FlattenType ==
  ASSUME NEW S, NEW s \in Seq(Seq(S))
  PROVE  FlattenSeq(s) \in Seq(S)
<1>1. CASE Len(s) = 0
  <2>1. s = << >> /\ << >> \in Seq(S)
    BY <1>1, EmptySeq
  <2>2. FlattenSeq(s) = s
    BY <1>1, FlattenIsFlatSteps
  <2> QED BY <2>1, <2>2
<1>2. CASE Len(s) # 0
  <2>1. Len(s) \in Nat /\ Len(s) \in 1..Len(s) /\ Flat(FlatSteps(s, Len(s)), s, Len(s))
    BY <1>2, FlatStepsIsFlat
  <2>2. FlatSteps(s, Len(s))[Len(s)] \in Seq(S)
    BY <2>1, FlatType
  <2> QED BY <1>2, <2>2, FlattenIsFlatSteps
<1> QED BY <1>1, <1>2

\* Three parts make up the same whichever two are joined first.
JoinsIn(S) == \A a, b, d \in Seq(S) : (a \o b) \o d = a \o (b \o d)

LEMMA JoinAssociative == ASSUME NEW S PROVE JoinsIn(S)
BY ConcatAssociative DEF JoinsIn

LEMMA BytesJoin == JoinsIn(Nat)
BY JoinAssociative

\* The parts of two lists of requests are those of the one list they make up.
LEMMA FlattenConcat ==
  ASSUME NEW S, NEW a \in Seq(Seq(S)), NEW b \in Seq(Seq(S))
  PROVE  FlattenSeq(a \o b) = FlattenSeq(a) \o FlattenSeq(b)
<1> DEFINE n == Len(a)  m == Len(b)  c == a \o b
           f == FlatSteps(a, n)  g == FlatSteps(b, m)  h == FlatSteps(c, n + m)
<1>0. JoinsIn(S)
  BY JoinAssociative
<1>1. /\ n \in Nat /\ m \in Nat /\ c \in Seq(Seq(S)) /\ Len(c) = n + m
      /\ \A i \in 1..n : c[i] = a[i] /\ a[i] \in Seq(S)
  BY ConcatProperties, ElementOfSeq
<1>2. ASSUME NEW j \in 1..m
      PROVE  c[n + j] = b[j] /\ b[j] \in Seq(S)
  <2>1. n + j \in 1..(n + m) /\ ~(n + j <= n) /\ (n + j) - n = j
    BY <1>1
  <2>2. \A i \in 1..(n + m) : c[i] = IF i <= n THEN a[i] ELSE b[i - n]
    BY ConcatProperties
  <2>3. b[j] \in Seq(S)
    BY ElementOfSeq
  <2> HIDE DEF n, c
  <2> QED BY <2>1, <2>2, <2>3
<1>3. Flat(f, a, n) /\ Flat(g, b, m) /\ Flat(h, c, n + m)
  BY <1>1, FlatStepsIsFlat
<1> HIDE DEF c, f, g, h
<1>4. /\ \A i \in 1..n : f[i] = IF i = 1 THEN a[i] ELSE f[i - 1] \o a[i]
      /\ \A i \in 1..m : g[i] = IF i = 1 THEN b[i] ELSE g[i - 1] \o b[i]
      /\ \A i \in 1..(n + m) : h[i] = IF i = 1 THEN c[i] ELSE h[i - 1] \o c[i]
  BY <1>3, FlatAt
<1>5. (\A i \in 1..n : f[i] \in Seq(S)) /\ (\A i \in 1..m : g[i] \in Seq(S))
  BY <1>3, FlatType
<1>6. \A i \in 1..n : h[i] = f[i]
  <2> DEFINE T == {i \in 1..n : h[i] = f[i]}
  <2>1. n > 0 => 1 \in T
    BY <1>1, <1>4
  <2>2. ASSUME NEW i \in 1..(n - 1), i \in T
        PROVE  i + 1 \in T
    <3>1. i + 1 \in 1..n /\ i + 1 \in 1..(n + m) /\ i + 1 # 1 /\ (i + 1) - 1 = i
      BY <1>1
    <3>2. h[i + 1] = h[i] \o c[i + 1] /\ f[i + 1] = f[i] \o a[i + 1] /\ c[i + 1] = a[i + 1]
      BY <1>1, <1>4, <3>1
    <3> QED BY <2>2, <3>1, <3>2
  <2>3. 1..n \subseteq T
    <3> HIDE DEF T
    <3> QED BY <1>1, <2>1, <2>2, Induction
  <2> QED BY <2>3
<1>7. ASSUME n > 0
      PROVE  \A j \in 1..m : h[n + j] = f[n] \o g[j]
  <2> DEFINE T == {j \in 1..m : h[n + j] = f[n] \o g[j]}
  <2>1. m > 0 => 1 \in T
    <3> SUFFICES ASSUME m > 0 PROVE 1 \in T
      OBVIOUS
    <3>1. n + 1 \in 1..(n + m) /\ n + 1 # 1 /\ (n + 1) - 1 = n /\ 1 \in 1..m /\ n \in 1..n
      <4>1. n \in Nat /\ m \in Nat /\ m > 0 /\ n > 0
        BY <1>1, <1>7
      <4> HIDE DEF n, m
      <4> QED BY <4>1
    <3>2. h[n + 1] = h[n] \o c[n + 1] /\ c[n + 1] = b[1] /\ g[1] = b[1] /\ h[n] = f[n]
      BY <1>2, <1>4, <1>6, <3>1
    <3> QED BY <3>1, <3>2
  <2>2. ASSUME NEW j \in 1..(m - 1), j \in T
        PROVE  j + 1 \in T
    <3>1. /\ j + 1 \in 1..m /\ n + (j + 1) \in 1..(n + m) /\ n + (j + 1) # 1
          /\ (n + (j + 1)) - 1 = n + j /\ j + 1 # 1 /\ (j + 1) - 1 = j /\ n \in 1..n
          /\ j \in 1..m
      <4>1. n \in Nat /\ m \in Nat /\ n > 0 /\ j \in 1..(m - 1)
        BY <1>1, <1>7
      <4> HIDE DEF n, m
      <4> QED BY <4>1
    <3>2. /\ h[n + (j + 1)] = h[n + j] \o c[n + (j + 1)] /\ c[n + (j + 1)] = b[j + 1]
          /\ g[j + 1] = g[j] \o b[j + 1]
      BY <1>2, <1>4, <3>1
    <3>3. f[n] \in Seq(S) /\ g[j] \in Seq(S) /\ b[j + 1] \in Seq(S)
      BY <1>2, <1>5, <3>1
    <3>4. h[n + j] = f[n] \o g[j]
      BY <2>2
    <3>5. (f[n] \o g[j]) \o b[j + 1] = f[n] \o (g[j] \o b[j + 1])
      BY <1>0, <3>3, Zenon DEF JoinsIn
    <3>6. h[n + (j + 1)] = f[n] \o g[j + 1]
      BY <3>2, <3>4, <3>5, Zenon
    <3> QED BY <3>1, <3>6
  <2>3. 1..m \subseteq T
    <3> HIDE DEF T
    <3> QED BY <1>1, <2>1, <2>2, Induction
  <2> QED BY <2>3
<1>8. /\ FlattenSeq(a) = IF n = 0 THEN a ELSE f[n]
      /\ FlattenSeq(b) = IF m = 0 THEN b ELSE g[m]
      /\ FlattenSeq(c) = IF n + m = 0 THEN c ELSE h[n + m]
  BY <1>1, FlattenIsFlatSteps DEF f, g, h
<1>9. FlattenSeq(a) \in Seq(S) /\ FlattenSeq(b) \in Seq(S)
  BY FlattenType
<1>10. CASE n = 0
  <2>1. a = << >> /\ c = b
    BY <1>10, ConcatEmptySeq DEF c
  <2>2. FlattenSeq(a) = << >>
    BY <1>8, <1>10, <2>1
  <2>3. << >> \o FlattenSeq(b) = FlattenSeq(b)
    BY <1>9, ConcatEmptySeq
  <2> QED BY <2>1, <2>2, <2>3 DEF c
<1>11. CASE n > 0 /\ m = 0
  <2>1. b = << >> /\ c = a
    BY <1>11, ConcatEmptySeq DEF c
  <2>2. FlattenSeq(b) = << >>
    BY <1>8, <1>11, <2>1
  <2>3. FlattenSeq(a) \o << >> = FlattenSeq(a)
    BY <1>9, ConcatEmptySeq
  <2> QED BY <2>1, <2>2, <2>3 DEF c
<1>12. CASE n > 0 /\ m > 0
  <2>1. n + m # 0 /\ m \in 1..m
    BY <1>1, <1>12
  <2>2. h[n + m] = f[n] \o g[m]
    BY <1>7, <1>12, <2>1
  <2>3. n # 0 /\ m # 0
    BY <1>1, <1>12
  <2> HIDE DEF n, m
  <2>4. FlattenSeq(a) = f[n] /\ FlattenSeq(b) = g[m] /\ FlattenSeq(c) = h[n + m]
    BY <1>8, <2>1, <2>3, Zenon
  <2> QED BY <2>2, <2>4 DEF c
<1>13. n = 0 \/ (n > 0 /\ m = 0) \/ (n > 0 /\ m > 0)
  BY <1>1
<1> QED BY <1>10, <1>11, <1>12, <1>13, Zenon

\* One request is its own bytes, none are none.
LEMMA FlattenOne ==
  ASSUME NEW x
  PROVE  FlattenSeq(<<x>>) = x /\ FlattenSeq(<< >>) = << >>
<1>1. Len(<<x>>) = 1 /\ <<x>>[1] = x /\ 1 \in 1..1
  OBVIOUS
<1>2. Flat(FlatSteps(<<x>>, 1), <<x>>, 1)
  BY FlatStepsIsFlat
<1>3. FlatSteps(<<x>>, 1)[1] = <<x>>[1]
  BY <1>1, <1>2 DEF Flat
<1>4. FlattenSeq(<<x>>) = IF Len(<<x>>) = 0 THEN <<x>> ELSE FlatSteps(<<x>>, Len(<<x>>))[Len(<<x>>)]
  BY FlattenIsFlatSteps
<1>5. FlattenSeq(<<x>>) = x
  BY <1>1, <1>3, <1>4
<1>6. FlattenSeq(<< >>) = IF Len(<< >>) = 0 THEN << >> ELSE FlatSteps(<< >>, Len(<< >>))[Len(<< >>)]
  BY FlattenIsFlatSteps
<1>7. Len(<< >>) = 0
  OBVIOUS
<1> QED BY <1>5, <1>6, <1>7

LEMMA FlattenNone ==
  /\ FlattenSeq(<< >>) = << >>
  /\ \A S : \A a \in Seq(S) : a \o FlattenSeq(<< >>) = a
<1>1. FlattenSeq(<< >>) = << >>
  BY FlattenOne
<1>2. \A S : \A a \in Seq(S) : a \o << >> = a
  BY ConcatEmptySeq
<1> QED BY <1>1, <1>2

\* A request more adds its bytes.
LEMMA FlattenAppend ==
  ASSUME NEW S, NEW a \in Seq(Seq(S)), NEW x \in Seq(S)
  PROVE  FlattenSeq(Append(a, x)) = FlattenSeq(a) \o x
<1>1. Append(a, x) = a \o <<x>> /\ <<x>> \in Seq(Seq(S))
  BY AppendIsConcat
<1>2. FlattenSeq(a \o <<x>>) = FlattenSeq(a) \o FlattenSeq(<<x>>)
  BY <1>1, FlattenConcat
<1>3. FlattenSeq(<<x>>) = x
  BY FlattenOne
<1> QED BY <1>1, <1>2, <1>3

\* The oldest request comes first.
LEMMA FlattenHead ==
  ASSUME NEW S, NEW a \in Seq(Seq(S)), a # << >>
  PROVE  /\ FlattenSeq(a) = Head(a) \o FlattenSeq(Tail(a))
         /\ Head(a) \in Seq(S) /\ Tail(a) \in Seq(Seq(S))
<1>1. Head(a) \in Seq(S) /\ Tail(a) \in Seq(Seq(S)) /\ <<Head(a)>> \in Seq(Seq(S))
  BY HeadTailProperties
<1>2. a = <<Head(a)>> \o Tail(a)
  OBVIOUS
<1>3. FlattenSeq(<<Head(a)>> \o Tail(a)) = FlattenSeq(<<Head(a)>>) \o FlattenSeq(Tail(a))
  BY <1>1, FlattenConcat
<1>4. FlattenSeq(<<Head(a)>>) = Head(a)
  BY FlattenOne
<1>5. FlattenSeq(a) = FlattenSeq(<<Head(a)>> \o Tail(a))
  BY <1>2
<1> QED BY <1>1, <1>3, <1>4, <1>5

-----------------------------------------------------------------------------
(* The streams of D, on which every request has bytes.                      *)

Bytes == Seq(Nat)
Piece == Bytes \ {<< >>}
Codes == {"0", "UV_ECANCELED", "UV_EPIPE"}

Streams(D) ==
  /\ outq \in [D -> Seq(Piece)] /\ calls \in [D -> Seq(Codes)] /\ got \in [D -> Bytes]

LEMMA Lengths ==
  \A a, b \in Seq(Nat) : Len(a) \in Nat /\ a \o b \in Seq(Nat) /\ Len(a \o b) = Len(a) + Len(b)
BY ConcatProperties

LEMMA PiecesAreBytes ==
  ASSUME NEW a \in Seq(Piece)
  PROVE  a \in Seq(Seq(Nat)) /\ FlattenSeq(a) \in Seq(Nat)
<1>1. a \in Seq(Seq(Nat))
  BY DEF Piece, Bytes
<1> QED BY <1>1, FlattenType

\* Where the bytes of a stream are.
LEMMA WrittenType ==
  ASSUME NEW D, Streams(D), NEW s \in D
  PROVE  /\ got[s] \in Seq(Nat) /\ outq[s] \in Seq(Seq(Nat)) /\ FlattenSeq(outq[s]) \in Seq(Nat)
         /\ Written(s) \in Seq(Nat) /\ Len(Written(s)) = Len(got[s]) + Len(FlattenSeq(outq[s]))
<1>1. got[s] \in Seq(Nat) /\ outq[s] \in Seq(Piece)
  BY DEF Streams, Bytes
<1>2. outq[s] \in Seq(Seq(Nat)) /\ FlattenSeq(outq[s]) \in Seq(Nat)
  BY <1>1, PiecesAreBytes
<1>3. /\ got[s] \o FlattenSeq(outq[s]) \in Seq(Nat)
      /\ Len(got[s] \o FlattenSeq(outq[s])) = Len(got[s]) + Len(FlattenSeq(outq[s]))
  BY <1>1, <1>2, ConcatProperties
<1> QED BY <1>1, <1>2, <1>3 DEF Written

\* A stream with a queued request has bytes that did not arrive.
LEMMA QueuedIsBehind ==
  ASSUME NEW D, Streams(D), NEW s \in D, outq[s] # << >>
  PROVE  Len(got[s]) < Len(Written(s))
<1>1. /\ got[s] \in Seq(Nat) /\ outq[s] \in Seq(Seq(Nat))
      /\ Len(Written(s)) = Len(got[s]) + Len(FlattenSeq(outq[s]))
  BY WrittenType
<1>2. /\ FlattenSeq(outq[s]) = Head(outq[s]) \o FlattenSeq(Tail(outq[s]))
      /\ Tail(outq[s]) \in Seq(Seq(Nat))
  BY <1>1, FlattenHead
<1>3. Head(outq[s]) \in Seq(Nat) /\ Head(outq[s]) # << >>
  <2>1. outq[s] \in Seq(Piece)
    BY DEF Streams
  <2>2. Head(outq[s]) \in Piece
    BY <2>1, HeadTailProperties
  <2> QED BY <2>2 DEF Piece, Bytes
<1>4. FlattenSeq(Tail(outq[s])) \in Seq(Nat)
  BY <1>2, FlattenType
<1>5. Len(FlattenSeq(outq[s])) = Len(Head(outq[s])) + Len(FlattenSeq(Tail(outq[s])))
  BY <1>2, <1>3, <1>4, ConcatProperties
<1>6. Len(Head(outq[s])) \in Nat \ {0} /\ Len(FlattenSeq(Tail(outq[s]))) \in Nat /\ Len(got[s]) \in Nat
  BY <1>1, <1>3, <1>4
<1>7. \A x, y, z \in Nat : y # 0 => x < x + (y + z)
  OBVIOUS
<1> QED BY <1>1, <1>5, <1>6, <1>7

\* uv_write: the bytes come after all that is written.
LEMMA WriteAdds ==
  ASSUME NEW D, Streams(D), NEW S, NEW b \in Piece, UvWrite(S, b)
  PROVE  /\ Streams(D)' /\ UNCHANGED <<calls, got>>
         /\ \A s \in D : (Written(s))' = IF s \in S THEN Written(s) \o b ELSE Written(s)
         /\ \A s \in D : outq'[s] = IF s \in S THEN Append(outq[s], b) ELSE outq[s]
<1>1. /\ outq' = [s \in D |-> IF s \in S THEN Append(outq[s], b) ELSE outq[s]]
      /\ UNCHANGED <<calls, got>>
  BY DEF UvWrite, Streams
<1>2. ASSUME NEW s \in D
      PROVE  Append(outq[s], b) \in Seq(Piece) /\ outq[s] \in Seq(Piece)
  BY DEF Streams
<1>3. Streams(D)'
  <2>1. outq' \in [D -> Seq(Piece)]
    BY <1>1, <1>2
  <2> QED BY <1>1, <2>1 DEF Streams
<1>4. ASSUME NEW s \in D
      PROVE  (Written(s))' = IF s \in S THEN Written(s) \o b ELSE Written(s)
  <2>1. CASE s \in S
    <3>1. /\ got[s] \in Seq(Nat) /\ outq[s] \in Seq(Seq(Nat)) /\ FlattenSeq(outq[s]) \in Seq(Nat)
          /\ b \in Seq(Nat)
      BY WrittenType DEF Piece, Bytes
    <3>2. FlattenSeq(Append(outq[s], b)) = FlattenSeq(outq[s]) \o b
      BY <3>1, FlattenAppend
    <3>3. got[s] \o (FlattenSeq(outq[s]) \o b) = (got[s] \o FlattenSeq(outq[s])) \o b
      BY <3>1, BytesJoin DEF JoinsIn
    <3>4. got'[s] = got[s] /\ outq'[s] = Append(outq[s], b)
      BY <1>1, <2>1
    <3> QED BY <2>1, <3>2, <3>3, <3>4 DEF Written
  <2>2. CASE s \notin S
    BY <1>1, <2>2 DEF Written
  <2> QED BY <2>1, <2>2
<1> QED BY <1>1, <1>3, <1>4

\* uv_close: of a stream where nothing waits, nothing changes.
LEMMA CloseCancels ==
  ASSUME NEW D, Streams(D), NEW S, UvClose(S)
  PROVE  /\ Streams(D)' /\ UNCHANGED got
         /\ \A s \in D \cap S : outq'[s] = << >> /\ (Written(s))' = got[s]
         /\ \A s \in D : s \notin S \/ outq[s] = << >> =>
              outq'[s] = outq[s] /\ calls'[s] = calls[s] /\ (Written(s))' = Written(s)
         /\ \A s \in D \cap S : \A k \in DOMAIN calls'[s] :
              \/ k \in DOMAIN calls[s] /\ calls'[s][k] = calls[s][k]
              \/ calls'[s][k] = "UV_ECANCELED" /\ outq[s] # << >>
         /\ \A s \in D \cap S : outq[s] # << >> =>
              \E k \in DOMAIN calls'[s] : calls'[s][k] = "UV_ECANCELED"
<1>1. /\ outq' = [s \in D |-> IF s \in S THEN << >> ELSE outq[s]]
      /\ calls' = [s \in D |-> IF s \in S THEN calls[s] \o [k \in DOMAIN outq[s] |-> "UV_ECANCELED"]
                                          ELSE calls[s]]
      /\ UNCHANGED got
  BY DEF UvClose, Streams
<1>2. ASSUME NEW s \in D
      PROVE  LET n == Len(outq[s])
                 more == [k \in 1..n |-> "UV_ECANCELED"]
             IN  /\ n \in Nat /\ DOMAIN outq[s] = 1..n /\ outq[s] \in Seq(Piece)
                 /\ (n = 0 <=> outq[s] = << >>) /\ calls[s] \in Seq(Codes)
                 /\ more \in Seq(Codes) /\ Len(more) = n
  BY DEF Streams, Codes
<1>3. ASSUME NEW s \in D, NEW m, m = [k \in DOMAIN outq[s] |-> "UV_ECANCELED"]
      PROVE  /\ m \in Seq(Codes) /\ calls[s] \o m \in Seq(Codes)
             /\ Len(m) = Len(outq[s]) /\ (outq[s] = << >> => m = << >> /\ calls[s] \o m = calls[s])
             /\ \A k \in DOMAIN (calls[s] \o m) :
                  \/ k \in DOMAIN calls[s] /\ (calls[s] \o m)[k] = calls[s][k]
                  \/ (calls[s] \o m)[k] = "UV_ECANCELED" /\ outq[s] # << >>
             /\ outq[s] # << >> =>
                  \E k \in DOMAIN (calls[s] \o m) : (calls[s] \o m)[k] = "UV_ECANCELED"
  <2>1. /\ m \in Seq(Codes) /\ Len(m) = Len(outq[s]) /\ calls[s] \in Seq(Codes)
        /\ \A k \in 1..Len(m) : m[k] = "UV_ECANCELED"
        /\ Len(outq[s]) \in Nat /\ (Len(outq[s]) = 0 <=> outq[s] = << >>)
    BY <1>2, <1>3
  <2>2. outq[s] = << >> => m = << >>
    BY <2>1
  <2>3. calls[s] \o << >> = calls[s]
    BY <2>1
  <2>4. /\ calls[s] \o m \in Seq(Codes) /\ Len(calls[s] \o m) = Len(calls[s]) + Len(m)
        /\ DOMAIN (calls[s] \o m) = 1..(Len(calls[s]) + Len(m)) /\ DOMAIN calls[s] = 1..Len(calls[s])
        /\ Len(calls[s]) \in Nat /\ Len(m) \in Nat
        /\ \A k \in 1..(Len(calls[s]) + Len(m)) :
             (calls[s] \o m)[k] = IF k <= Len(calls[s]) THEN calls[s][k] ELSE m[k - Len(calls[s])]
    <3> DEFINE a == calls[s]
    <3>1. a \in Seq(Codes) /\ m \in Seq(Codes)
      BY <2>1
    <3> HIDE DEF a
    <3>2. a \o m \in Seq(Codes) /\ Len(a \o m) = Len(a) + Len(m)
      BY <3>1, ConcatProperties
    <3>3. /\ DOMAIN (a \o m) = 1..Len(a \o m) /\ DOMAIN a = 1..Len(a)
          /\ Len(a) \in Nat /\ Len(m) \in Nat
      BY <3>1, <3>2
    <3>4. \A k \in 1..(Len(a) + Len(m)) :
            (a \o m)[k] = IF k <= Len(a) THEN a[k] ELSE m[k - Len(a)]
      BY <3>1, ConcatProperties
    <3> QED BY <3>2, <3>3, <3>4 DEF a
  <2>5. ASSUME NEW k \in DOMAIN (calls[s] \o m)
        PROVE  \/ k \in DOMAIN calls[s] /\ (calls[s] \o m)[k] = calls[s][k]
               \/ (calls[s] \o m)[k] = "UV_ECANCELED" /\ outq[s] # << >>
    <3>1. CASE k <= Len(calls[s])
      BY <2>4, <3>1
    <3>2. CASE ~(k <= Len(calls[s]))
      <4>1. k - Len(calls[s]) \in 1..Len(m) /\ Len(m) # 0
        BY <2>4, <3>2
      <4> QED BY <2>1, <2>4, <3>2, <4>1
    <3> QED BY <3>1, <3>2
  <2>6. ASSUME outq[s] # << >>
        PROVE  \E k \in DOMAIN (calls[s] \o m) : (calls[s] \o m)[k] = "UV_ECANCELED"
    <3>1. \A x, y \in Nat : y # 0 =>
            x + 1 \in 1..(x + y) /\ ~(x + 1 <= x) /\ (x + 1) - x = 1 /\ 1 \in 1..y
      OBVIOUS
    <3>2. Len(m) # 0 /\ Len(m) \in Nat /\ Len(calls[s]) \in Nat
      BY <2>1, <2>4, <2>6
    <3>3. /\ Len(calls[s]) + 1 \in 1..(Len(calls[s]) + Len(m)) /\ ~(Len(calls[s]) + 1 <= Len(calls[s]))
          /\ (Len(calls[s]) + 1) - Len(calls[s]) = 1 /\ 1 \in 1..Len(m)
      BY <3>1, <3>2, Zenon
    <3> QED BY <2>1, <2>4, <3>3
  <2> QED BY <2>1, <2>2, <2>3, <2>4, <2>5, <2>6
<1>4. Streams(D)'
  <2>1. << >> \in Seq(Piece)
    OBVIOUS
  <2>2. outq' \in [D -> Seq(Piece)]
    BY <1>1, <1>2, <2>1
  <2>3. calls' \in [D -> Seq(Codes)]
    BY <1>1, <1>2, <1>3
  <2> QED BY <1>1, <2>2, <2>3 DEF Streams
<1>5. ASSUME NEW s \in D, s \notin S \/ outq[s] = << >>
      PROVE  outq'[s] = outq[s] /\ calls'[s] = calls[s] /\ (Written(s))' = Written(s)
  BY <1>1, <1>3, <1>5 DEF Written
<1>6. \A s \in D \cap S : /\ outq'[s] = << >>
                         /\ calls'[s] = calls[s] \o [k \in DOMAIN outq[s] |-> "UV_ECANCELED"]
  BY <1>1
<1>7. ASSUME NEW s \in D \cap S
      PROVE  /\ \A k \in DOMAIN calls'[s] :
                  \/ k \in DOMAIN calls[s] /\ calls'[s][k] = calls[s][k]
                  \/ calls'[s][k] = "UV_ECANCELED" /\ outq[s] # << >>
             /\ outq[s] # << >> => \E k \in DOMAIN calls'[s] : calls'[s][k] = "UV_ECANCELED"
  <2> DEFINE m == [k \in DOMAIN outq[s] |-> "UV_ECANCELED"]
  <2>1. calls'[s] = calls[s] \o m /\ s \in D
    BY <1>6
  <2>2. m = [k \in DOMAIN outq[s] |-> "UV_ECANCELED"]
    OBVIOUS
  <2> HIDE DEF m
  <2>3. /\ \A k \in DOMAIN (calls[s] \o m) :
             \/ k \in DOMAIN calls[s] /\ (calls[s] \o m)[k] = calls[s][k]
             \/ (calls[s] \o m)[k] = "UV_ECANCELED" /\ outq[s] # << >>
        /\ outq[s] # << >> => \E k \in DOMAIN (calls[s] \o m) : (calls[s] \o m)[k] = "UV_ECANCELED"
    BY <1>3, <2>1, <2>2
  <2> QED BY <2>1, <2>3
<1>8. ASSUME NEW s \in D \cap S
      PROVE  (Written(s))' = got[s]
  <2>1. (Written(s))' = got[s] \o FlattenSeq(<< >>)
    BY <1>1, <1>6 DEF Written
  <2>2. FlattenSeq(<< >>) = << >> /\ got[s] \in Seq(Nat)
    BY FlattenOne, WrittenType
  <2> QED BY <2>1, <2>2
<1> QED BY <1>1, <1>4, <1>5, <1>6, <1>7, <1>8

\* A callback more that is due.
LEMMA OneMoreCall ==
  ASSUME NEW a \in Seq(Codes), NEW e \in Codes
  PROVE  /\ Append(a, e) \in Seq(Codes) /\ Append(a, e) # << >>
         /\ DOMAIN Append(a, e) = DOMAIN a \cup {Len(a) + 1}
         /\ Append(a, e)[Len(a) + 1] = e
         /\ \A k \in DOMAIN a : Append(a, e)[k] = a[k]
<1>1. Append(a, e) \in Seq(Codes) /\ Len(Append(a, e)) = Len(a) + 1 /\ Len(a) \in Nat
  OBVIOUS
<1>2. DOMAIN Append(a, e) = 1..(Len(a) + 1) /\ DOMAIN a = 1..Len(a)
  BY <1>1
<1>3. \A k \in 1..(Len(a) + 1) : Append(a, e)[k] = IF k <= Len(a) THEN a[k] ELSE e
  OBVIOUS
<1> QED BY <1>1, <1>2, <1>3

\* A request that is cut in two leaves no part empty, and both make it up.
LEMMA CutPiece ==
  ASSUME NEW x \in Seq(Nat), NEW n \in 1..(Len(x) - 1)
  PROVE  /\ SubSeq(x, 1, n) \in Piece /\ SubSeq(x, n + 1, Len(x)) \in Piece
         /\ x = SubSeq(x, 1, n) \o SubSeq(x, n + 1, Len(x))
<1>1. Len(x) \in Nat /\ n \in Nat /\ 1 <= n /\ n < Len(x) /\ \A i \in 1..Len(x) : x[i] \in Nat
  OBVIOUS
<1>2. SubSeq(x, 1, n) \in Piece
  <2>1. \A i \in 1..n : x[i] \in Nat
    BY <1>1
  <2>2. SubSeq(x, 1, n) \in Seq(Nat) /\ Len(SubSeq(x, 1, n)) = n - 1 + 1
    BY <1>1, <2>1, SubSeqProperties
  <2>3. n - 1 + 1 # 0
    BY <1>1
  <2> QED BY <2>2, <2>3, EmptySeq DEF Piece, Bytes
<1>3. SubSeq(x, n + 1, Len(x)) \in Piece
  <2>1. (\A i \in (n + 1)..Len(x) : x[i] \in Nat) /\ n + 1 <= Len(x) /\ n + 1 \in Int
    BY <1>1
  <2>2. /\ SubSeq(x, n + 1, Len(x)) \in Seq(Nat)
        /\ Len(SubSeq(x, n + 1, Len(x))) = Len(x) - (n + 1) + 1
    BY <1>1, <2>1, SubSeqProperties
  <2>3. Len(x) - (n + 1) + 1 # 0
    BY <1>1
  <2> QED BY <2>2, <2>3, EmptySeq DEF Piece, Bytes
<1>4. SubSeq(x, 1, n) \o SubSeq(x, n + 1, Len(x)) = SubSeq(x, 1, Len(x))
  <2>1. 1 \in 1..(Len(x) + 1) /\ n \in (1 - 1)..Len(x) /\ Len(x) \in n..Len(x)
    BY <1>1
  <2> QED BY <2>1, ConcatAdjacentSubSeq
<1> QED BY <1>2, <1>3, <1>4, SubSeqFull

\* The kernel takes bytes from the queue: what is written stays the same.
LEMMA TakenKeeps ==
  ASSUME NEW D, Streams(D), NEW c \in D, Taken(c)
  PROVE  /\ Streams(D)' /\ outq[c] # << >>
         /\ \A s \in D : (Written(s))' = Written(s)
         /\ \A s \in D \ {c} : outq'[s] = outq[s] /\ calls'[s] = calls[s] /\ got'[s] = got[s]
         /\ calls'[c] \in {calls[c], Append(calls[c], "0")}
         /\ \E p \in Piece : got'[c] = got[c] \o p
<1> DEFINE q == outq[c]  x == Head(q)
<1>1. /\ q \in Seq(Piece) /\ q # << >> /\ calls[c] \in Seq(Codes) /\ got[c] \in Seq(Nat)
      /\ q \in Seq(Seq(Nat))
  BY WrittenType DEF Taken, Streams, Bytes
<1>2. /\ FlattenSeq(q) = x \o FlattenSeq(Tail(q)) /\ x \in Seq(Nat) /\ x = q[1] /\ 1 \in 1..Len(q)
      /\ Tail(q) \in Seq(Seq(Nat)) /\ Tail(q) \in Seq(Piece) /\ x \in Piece
      /\ FlattenSeq(Tail(q)) \in Seq(Nat)
  <2> HIDE DEF q
  <2>1. x = q[1] /\ 1 \in 1..Len(q) /\ Tail(q) \in Seq(Piece) /\ x \in Piece
    BY <1>1, HeadTailProperties
  <2>2. /\ FlattenSeq(q) = x \o FlattenSeq(Tail(q)) /\ x \in Seq(Nat)
        /\ Tail(q) \in Seq(Seq(Nat))
    BY <1>1, FlattenHead
  <2>3. FlattenSeq(Tail(q)) \in Seq(Nat)
    BY <2>2, FlattenType
  <2> QED BY <2>1, <2>2, <2>3
<1>4. CASE /\ got' = [got EXCEPT ![c] = @ \o x] /\ outq' = [outq EXCEPT ![c] = Tail(@)]
           /\ calls' = [calls EXCEPT ![c] = Append(@, "0")]
  <2>1. /\ got'[c] = got[c] \o x /\ outq'[c] = Tail(q) /\ calls'[c] = Append(calls[c], "0")
        /\ \A s \in D \ {c} : outq'[s] = outq[s] /\ calls'[s] = calls[s] /\ got'[s] = got[s]
    BY <1>4 DEF Streams
  <2>2. got[c] \o x \in Bytes /\ Append(calls[c], "0") \in Seq(Codes)
    <3>1. "0" \in Codes
      BY DEF Codes
    <3> HIDE DEF x
    <3> QED BY <1>1, <1>2, <3>1 DEF Bytes
  <2>3. Streams(D)'
    BY <1>2, <1>4, <2>2 DEF Streams
  <2>4. (Written(c))' = Written(c)
    <3> HIDE DEF q, x
    <3>1. (got[c] \o x) \o FlattenSeq(Tail(q)) = got[c] \o (x \o FlattenSeq(Tail(q)))
      BY <1>1, <1>2, BytesJoin DEF JoinsIn
    <3>2. Written(c) = got[c] \o FlattenSeq(q) /\ (Written(c))' = got'[c] \o FlattenSeq(outq'[c])
      BY DEF Written, q
    <3> QED BY <1>2, <2>1, <3>1, <3>2
  <2>5. \A s \in D \ {c} : (Written(s))' = Written(s)
    BY <2>1 DEF Written
  <2> QED BY <1>1, <1>2, <2>1, <2>3, <2>4, <2>5
<1>5. ASSUME NEW n \in 1..(Len(x) - 1), got' = [got EXCEPT ![c] = @ \o SubSeq(x, 1, n)],
             outq' = [outq EXCEPT ![c][1] = SubSeq(@, n + 1, Len(@))], UNCHANGED calls
      PROVE  /\ Streams(D)'
             /\ \A s \in D : (Written(s))' = Written(s)
             /\ \A s \in D \ {c} : outq'[s] = outq[s] /\ calls'[s] = calls[s] /\ got'[s] = got[s]
             /\ calls'[c] = calls[c]
             /\ \E p \in Piece : got'[c] = got[c] \o p
  <2> DEFINE y == SubSeq(x, 1, n)  z == SubSeq(x, n + 1, Len(x))  r == [q EXCEPT ![1] = z]
  <2>1. y \in Piece /\ z \in Piece /\ x = y \o z
    <3> HIDE DEF x
    <3> QED BY <1>2, <1>5, CutPiece
  <2>2. outq' = [outq EXCEPT ![c] = r]
    BY <1>2, <1>5
  <2>3. r \in Seq(Piece) /\ r # << >> /\ Head(r) = z /\ Tail(r) = Tail(q) /\ r \in Seq(Seq(Nat))
    <3> HIDE DEF q, x, z
    <3>1. r \in Seq(Piece) /\ Len(r) = Len(q) /\ r[1] = z /\ \A i \in 2..Len(q) : r[i] = q[i]
      <4>1. /\ r \in Seq(Piece) /\ Len(r) = Len(q)
            /\ \A j \in 1..Len(q) : r[j] = IF j = 1 THEN z ELSE q[j]
        <5>1. q \in Seq(Piece) /\ 1 \in 1..Len(q) /\ z \in Piece
          BY <1>1, <1>2, <2>1
        <5>2. \A e \in Piece : /\ [q EXCEPT ![1] = e] \in Seq(Piece)
                              /\ Len([q EXCEPT ![1] = e]) = Len(q)
                              /\ \A j \in 1..Len(q) : [q EXCEPT ![1] = e][j] = IF j = 1 THEN e ELSE q[j]
          BY <5>1, ExceptSeq
        <5> QED BY <5>1, <5>2
      <4>2. \A i \in 2..Len(q) : i \in 1..Len(q) /\ i # 1
        OBVIOUS
      <4> HIDE DEF r
      <4> QED BY <1>2, <4>1, <4>2
    <3>2. Len(q) \in Nat \ {0}
      BY <1>1
    <3> HIDE DEF r
    <3>3. r # << >> /\ Head(r) = z
      BY <3>1, <3>2
    <3>4. Tail(r) = Tail(q)
      <4>1. Tail(r) \in Seq(Piece) /\ Tail(q) \in Seq(Piece) /\ Len(Tail(r)) = Len(q) - 1 /\ Len(Tail(q)) = Len(q) - 1
        BY <1>1, <3>1, <3>3, HeadTailProperties
      <4>2. \A i \in 1..(Len(q) - 1) : Tail(r)[i] = r[i + 1] /\ Tail(q)[i] = q[i + 1] /\ i + 1 \in 2..Len(q)
        <5>1. \A i \in 1..Len(Tail(r)) : Tail(r)[i] = r[i + 1]
          BY <3>1, <3>3, HeadTailProperties, Zenon
        <5>2. \A i \in 1..Len(Tail(q)) : Tail(q)[i] = q[i + 1]
          BY <1>1, HeadTailProperties, Zenon
        <5>3. \A i \in 1..(Len(q) - 1) : i + 1 \in 2..Len(q)
          BY <3>2
        <5> QED BY <4>1, <5>1, <5>2, <5>3, Zenon
      <4>3. \A i \in 1..(Len(q) - 1) : Tail(r)[i] = Tail(q)[i]
        BY <3>1, <4>2, Zenon
      <4> HIDE DEF q
      <4> QED BY <4>1, <4>3, SeqEqual, Zenon
    <3> QED BY <3>1, <3>3, <3>4, PiecesAreBytes
  <2>4. FlattenSeq(r) = z \o FlattenSeq(Tail(q))
    <3> HIDE DEF r
    <3>1. FlattenSeq(r) = Head(r) \o FlattenSeq(Tail(r))
      BY <2>3, FlattenHead
    <3> QED BY <2>3, <3>1
  <2> HIDE DEF r, y, z
  <2>5. /\ got'[c] = got[c] \o y /\ outq'[c] = r /\ calls'[c] = calls[c]
        /\ \A s \in D \ {c} : outq'[s] = outq[s] /\ calls'[s] = calls[s] /\ got'[s] = got[s]
    BY <1>5, <2>2 DEF Streams, y
  <2>6. y \in Seq(Nat) /\ z \in Seq(Nat) /\ got[c] \o y \in Bytes
    BY <1>1, <2>1 DEF Piece, Bytes
  <2>7. Streams(D)'
    BY <1>5, <2>2, <2>3, <2>6 DEF Streams, y
  <2>8. (Written(c))' = Written(c)
    <3> DEFINE t == FlattenSeq(Tail(q))
    <3>1. t \in Seq(Nat) /\ got[c] \in Seq(Nat)
      BY <1>1, <1>2
    <3>2. Written(c) = got[c] \o FlattenSeq(q) /\ (Written(c))' = got'[c] \o FlattenSeq(outq'[c])
      BY DEF Written, q
    <3>3. FlattenSeq(q) = x \o t /\ FlattenSeq(outq'[c]) = z \o t
      BY <1>2, <2>4, <2>5
    <3> HIDE DEF q, x, t
    <3>4. z \o t \in Seq(Nat)
      BY <2>6, <3>1, ConcatProperties
    <3>5. (got[c] \o y) \o (z \o t) = got[c] \o (y \o (z \o t))
      <4> DEFINE u == z \o t  g == got[c]
      <4>1. u \in Seq(Nat) /\ g \in Seq(Nat) /\ y \in Seq(Nat)
        BY <2>6, <3>1, <3>4, Zenon
      <4> HIDE DEF u, g
      <4>2. (g \o y) \o u = g \o (y \o u)
        BY <4>1, BytesJoin, Zenon DEF JoinsIn
      <4> QED BY <4>2, Zenon DEF u, g
    <3>6. (y \o z) \o t = y \o (z \o t)
      BY <2>6, <3>1, BytesJoin DEF JoinsIn
    <3> QED BY <2>1, <2>5, <3>2, <3>3, <3>5, <3>6, Zenon
  <2>9. \A s \in D \ {c} : (Written(s))' = Written(s)
    BY <2>5 DEF Written
  <2> QED BY <2>1, <2>5, <2>7, <2>8, <2>9
<1>6. \/ /\ got' = [got EXCEPT ![c] = @ \o x] /\ outq' = [outq EXCEPT ![c] = Tail(@)]
         /\ calls' = [calls EXCEPT ![c] = Append(@, "0")]
      \/ \E n \in 1..(Len(x) - 1) :
           /\ got' = [got EXCEPT ![c] = @ \o SubSeq(x, 1, n)]
           /\ outq' = [outq EXCEPT ![c][1] = SubSeq(@, n + 1, Len(@))]
           /\ UNCHANGED calls
  BY DEF Taken
<1> HIDE DEF q, x
<1> QED BY <1>1, <1>4, <1>5, <1>6 DEF q

\* A refused request: its bytes never arrive, and its callback is told so.
LEMMA RefusedDrops ==
  ASSUME NEW D, Streams(D), NEW c \in D, Refused(c)
  PROVE  /\ Streams(D)' /\ outq[c] # << >> /\ UNCHANGED got
         /\ \A s \in D \ {c} : /\ outq'[s] = outq[s] /\ calls'[s] = calls[s]
                              /\ (Written(s))' = Written(s)
         /\ calls'[c] = Append(calls[c], "UV_EPIPE")
         /\ Len((Written(c))') <= Len(Written(c))
<1> DEFINE q == outq[c]
<1>1. /\ q \in Seq(Piece) /\ q # << >> /\ calls[c] \in Seq(Codes) /\ got[c] \in Seq(Nat)
      /\ q \in Seq(Seq(Nat)) /\ FlattenSeq(q) \in Seq(Nat)
      /\ Len(Written(c)) = Len(got[c]) + Len(FlattenSeq(q))
  BY WrittenType DEF Refused, Streams, Bytes
<1>2. /\ FlattenSeq(q) = Head(q) \o FlattenSeq(Tail(q)) /\ Head(q) \in Seq(Nat)
      /\ Tail(q) \in Seq(Piece) /\ FlattenSeq(Tail(q)) \in Seq(Nat)
  <2> HIDE DEF q
  <2>1. Tail(q) \in Seq(Piece)
    BY <1>1, HeadTailProperties
  <2>2. /\ FlattenSeq(q) = Head(q) \o FlattenSeq(Tail(q)) /\ Head(q) \in Seq(Nat)
        /\ Tail(q) \in Seq(Seq(Nat))
    BY <1>1, FlattenHead
  <2> QED BY <2>1, <2>2, FlattenType
<1>3. /\ outq'[c] = Tail(q) /\ calls'[c] = Append(calls[c], "UV_EPIPE") /\ UNCHANGED got
      /\ \A s \in D \ {c} : outq'[s] = outq[s] /\ calls'[s] = calls[s]
  BY DEF Refused, Streams
<1>4. Append(calls[c], "UV_EPIPE") \in Seq(Codes)
  <2>1. "UV_EPIPE" \in Codes
    BY DEF Codes
  <2> QED BY <1>1, <2>1
<1>5. Streams(D)'
  BY <1>2, <1>4 DEF Refused, Streams
<1>6. Len((Written(c))') <= Len(Written(c))
  <2> DEFINE t == FlattenSeq(Tail(q))
  <2>1. (Written(c))' = got[c] \o t
    BY <1>3 DEF Written
  <2>2. t \in Seq(Nat) /\ FlattenSeq(q) = Head(q) \o t
    BY <1>2
  <2> HIDE DEF q, t
  <2>3. Len(got[c] \o t) = Len(got[c]) + Len(t) /\ Len(FlattenSeq(q)) = Len(Head(q)) + Len(t)
    BY <1>1, <1>2, <2>2, ConcatProperties
  <2>4. Len(t) \in Nat /\ Len(got[c]) \in Nat /\ Len(Head(q)) \in Nat
    BY <1>1, <1>2, <2>2
  <2>5. \A i, j, k \in Nat : i + j <= i + (k + j)
    OBVIOUS
  <2> QED BY <1>1, <2>1, <2>3, <2>4, <2>5
<1> QED BY <1>1, <1>3, <1>5, <1>6 DEF Written

\* A callback that is made is due no longer; those behind it stay.
LEMMA CalledBackDrops ==
  ASSUME NEW D, Streams(D), NEW c \in D, calls[c] # << >>, CalledBack(c)
  PROVE  /\ Streams(D)' /\ UNCHANGED <<outq, got>>
         /\ \A s \in D : (Written(s))' = Written(s)
         /\ \A s \in D \ {c} : calls'[s] = calls[s]
         /\ \A k \in DOMAIN calls'[c] : k + 1 \in DOMAIN calls[c] /\ calls'[c][k] = calls[c][k + 1]
         /\ \A k \in DOMAIN calls[c] : k # 1 => k - 1 \in DOMAIN calls'[c] /\ calls'[c][k - 1] = calls[c][k]
         /\ Head(calls[c]) = calls[c][1] /\ 1 \in DOMAIN calls[c]
<1> DEFINE a == calls[c]
<1>1. a \in Seq(Codes) /\ a # << >>
  BY DEF Streams
<1>2. calls'[c] = Tail(a) /\ UNCHANGED <<outq, got>> /\ \A s \in D \ {c} : calls'[s] = calls[s]
  BY DEF CalledBack, Streams
<1>3. /\ Tail(a) \in Seq(Codes) /\ Len(Tail(a)) = Len(a) - 1 /\ Len(a) \in Nat \ {0}
      /\ Head(a) = a[1] /\ \A k \in 1..(Len(a) - 1) : Tail(a)[k] = a[k + 1]
  <2> HIDE DEF a
  <2>1. Tail(a) \in Seq(Codes) /\ Len(Tail(a)) = Len(a) - 1
        /\ \A k \in 1..Len(Tail(a)) : Tail(a)[k] = a[k + 1]
    BY <1>1, HeadTailProperties
  <2>2. Len(a) \in Nat \ {0} /\ Head(a) = a[1]
    BY <1>1
  <2> QED BY <2>1, <2>2
<1>4. DOMAIN a = 1..Len(a) /\ DOMAIN Tail(a) = 1..(Len(a) - 1)
  BY <1>1, <1>3
<1>5. Streams(D)'
  BY <1>3 DEF CalledBack, Streams
<1> HIDE DEF a
<1>6. \A k \in DOMAIN Tail(a) : k + 1 \in DOMAIN a /\ Tail(a)[k] = a[k + 1]
  BY <1>3, <1>4
<1>7. ASSUME NEW k \in DOMAIN a, k # 1
      PROVE  k - 1 \in DOMAIN Tail(a) /\ Tail(a)[k - 1] = a[k]
  <2>1. k - 1 \in 1..(Len(a) - 1) /\ (k - 1) + 1 = k
    BY <1>3, <1>4, <1>7
  <2> QED BY <1>3, <1>4, <2>1
<1>8. 1 \in DOMAIN a
  BY <1>3, <1>4
<1> QED BY <1>2, <1>3, <1>5, <1>6, <1>7, <1>8 DEF Written, a

-----------------------------------------------------------------------------
(* The bytes 1, 2, ... that the programs copy and echo.                     *)

\* The bytes up to t, and the n that come next.
LEMMA CountGrows ==
  ASSUME NEW t \in Nat, NEW n \in Nat
  PROVE  [k \in 1..t |-> k] \o [k \in 1..n |-> t + k] = [k \in 1..(t + n) |-> k]
<1> DEFINE a == [k \in 1..t |-> k]  b == [k \in 1..n |-> t + k]  c == [k \in 1..(t + n) |-> k]
<1>1. /\ a \in Seq(Nat) /\ Len(a) = t /\ \A k \in 1..t : a[k] = k
  OBVIOUS
<1>2. /\ b \in Seq(Nat) /\ Len(b) = n /\ \A k \in 1..n : b[k] = t + k
  <2>1. \A k \in 1..n : t + k \in Nat
    OBVIOUS
  <2> QED BY <2>1
<1>3. /\ c \in Seq(Nat) /\ Len(c) = t + n /\ \A k \in 1..(t + n) : c[k] = k
  OBVIOUS
<1> HIDE DEF a, b, c
<1>4. /\ a \o b \in Seq(Nat) /\ Len(a \o b) = t + n
      /\ \A k \in 1..(t + n) : (a \o b)[k] = IF k <= t THEN a[k] ELSE b[k - t]
  <2> DEFINE N == Nat
  <2>1. a \in Seq(N) /\ b \in Seq(N)
    BY <1>1, <1>2
  <2> HIDE DEF N
  <2>2. /\ a \o b \in Seq(N) /\ Len(a \o b) = Len(a) + Len(b)
        /\ \A k \in 1..(Len(a) + Len(b)) : (a \o b)[k] = IF k <= Len(a) THEN a[k] ELSE b[k - Len(a)]
    BY <2>1, ConcatProperties
  <2>3. Len(a) = t /\ Len(b) = n
    BY <1>1, <1>2, Zenon
  <2> QED BY <2>2, <2>3, Zenon DEF N
<1>5. ASSUME NEW k \in 1..(t + n) PROVE (a \o b)[k] = c[k]
  <2>1. CASE k <= t
    BY <1>1, <1>3, <1>4, <2>1
  <2>2. CASE ~(k <= t)
    <3>1. k - t \in 1..n /\ t + (k - t) = k
      BY <2>2
    <3> QED BY <1>2, <1>3, <1>4, <2>2, <3>1
  <2> QED BY <2>1, <2>2
<1>6. a \o b = c
  BY <1>3, <1>4, <1>5, SeqEqual
<1> QED BY <1>6 DEF a, b, c

\* Of the bytes up to n, those that come first are the bytes up to some m.
LEMMA CountPrefix ==
  ASSUME NEW n \in Nat, NEW a \in Seq(Nat), NEW b \in Seq(Nat), a \o b = [k \in 1..n |-> k]
  PROVE  Len(a) <= n /\ a = [k \in 1..Len(a) |-> k] /\ Len(a) + Len(b) = n
<1> DEFINE c == [k \in 1..n |-> k]
<1>1. /\ Len(a \o b) = Len(a) + Len(b) /\ Len(a) \in Nat /\ Len(b) \in Nat
      /\ \A k \in 1..(Len(a) + Len(b)) : (a \o b)[k] = IF k <= Len(a) THEN a[k] ELSE b[k - Len(a)]
  <2>1. \A x, y \in Seq(Nat) :
          /\ Len(x \o y) = Len(x) + Len(y) /\ Len(x) \in Nat
          /\ \A k \in 1..(Len(x) + Len(y)) : (x \o y)[k] = IF k <= Len(x) THEN x[k] ELSE y[k - Len(x)]
    BY ConcatProperties
  <2> QED BY <2>1, Zenon
<1>2. Len(c) = n /\ \A k \in 1..n : c[k] = k
  OBVIOUS
<1> HIDE DEF c
<1>3. Len(a) + Len(b) = n
  BY <1>1, <1>2 DEF c
<1>4. ASSUME NEW k \in 1..Len(a) PROVE a[k] = k
  <2>1. k \in 1..n /\ k <= Len(a)
    BY <1>1, <1>3
  <2>2. (a \o b)[k] = k
    BY <1>2, <2>1 DEF c
  <2> QED BY <1>1, <1>3, <2>1, <2>2
<1>5. a = [k \in 1..Len(a) |-> k]
  BY <1>4
<1> QED BY <1>1, <1>3, <1>5

=============================================================================
