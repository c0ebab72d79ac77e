---------------------------- MODULE MultiEchoProofs --------------------------
(***************************************************************************)
(* Proofs about MultiEcho, for any number of clients and workers, and all  *)
(* faults.                                                                 *)
(***************************************************************************)
EXTENDS MultiEcho, FiniteSetTheorems, SequenceTheorems, TLAPS

USE ConnsFinite, CpusPositive

-----------------------------------------------------------------------------
(* Queues without duplicates, as sets.                                      *)

\* What is appended joins the set, and stays unique if it was not in it.
LEMMA AppendToSet ==
  ASSUME NEW S, NEW s \in Seq(S), NEW e \in S
  PROVE  /\ ToSet(Append(s, e)) = ToSet(s) \cup {e}
         /\ IsInjective(s) /\ e \notin ToSet(s) => IsInjective(Append(s, e))
<1> DEFINE t == Append(s, e)
<1>1. /\ Len(t) = Len(s) + 1 /\ t[Len(s) + 1] = e
      /\ \A k \in 1..Len(s) : t[k] = s[k]
      /\ DOMAIN t = 1..(Len(s) + 1) /\ DOMAIN s = 1..Len(s) /\ Len(s) \in Nat
  OBVIOUS
<1> HIDE DEF t
<1>2. ToSet(t) = ToSet(s) \cup {e}
  BY <1>1 DEF ToSet
<1>3. ASSUME IsInjective(s), e \notin ToSet(s) PROVE IsInjective(t)
  BY <1>1, <1>3 DEF IsInjective, ToSet
<1> QED BY <1>2, <1>3 DEF t

\* What is taken out leaves the set, if it was unique.
LEMMA TailToSet ==
  ASSUME NEW S, NEW s \in Seq(S), s # << >>, IsInjective(s)
  PROVE  /\ Head(s) \in ToSet(s)
         /\ ToSet(Tail(s)) = ToSet(s) \ {Head(s)}
         /\ IsInjective(Tail(s))
<1> DEFINE t == Tail(s)
<1>1. /\ Len(t) = Len(s) - 1 /\ Head(s) = s[1] /\ Len(s) \in Nat \ {0}
      /\ \A k \in 1..(Len(s) - 1) : t[k] = s[k + 1]
      /\ DOMAIN t = 1..(Len(s) - 1) /\ DOMAIN s = 1..Len(s)
  <2>1. Len(s) \in Nat \ {0} /\ Head(s) = s[1] /\ DOMAIN s = 1..Len(s)
    OBVIOUS
  <2>2. t \in Seq(S) /\ Len(t) = Len(s) - 1 /\ \A k \in 1..Len(t) : t[k] = s[k + 1]
    BY HeadTailProperties
  <2> HIDE DEF t
  <2>3. DOMAIN t = 1..Len(t)
    BY <2>2
  <2> QED BY <2>1, <2>2, <2>3
<1> HIDE DEF t
<1>2. Head(s) \in ToSet(s)
  BY <1>1 DEF ToSet
<1>3. IsInjective(t)
  <2> SUFFICES ASSUME NEW a \in DOMAIN t, NEW b \in DOMAIN t, t[a] = t[b]
               PROVE  a = b
    BY Zenon DEF IsInjective
  <2>1. /\ a \in Nat /\ b \in Nat /\ a + 1 \in DOMAIN s /\ b + 1 \in DOMAIN s
        /\ t[a] = s[a + 1] /\ t[b] = s[b + 1]
    BY <1>1
  <2>2. a + 1 = b + 1
    BY <2>1, Zenon DEF IsInjective
  <2> QED BY <2>1, <2>2
<1>4. ASSUME NEW x \in ToSet(t) PROVE x \in ToSet(s) \ {Head(s)}
  <2>1. PICK k \in 1..(Len(s) - 1) : x = s[k + 1]
    BY <1>1, <1>4 DEF ToSet
  <2>2. k + 1 \in DOMAIN s /\ 1 \in DOMAIN s /\ k + 1 # 1
    BY <1>1
  <2>3. \A i, j \in DOMAIN s : s[i] = s[j] => i = j
    BY Zenon DEF IsInjective
  <2>4. x # s[1]
    BY <2>1, <2>2, <2>3
  <2> QED BY <1>1, <2>1, <2>2, <2>4, Zenon DEF ToSet
<1>5. ASSUME NEW x \in ToSet(s), x # Head(s) PROVE x \in ToSet(t)
  <2>1. PICK k \in 1..Len(s) : x = s[k]
    BY <1>1 DEF ToSet
  <2>2. k - 1 \in 1..(Len(s) - 1) /\ t[k - 1] = x
    BY <1>1, <1>5, <2>1
  <2> QED BY <1>1, <2>2 DEF ToSet
<1> QED BY <1>2, <1>3, <1>4, <1>5 DEF t

\* An empty queue.
LEMMA EmptyToSet == ToSet(<< >>) = {} /\ IsInjective(<< >>)
BY DEF ToSet, IsInjective

-----------------------------------------------------------------------------
(* The turns.                                                               *)

\* The counter goes round.
LEMMA NextTurn ==
  ASSUME round_robin_counter \in Workers
  PROVE  NextWorker = IF round_robin_counter = CpuCount - 1 THEN 0 ELSE round_robin_counter + 1
BY DEF NextWorker, Workers

\* Every worker had as many turns as any other, or one more if its turn of this
\* round is over.
Turns ==
  \E k \in Nat : \A w \in Workers :
    Cardinality(GivenTo(w)) = IF w < round_robin_counter THEN k + 1 ELSE k

LEMMA TurnsBalance == Turns => Balanced
BY DEF Turns, Balanced, Workers

\* A connection that is handed over is one more of the worker whose turn it is.
LEMMA HandOverTurns ==
  ASSUME TypeOK, Turns, NEW c \in Conns, given[c] = Nobody,
         given' = [given EXCEPT ![c] = round_robin_counter], round_robin_counter' = NextWorker
  PROVE  Turns'
<1>0. PICK r \in Workers : r = round_robin_counter
  BY DEF TypeOK
<1>1. given' = [given EXCEPT ![c] = r] /\ round_robin_counter' = NextWorker
  BY <1>0
<1>2. \A w \in Workers : w # r => GivenTo(w)' = GivenTo(w)
  BY <1>1 DEF GivenTo, TypeOK, Workers, Nobody
<1>3. GivenTo(r)' = GivenTo(r) \cup {c} /\ c \notin GivenTo(r)
  BY <1>1 DEF GivenTo, TypeOK, Workers, Nobody
<1>4. IsFiniteSet(GivenTo(r))
  BY FS_Subset DEF GivenTo
<1>5. Cardinality(GivenTo(r)') = Cardinality(GivenTo(r)) + 1
  BY <1>3, <1>4, FS_AddElement
<1>6. PICK k \in Nat : \A w \in Workers :
        Cardinality(GivenTo(w)) = IF w < r THEN k + 1 ELSE k
  BY <1>0 DEF Turns
<1>7. \A w \in Workers :
        Cardinality(GivenTo(w)') = IF w <= r THEN k + 1 ELSE k
  BY <1>2, <1>5, <1>6 DEF Workers
<1>8. CASE r = CpuCount - 1
  <2>1. round_robin_counter' = 0
    BY <1>0, <1>1, <1>8, NextTurn
  <2>2. \A w \in Workers : Cardinality(GivenTo(w)') = k + 1 /\ ~(w < 0)
    BY <1>7, <1>8 DEF Workers
  <2> QED BY <2>1, <2>2 DEF Turns
<1>9. CASE r # CpuCount - 1
  <2>1. round_robin_counter' = r + 1
    BY <1>0, <1>1, <1>9, NextTurn
  <2>2. \A w \in Workers : w <= r <=> w < r + 1
    BY DEF Workers
  <2> QED BY <1>7, <2>1, <2>2 DEF Turns
<1> QED BY <1>8, <1>9

-----------------------------------------------------------------------------
(* The way of a connection.                                                 *)

\* The connections of a worker are in its queues, once, or served, or over.
Exact(w) ==
  /\ IsInjective(unsent[w]) /\ IsInjective(pipe[w])
  /\ GivenTo(w) = ToSet(unsent[w]) \cup ToSet(pipe[w]) \cup serving[w] \cup (GivenTo(w) \cap over)
  /\ ToSet(unsent[w]) \cap ToSet(pipe[w]) = {}
  /\ (ToSet(unsent[w]) \cup ToSet(pipe[w])) \cap (serving[w] \cup over) = {}
  /\ serving[w] \cap over = {}

\* No connection comes before every worker was spawned.
SetupFirst ==
  main = "setup" =>
    /\ over = {} /\ \A c \in Conns : given[c] = Nobody
    /\ \A w \in Workers : unsent[w] = << >> /\ pipe[w] = << >> /\ serving[w] = {}

\* main.c listens when all workers were spawned, and is killed after one is gone.
Spawned ==
  /\ main \in {"setup", "listening"} =>
       \A w \in Workers : cpu_count <= w => child[w] \in {"running", "aborted"}
  /\ main = "listening" => cpu_count = 0
  /\ main = "killed" => \E w \in Workers : child[w] = "aborted"

IInv ==
  /\ TypeOK /\ SetupFirst /\ Spawned /\ Turns
  /\ \A w \in Workers : child[w] = "running" => Exact(w)

LEMMA ExactIsOnePlace ==
  ASSUME IInv PROVE LostOnlyWithWorker
<1> SUFFICES ASSUME NEW w \in Workers, child[w] = "running", NEW c \in Conns
             PROVE  /\ given[c] = w <=> \E k \in 1..4 : c \in Places(w)[k]
                    /\ \A j, k \in 1..4 :
                         c \in Places(w)[j] /\ c \in Places(w)[k] => j = k
  BY DEF LostOnlyWithWorker, IInv, Spawned
<1>1. Exact(w)
  BY DEF IInv
<1>2. 1..4 = {1, 2, 3, 4}
  OBVIOUS
<1>3. /\ Places(w)[1] = ToSet(unsent[w]) /\ Places(w)[2] = ToSet(pipe[w])
      /\ Places(w)[3] = serving[w] /\ Places(w)[4] = GivenTo(w) \cap over
  BY DEF Places
<1>4. c \in GivenTo(w) <=> given[c] = w
  BY DEF GivenTo
<1> QED BY <1>1, <1>2, <1>3, <1>4 DEF Exact

\* main.c starts with no worker, and no turn was taken.
LEMMA InitIInv == Init => IInv
<1> SUFFICES ASSUME Init PROVE IInv
  OBVIOUS
<1>1. TypeOK /\ SetupFirst /\ Spawned
  BY DEF Init, TypeOK, SetupFirst, Spawned, Workers, Nobody
<1>2. \A w \in Workers : GivenTo(w) = {}
  BY DEF Init, GivenTo, Workers, Nobody
<1>3. Turns
  <2>1. \A w \in Workers : Cardinality(GivenTo(w)) = 0 /\ ~(w < 0)
    BY <1>2, FS_EmptySet DEF Workers
  <2>2. round_robin_counter = 0
    BY DEF Init
  <2> QED BY <2>1, <2>2 DEF Turns
<1>4. \A w \in Workers : child[w] # "running"
  BY DEF Init
<1> QED BY <1>1, <1>3, <1>4 DEF IInv

\* A step that gives nobody a connection leaves the turns alone.
LEMMA TurnsUnchanged ==
  ASSUME Turns, UNCHANGED <<round_robin_counter, given>>
  PROVE  Turns'
<1>1. \A w \in Workers : GivenTo(w)' = GivenTo(w)
  BY DEF GivenTo
<1> QED BY <1>1 DEF Turns

\* A worker that no step of its own or of its queues touches.
LEMMA ExactUnchanged ==
  ASSUME NEW w \in Workers, Exact(w), UNCHANGED <<unsent[w], pipe[w], serving[w], given, over>>
  PROVE  Exact(w)'
BY DEF Exact, GivenTo

\* A queue that is replaced by another leaves the queues what they are.
LEMMA SetQueue ==
  ASSUME NEW Q, NEW f \in [Workers -> Q], NEW w, NEW q \in Q
  PROVE  [f EXCEPT ![w] = q] \in [Workers -> Q]
OBVIOUS

LEMMA Appended ==
  ASSUME NEW f \in [Workers -> Seq(Conns)], NEW w \in Workers, NEW c \in Conns
  PROVE  [f EXCEPT ![w] = Append(f[w], c)] \in [Workers -> Seq(Conns)]
<1>1. f[w] \in Seq(Conns)
  OBVIOUS
<1>2. Append(f[w], c) \in Seq(Conns)
  BY <1>1, AppendProperties
<1> QED BY <1>2, SetQueue

LEMMA TypeStep == TypeOK /\ [Next]_vars => TypeOK'
<1> SUFFICES ASSUME TypeOK, [Next]_vars PROVE TypeOK'
  OBVIOUS
<1> USE DEF TypeOK, masterVars
<1>1. CASE Spawn
  <2>1. cpu_count - 1 \in Workers /\ cpu_count - 1 \in 0..CpuCount
    BY <1>1 DEF Spawn, Workers
  <2>2. child' \in [Workers -> {"none", "running", "aborted", "exited"}]
    BY <1>1, <2>1 DEF Spawn
  <2> QED BY <1>1, <2>1, <2>2 DEF Spawn
<1>2. CASE Listen
  BY <1>2 DEF Listen
<1>3. ASSUME NEW c \in Conns, ConnectionCb(c) PROVE TypeOK'
  <2>1. NextWorker \in Workers
    BY NextTurn DEF Workers
  <2>2. \A w \in Workers : Append(unsent[w], c) \in Seq(Conns) /\ Append(pipe[w], c) \in Seq(Conns)
    OBVIOUS
  <2>3. CASE HandOver(c)
    <3>1. /\ main' \in {main, "killed"} /\ UNCHANGED over
          /\ given' = given \/ given' = [given EXCEPT ![c] = round_robin_counter]
          /\ round_robin_counter' \in {round_robin_counter, NextWorker}
      BY <2>3 DEF HandOver, UvWrite2, SigPipe
    <3>2. /\ unsent' = unsent \/ unsent' = [unsent EXCEPT ![round_robin_counter] = Append(@, c)]
          /\ pipe' = pipe \/ pipe' = [pipe EXCEPT ![round_robin_counter] = Append(@, c)]
      BY <2>3 DEF HandOver, UvWrite2, SigPipe
    <3> DEFINE r == round_robin_counter
    <3>7. unsent \in [Workers -> Seq(Conns)] /\ pipe \in [Workers -> Seq(Conns)] /\ r \in Workers
      OBVIOUS
    <3>8. /\ [unsent EXCEPT ![r] = Append(unsent[r], c)] \in [Workers -> Seq(Conns)]
          /\ [pipe EXCEPT ![r] = Append(pipe[r], c)] \in [Workers -> Seq(Conns)]
      BY ONLY <3>7, c \in Conns, Appended, Zenon
    <3>3. unsent' \in [Workers -> Seq(Conns)] /\ pipe' \in [Workers -> Seq(Conns)]
      BY ONLY <3>2, <3>7, <3>8, Zenon
    <3>4. UNCHANGED <<cpu_count, exited, child, serving>>
      BY <1>3 DEF ConnectionCb
    <3>5. given' \in [Conns -> Workers \cup {Nobody}] /\ round_robin_counter' \in Workers
      BY <2>1, <3>1
    <3>6. main' \in {"setup", "listening", "aborted", "killed"}
      BY <3>1
    <3> QED BY <3>1, <3>3, <3>4, <3>5, <3>6
  <2>4. CASE TurnAway(c)
    BY <1>3, <2>4 DEF ConnectionCb, TurnAway
  <2> QED BY <1>3, <2>3, <2>4 DEF ConnectionCb
<1>4. ASSUME NEW w \in Workers, Pollout(w) PROVE TypeOK'
  <2>1. Tail(unsent[w]) \in Seq(Conns) /\ Head(unsent[w]) \in Conns
    BY <1>4 DEF Pollout
  <2>2. Append(pipe[w], Head(unsent[w])) \in Seq(Conns)
    BY <2>1
  <2>3. main' \in {main, "killed"} /\ UNCHANGED <<cpu_count, round_robin_counter, exited, given, child, serving, over>>
    BY <1>4 DEF Pollout, SigPipe
  <2>4. /\ unsent' = unsent \/ unsent' = [unsent EXCEPT ![w] = Tail(@)]
        /\ pipe' = pipe \/ pipe' = [pipe EXCEPT ![w] = Append(@, Head(unsent[w]))]
    BY <1>4 DEF Pollout, SigPipe
  <2>5. unsent' \in [Workers -> Seq(Conns)] /\ pipe' \in [Workers -> Seq(Conns)]
    <3>1. unsent \in [Workers -> Seq(Conns)] /\ pipe \in [Workers -> Seq(Conns)]
      OBVIOUS
    <3>2. [unsent EXCEPT ![w] = Tail(unsent[w])] \in [Workers -> Seq(Conns)]
      BY ONLY <2>1, <3>1, SetQueue, Zenon
    <3>3. [pipe EXCEPT ![w] = Append(pipe[w], Head(unsent[w]))] \in [Workers -> Seq(Conns)]
      BY ONLY <2>2, <3>1, SetQueue, Zenon
    <3> QED BY ONLY <2>4, <3>1, <3>2, <3>3, Zenon
  <2> QED BY <2>3, <2>5
<1>5. ASSUME NEW w \in Workers, OnExit(w) PROVE TypeOK'
  BY <1>5 DEF OnExit
<1>6. ASSUME NEW w \in Workers, Worker(w) PROVE TypeOK'
  <2>1. CASE ConnectCb(w)
    <3>1. Tail(pipe[w]) \in Seq(Conns) /\ Head(pipe[w]) \in Conns
      BY <2>1 DEF ConnectCb
    <3> QED BY <2>1, <3>1 DEF ConnectCb, Received, Serve
  <2>2. CASE Close(w)
    BY <2>2 DEF Close
  <2>3. CASE WriteCbAborts(w)
    BY <2>3 DEF WriteCbAborts
  <2>4. CASE PipeEnds(w)
    BY <2>4 DEF PipeEnds
  <2> QED BY <1>6, <2>1, <2>2, <2>3, <2>4 DEF Worker
<1>7. CASE Idle \/ UNCHANGED vars
  BY <1>7 DEF Idle, vars
<1> QED BY <1>1, <1>2, <1>3, <1>4, <1>5, <1>6, <1>7 DEF Next

LEMMA SetupStep == SetupFirst /\ TypeOK /\ [Next]_vars => SetupFirst'
<1> SUFFICES ASSUME SetupFirst, TypeOK, [Next]_vars, main' = "setup" PROVE SetupFirst'
  BY DEF SetupFirst
<1>1. ASSUME NEW c \in Conns, ConnectionCb(c) PROVE FALSE
  BY <1>1 DEF ConnectionCb, HandOver, UvWrite2, SigPipe, TurnAway
<1>2. main = "setup"
  BY <1>1 DEF Next, Spawn, Listen, Pollout, SigPipe, OnExit, Worker, ConnectCb, Close,
         WriteCbAborts, PipeEnds, Idle, vars, masterVars
<1>3. /\ UNCHANGED <<given, over>>
      /\ \A w \in Workers : UNCHANGED <<unsent[w], pipe[w], serving[w]>>
  BY <1>1, <1>2 DEF SetupFirst, Next, Spawn, Listen, Pollout, OnExit, Worker, ConnectCb,
         Close, WriteCbAborts, PipeEnds, Idle, vars, masterVars
<1> QED BY <1>2, <1>3 DEF SetupFirst

\* Only a worker that is gone gets main.c killed.
LEMMA SigPipeSpawned ==
  ASSUME TypeOK, Spawned, main = "listening", NEW w \in Workers, child[w] # "running",
         main' = "killed", UNCHANGED child
  PROVE  Spawned'
<1>1. 0 <= w
  BY DEF Workers
<1> QED BY <1>1 DEF Spawned

LEMMA SpawnedStep == IInv /\ [Next]_vars => Spawned'
<1> SUFFICES ASSUME TypeOK, Spawned, [Next]_vars PROVE Spawned'
  BY DEF IInv
<1>1. CASE Spawn
  <2>1. cpu_count \in Nat /\ cpu_count - 1 \in Workers /\ \A w \in Workers : w \in Int
    BY <1>1 DEF Spawn, TypeOK, Workers
  <2>2. \A w \in Workers : cpu_count - 1 <= w => w = cpu_count - 1 \/ cpu_count <= w
    BY <2>1
  <2> QED BY <1>1, <2>2 DEF Spawn, Spawned, TypeOK
<1>2. CASE Listen
  BY <1>2 DEF Listen, Spawned
<1>3. ASSUME NEW c \in Conns, ConnectionCb(c) PROVE Spawned'
  <2>1. round_robin_counter \in Workers /\ main = "listening" /\ UNCHANGED <<cpu_count, child>>
    BY <1>3 DEF TypeOK, ConnectionCb
  <2>2. CASE main' = main
    BY <2>1, <2>2 DEF Spawned
  <2>3. CASE SigPipe(round_robin_counter)
    BY <2>1, <2>3, SigPipeSpawned DEF SigPipe
  <2> QED BY <1>3, <2>2, <2>3 DEF ConnectionCb, HandOver, UvWrite2, TurnAway
<1>4. ASSUME NEW w \in Workers, Pollout(w) PROVE Spawned'
  BY <1>4, SigPipeSpawned DEF Pollout, SigPipe, Spawned
<1>5. CASE (\E w \in Workers : OnExit(w)) \/ Idle \/ UNCHANGED vars
  BY <1>5 DEF OnExit, Idle, vars, masterVars, Spawned
<1>6. ASSUME NEW w \in Workers, Worker(w) PROVE Spawned'
  <2>1. UNCHANGED <<main, cpu_count>>
    BY <1>6 DEF Worker, ConnectCb, Close, WriteCbAborts, PipeEnds, masterVars
  <2>2. CASE UNCHANGED child
    BY <2>1, <2>2 DEF Spawned
  <2>3. CASE WriteCbAborts(w)
    BY <2>1, <2>3 DEF WriteCbAborts, Spawned, TypeOK
  <2>4. CASE PipeEnds(w)
    BY <2>1, <2>4 DEF PipeEnds, Spawned, TypeOK
  <2> QED BY <1>6, <2>2, <2>3, <2>4 DEF Worker, ConnectCb, Close
<1> QED BY <1>1, <1>2, <1>3, <1>4, <1>5, <1>6 DEF Next

LEMMA TurnsStep == IInv /\ [Next]_vars => Turns'
<1> SUFFICES ASSUME IInv, [Next]_vars PROVE Turns'
  OBVIOUS
<1>1. ASSUME NEW c \in Conns, ConnectionCb(c), HandOver(c), UNCHANGED main PROVE Turns'
  <2>1. main # "killed"
    BY <1>1 DEF ConnectionCb
  <2> QED BY <1>1, <2>1, HandOverTurns DEF IInv, ConnectionCb, HandOver, SigPipe
<1>2. CASE UNCHANGED <<round_robin_counter, given>>
  BY <1>2, TurnsUnchanged DEF IInv
<1>3. ASSUME NEW c \in Conns, ConnectionCb(c) PROVE Turns'
  BY <1>1, <1>2, <1>3 DEF ConnectionCb, HandOver, UvWrite2, SigPipe, TurnAway
<1> QED
  BY <1>2, <1>3 DEF Next, Spawn, Listen, Pollout, OnExit, Worker,
     ConnectCb, Close, WriteCbAborts, PipeEnds, Idle, vars, masterVars

\* A connection that nobody was given is in no place of a worker that runs.
LEMMA NewIsNowhere ==
  ASSUME NEW w \in Workers, Exact(w), NEW c \in Conns, given[c] # w
  PROVE  c \notin ToSet(unsent[w]) \cup ToSet(pipe[w]) \cup serving[w]
BY DEF Exact, GivenTo

\* main.c accepts a connection: it goes into a queue of one worker.
LEMMA ConnectionExact ==
  ASSUME IInv, NEW c \in Conns, ConnectionCb(c), NEW w \in Workers, child[w] = "running"
  PROVE  Exact(w)'
<1>1. Exact(w) /\ TypeOK /\ given[c] = Nobody /\ c \notin over /\ UNCHANGED serving
  BY DEF IInv, ConnectionCb
<1>2. c \notin ToSet(unsent[w]) \cup ToSet(pipe[w]) \cup serving[w]
  BY <1>1, NewIsNowhere DEF Workers, Nobody
<1>3. unsent[w] \in Seq(Conns) /\ pipe[w] \in Seq(Conns)
  BY <1>1 DEF TypeOK
<1>0. CASE HandOver(c) /\ main' = "killed"
  <2>1. UNCHANGED <<given, over, unsent, pipe>>
    BY <1>0 DEF ConnectionCb, HandOver, UvWrite2, SigPipe
  <2> QED BY <1>1, <2>1, ExactUnchanged
<1>4. CASE HandOver(c) /\ UvWrite2(c, round_robin_counter) /\ main' # "killed" /\ w = round_robin_counter
  <2>1. GivenTo(w)' = GivenTo(w) \cup {c} /\ UNCHANGED over
    BY <1>1, <1>4 DEF HandOver, SigPipe, GivenTo, TypeOK
  <2>2. CASE unsent'[w] = Append(unsent[w], c) /\ pipe'[w] = pipe[w]
    BY <1>1, <1>2, <1>3, <2>1, <2>2, AppendToSet DEF Exact
  <2>3. CASE pipe'[w] = Append(pipe[w], c) /\ unsent'[w] = unsent[w]
    BY <1>1, <1>2, <1>3, <2>1, <2>3, AppendToSet DEF Exact
  <2> QED BY <1>1, <1>4, <2>2, <2>3 DEF UvWrite2, TypeOK
<1>5. CASE HandOver(c) /\ UvWrite2(c, round_robin_counter) /\ main' # "killed" /\ w # round_robin_counter
  <2>1. GivenTo(w)' = GivenTo(w)
    BY <1>1, <1>5 DEF HandOver, SigPipe, GivenTo, TypeOK, Workers, Nobody
  <2>2. UNCHANGED <<over, unsent[w], pipe[w]>>
    BY <1>1, <1>5 DEF HandOver, UvWrite2, TypeOK
  <2> QED BY <1>1, <2>1, <2>2 DEF Exact
<1>6. CASE TurnAway(c)
  <2>1. /\ GivenTo(w)' = GivenTo(w) /\ c \notin GivenTo(w) /\ over' = over \cup {c}
        /\ UNCHANGED <<unsent, pipe>>
    BY <1>1, <1>6 DEF TurnAway, GivenTo, Workers, Nobody
  <2> QED BY <1>1, <1>2, <2>1 DEF Exact
<1> QED BY <1>0, <1>4, <1>5, <1>6 DEF ConnectionCb, HandOver, SigPipe

\* A connection moves from one queue to the other.
LEMMA PolloutExact ==
  ASSUME IInv, NEW v \in Workers, Pollout(v), NEW w \in Workers, child[w] = "running"
  PROVE  Exact(w)'
<1>1. Exact(w) /\ TypeOK /\ UNCHANGED <<serving, given, over>>
  BY DEF IInv, Pollout
<1>2. CASE v # w \/ SigPipe(v)
  BY <1>1, <1>2, ExactUnchanged DEF Pollout, SigPipe, TypeOK
<1>3. CASE v = w /\ ~SigPipe(v)
  <2>1. /\ unsent[w] \in Seq(Conns) /\ unsent[w] # << >> /\ Head(unsent[w]) \in Conns
        /\ pipe[w] \in Seq(Conns) /\ IsInjective(unsent[w])
    BY <1>1, <1>3 DEF Pollout, TypeOK, Exact
  <2>2. unsent'[w] = Tail(unsent[w]) /\ pipe'[w] = Append(pipe[w], Head(unsent[w]))
    BY <1>1, <1>3 DEF Pollout, TypeOK
  <2>3. /\ Head(unsent[w]) \in ToSet(unsent[w]) /\ IsInjective(unsent'[w])
        /\ ToSet(unsent'[w]) = ToSet(unsent[w]) \ {Head(unsent[w])}
    BY <2>1, <2>2, TailToSet
  <2>4. Head(unsent[w]) \notin ToSet(pipe[w])
    BY <1>1, <2>3 DEF Exact
  <2>5. /\ ToSet(pipe'[w]) = ToSet(pipe[w]) \cup {Head(unsent[w])}
        /\ IsInjective(pipe'[w])
    BY <1>1, <2>1, <2>2, <2>4, AppendToSet DEF Exact
  <2>6. GivenTo(w)' = GivenTo(w)
    BY <1>1 DEF GivenTo
  <2> QED BY <1>1, <2>3, <2>5, <2>6 DEF Exact
<1> QED BY <1>2, <1>3

\* A worker takes a connection out of its pipe.
LEMMA ConnectExact ==
  ASSUME IInv, NEW v \in Workers, ConnectCb(v), NEW w \in Workers, child[w] = "running"
  PROVE  Exact(w)'
<1>1. Exact(w) /\ Exact(v) /\ TypeOK /\ UNCHANGED <<given, unsent>>
  BY DEF IInv, ConnectCb, masterVars
<1> DEFINE c == Head(pipe[v])
<1>2. pipe[v] \in Seq(Conns) /\ pipe[v] # << >> /\ c \in Conns /\ IsInjective(pipe[v])
  BY <1>1 DEF ConnectCb, TypeOK, Exact
<1>3. c \in ToSet(pipe[v]) /\ ToSet(Tail(pipe[v])) = ToSet(pipe[v]) \ {c} /\ IsInjective(Tail(pipe[v]))
  BY <1>2, TailToSet
<1>4. pipe' = [pipe EXCEPT ![v] = Tail(@)]
  BY DEF ConnectCb, Received
<1>5. given[c] = v
  BY <1>1, <1>3 DEF Exact, GivenTo
<1>6. GivenTo(w)' = GivenTo(w)
  BY <1>1 DEF GivenTo
<1>7. \/ serving' = [serving EXCEPT ![v] = @ \cup {c}] /\ over' = over
      \/ serving' = serving /\ over' = over \cup {c}
  BY DEF ConnectCb, Serve
<1> HIDE DEF c
<1>8. CASE v # w
  <2>1. c \notin GivenTo(w) /\ c \notin ToSet(unsent[w]) \cup ToSet(pipe[w]) \cup serving[w]
    BY <1>1, <1>2, <1>5, <1>8, NewIsNowhere DEF GivenTo
  <2>2. pipe'[w] = pipe[w] /\ serving'[w] = serving[w]
    BY <1>1, <1>4, <1>7, <1>8 DEF TypeOK
  <2> QED BY <1>1, <1>6, <1>7, <2>1, <2>2 DEF Exact
<1>9. CASE v = w
  <2>1. pipe'[w] = Tail(pipe[w])
    BY <1>1, <1>4, <1>9 DEF TypeOK
  <2>2. c \in GivenTo(w)
    BY <1>2, <1>5, <1>9 DEF GivenTo
  <2>3. CASE serving'[w] = serving[w] \cup {c} /\ over' = over
    BY <1>1, <1>3, <1>6, <1>9, <2>1, <2>2, <2>3 DEF Exact
  <2>4. CASE serving' = serving /\ over' = over \cup {c}
    BY <1>1, <1>3, <1>6, <1>9, <2>1, <2>2, <2>4 DEF Exact
  <2> QED BY <1>1, <1>7, <1>9, <2>3, <2>4 DEF TypeOK
<1> QED BY <1>8, <1>9

\* A worker closes a connection that it serves.
LEMMA CloseExact ==
  ASSUME IInv, NEW v \in Workers, Close(v), NEW w \in Workers, child[w] = "running"
  PROVE  Exact(w)'
<1>1. Exact(w) /\ Exact(v) /\ TypeOK /\ UNCHANGED <<given, unsent, pipe>>
  BY DEF IInv, Close, masterVars
<1>2. PICK c \in serving[v] : /\ serving' = [serving EXCEPT ![v] = @ \ {c}]
                              /\ over' = over \cup {c}
  BY DEF Close
<1>3. c \in Conns /\ given[c] = v /\ c \notin over
  BY <1>1 DEF Exact, GivenTo, TypeOK
<1>4. GivenTo(w)' = GivenTo(w)
  BY <1>1 DEF GivenTo
<1>5. CASE v # w
  <2>1. c \notin GivenTo(w) /\ c \notin ToSet(unsent[w]) \cup ToSet(pipe[w]) \cup serving[w]
    BY <1>1, <1>3, <1>5, NewIsNowhere DEF GivenTo
  <2>2. serving'[w] = serving[w]
    BY <1>1, <1>2, <1>5 DEF TypeOK
  <2> QED BY <1>1, <1>2, <1>4, <2>1, <2>2 DEF Exact
<1>6. CASE v = w
  <2>1. serving'[w] = serving[w] \ {c} /\ c \in GivenTo(w) /\ c \in serving[w]
    BY <1>1, <1>2, <1>3, <1>6 DEF TypeOK, GivenTo
  <2> QED BY <1>1, <1>2, <1>4, <2>1 DEF Exact
<1> QED BY <1>5, <1>6

\* Steps that move no connection of a worker that goes on.
LEMMA ExactStep ==
  ASSUME IInv, [Next]_vars, NEW w \in Workers, child'[w] = "running"
  PROVE  Exact(w)'
<1> USE DEF masterVars
<1>1. CASE Spawn
  <2>1. CASE child[w] = "running"
    BY <1>1, <2>1, ExactUnchanged DEF Spawn, IInv
  <2>2. GivenTo(w) = {} /\ unsent[w] = << >> /\ pipe[w] = << >> /\ serving[w] = {} /\ over = {}
    BY <1>1 DEF Spawn, IInv, SetupFirst, GivenTo, Workers, Nobody
  <2>3. UNCHANGED <<given, unsent, pipe, serving, over>> /\ GivenTo(w)' = GivenTo(w)
    BY <1>1 DEF Spawn, GivenTo
  <2> QED BY <2>2, <2>3, EmptyToSet DEF Exact
<1>2. ASSUME NEW c \in Conns, ConnectionCb(c) PROVE Exact(w)'
  BY <1>2, ConnectionExact DEF ConnectionCb
<1>3. ASSUME NEW v \in Workers, Pollout(v) PROVE Exact(w)'
  BY <1>3, PolloutExact DEF Pollout
<1>4. ASSUME NEW v \in Workers, Worker(v) PROVE Exact(w)'
  <2>1. CASE ConnectCb(v)
    BY <2>1, ConnectExact DEF ConnectCb
  <2>2. CASE Close(v)
    BY <2>2, CloseExact DEF Close
  <2>3. CASE WriteCbAborts(v)
    <3>1. child[w] = "running" /\ v # w
      BY <2>3 DEF WriteCbAborts, IInv, TypeOK
    <3> QED BY <2>3, <3>1, ExactUnchanged DEF WriteCbAborts, IInv, TypeOK
  <2>4. CASE PipeEnds(v)
    <3>1. child[w] = "running"
      BY <2>4 DEF PipeEnds, IInv, TypeOK
    <3> QED BY <2>4, <3>1, ExactUnchanged DEF PipeEnds, IInv
  <2> QED BY <1>4, <2>1, <2>2, <2>3, <2>4 DEF Worker
<1>5. CASE Listen \/ Idle \/ UNCHANGED vars \/ \E v \in Workers : OnExit(v)
  <2>1. UNCHANGED <<child, given, unsent, pipe, serving, over>>
    BY <1>5 DEF Listen, Idle, vars, OnExit
  <2> QED BY <2>1, ExactUnchanged DEF IInv
<1> QED BY <1>1, <1>2, <1>3, <1>4, <1>5 DEF Next

LEMMA Inductive == IInv /\ [Next]_vars => IInv'
BY TypeStep, SetupStep, SpawnedStep, TurnsStep, ExactStep DEF IInv

LEMMA IInvAlways == Spec => []IInv
BY InitIInv, Inductive, PTL DEF Spec

-----------------------------------------------------------------------------
(* The theorems.                                                            *)

\* Every variable keeps its type, for any number of clients and workers.
THEOREM TypeCorrect == Spec => []TypeOK
<1>1. IInv => TypeOK
  BY DEF IInv
<1> QED BY <1>1, IInvAlways, PTL

\* The round robin of connection_cb (main.c:67) keeps its turns: no worker is given
\* two connections more than another, whatever fails.
THEOREM TurnsAreKept == Spec => []Balanced
<1>1. IInv => Balanced
  BY TurnsBalance DEF IInv
<1> QED BY <1>1, IInvAlways, PTL

\* A connection that main.c gave to a worker (main.c:61) is in exactly one place on
\* its way, as long as that worker runs, and main.c is not killed with some of them
\* in its queues unless a worker is gone.
THEOREM LostWithWorkerOnly == Spec => []LostOnlyWithWorker
BY ExactIsOnePlace, IInvAlways, PTL

=============================================================================
