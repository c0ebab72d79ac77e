---------------------------- MODULE LocksProofs -----------------------------
(***************************************************************************)
(* Proofs about Locks, for any finite sets of readers and writers and any  *)
(* number of rounds.                                                       *)
(***************************************************************************)
EXTENDS Locks, FiniteSetTheorems, TLAPS

USE ThreadsFinite, RolesDiffer, RoundsNat

\* The barrier is open only when main and every thread have arrived.
LEMMA BarrierCounts ==
  ASSUME TypeOK, BarrierOpen
  PROVE  blocker = Threads
<1>1. IsFiniteSet(Threads)
  BY FS_Union DEF Threads
<1>2. blocker \subseteq Threads
  BY DEF TypeOK
<1>3. IsFiniteSet(blocker) /\ Cardinality(blocker) <= Cardinality(Threads)
  BY <1>1, <1>2, FS_Subset
<1>4. Cardinality(blocker) \in Nat /\ Cardinality(Threads) \in Nat
  BY <1>1, <1>3, FS_CardinalityType
<1>5. Cardinality(blocker) = Cardinality(Threads)
  <2>1. Arrived <= Cardinality(blocker) + 1
    BY <1>4 DEF Arrived
  <2>2. Arrived >= Cardinality(Threads) + 1
    BY DEF BarrierOpen, count
  <2> QED BY <1>3, <1>4, <2>1, <2>2 DEF Arrived
<1> QED BY <1>1, <1>2, <1>5, FS_Subset

\* The increments there can be are finitely many.
LEMMA IncrementsFinite == IsFiniteSet(Increments)
<1>1. IsFiniteSet(1..ROUNDS)
  BY FS_Interval
<1>2. IsFiniteSet(Writers \X (1..ROUNDS))
  BY <1>1, FS_Product
<1> QED BY <1>2, FS_Subset DEF Increments

\* A step that moves no thread in or out of "used" and completes no round
\* leaves the set of increments alone.
LEMMA IncrementsUnchanged ==
  ASSUME UNCHANGED i,
         \A w \in Writers : (pc'[w] = "used") <=> (pc[w] = "used")
  PROVE  Increments' = Increments
BY DEF Increments

-----------------------------------------------------------------------------

\* main() starts with a free lock and no increments.
LEMMA InitIInv == Init => IInv
<1> SUFFICES ASSUME Init PROVE IInv
  OBVIOUS
<1>1. TypeOK /\ Exclusion /\ LockState /\ BarrierState /\ NoStaleValue
  BY DEF Init, TypeOK, Exclusion, LockState, BarrierState, NoStaleValue, Inside, Threads
<1>2. Increments = {}
  BY DEF Init, Increments, Threads
<1>3. NoLostUpdate
  BY <1>2, FS_EmptySet DEF NoLostUpdate, Init
<1> QED BY <1>1, <1>3 DEF IInv

\* The steps of one thread that keep their hands off shared_num and the lock.
LEMMA QuietStep ==
  ASSUME IInv, NEW t \in Threads, UNCHANGED <<main, i, num, shared_num, numlock>>,
         ~Inside(t), ~Inside(t)',
         \A u \in Threads \ {t} : pc'[u] = pc[u],
         TypeOK', BarrierState'
  PROVE  IInv'
<1>1. \A u \in Threads : Inside(u)' <=> Inside(u)
  BY DEF Inside
<1>2. Exclusion' /\ LockState'
  BY <1>1 DEF IInv, Exclusion, LockState, Threads
<1>3. NoStaleValue'
  BY DEF IInv, NoStaleValue, Inside
<1>4. \A w \in Writers : (pc'[w] = "used") <=> (pc[w] = "used")
  BY DEF Inside, Threads
<1>5. Increments' = Increments
  BY <1>4, IncrementsUnchanged
<1>6. NoLostUpdate'
  BY <1>5 DEF IInv, NoLostUpdate
<1> QED BY <1>2, <1>3, <1>6 DEF IInv

\* A thread starts outside the lock; a failed uv_thread_create ends the program.
LEMMA CreateStep ==
  ASSUME IInv, NEW t \in Threads, Create(t)
  PROVE  IInv'
<1>1. TypeOK'
  BY DEF IInv, TypeOK, Create
<1>2. BarrierState'
  BY DEF IInv, TypeOK, BarrierState, Create, Inside
<1>3. CASE UNCHANGED pc
  <2>1. Increments' = Increments
    BY <1>3, IncrementsUnchanged DEF Create
  <2>2. NoLostUpdate'
    BY <2>1 DEF IInv, NoLostUpdate, Create
  <2> QED BY <1>1, <1>2, <1>3, <2>2 DEF IInv, Create, Exclusion, LockState, NoStaleValue, Inside
<1>4. CASE UNCHANGED main
  BY <1>1, <1>2, <1>4, QuietStep DEF IInv, TypeOK, Create, Inside
<1> QED BY <1>3, <1>4 DEF Create

\* A thread comes in when the lock admits it: nobody is in the way.
LEMMA LockStep ==
  ASSUME IInv, NEW t \in Threads, Lock(t)
  PROVE  IInv'
<1>1. TypeOK'
  BY DEF IInv, TypeOK, Lock, Holding, Mode, Threads
<1>2. \A u \in Threads : Inside(u)' <=> (Inside(u) \/ u = t)
  BY DEF IInv, TypeOK, Lock, Inside
<1>3. LockState'
  BY <1>2 DEF IInv, TypeOK, Lock, Holding, Mode, LockState, Threads
<1>4. Exclusion'
  BY <1>2 DEF IInv, Exclusion, Lock, Admits, Mode, LockState, Threads
<1>5. BarrierState'
  BY DEF IInv, TypeOK, BarrierState, Lock, Inside
<1>6. NoStaleValue'
  BY DEF IInv, TypeOK, NoStaleValue, Lock
<1>7. Increments' = Increments
  BY IncrementsUnchanged DEF IInv, TypeOK, Lock, Threads
<1>8. NoLostUpdate'
  BY <1>7 DEF IInv, NoLostUpdate, Lock
<1> QED BY <1>1, <1>3, <1>4, <1>5, <1>6, <1>8 DEF IInv

\* A failed try changes r only.
LEMMA RetryStep ==
  ASSUME IInv, NEW t \in Threads, Retry(t)
  PROVE  IInv'
<1>1. TypeOK'
  BY DEF IInv, TypeOK, Retry
<1>2. BarrierState'
  BY DEF IInv, BarrierState, Retry, Inside
<1> QED BY <1>1, <1>2, QuietStep DEF Retry, Inside

\* What is loaded is current at that moment.
LEMMA LoadStep ==
  ASSUME IInv, NEW t \in Threads, Load(t)
  PROVE  IInv'
<1>1. TypeOK'
  BY DEF IInv, TypeOK, Load
<1>2. \A u \in Threads : Inside(u)' <=> Inside(u)
  BY DEF IInv, TypeOK, Load, Inside
<1>3. LockState' /\ Exclusion'
  BY <1>2 DEF IInv, Load, LockState, Exclusion, Threads
<1>4. BarrierState'
  BY <1>2 DEF IInv, TypeOK, BarrierState, Load, Inside
<1>5. NoStaleValue'
  BY DEF IInv, TypeOK, NoStaleValue, Load
<1>6. \A w \in Writers : (pc'[w] = "used") <=> (pc[w] = "used")
  BY DEF IInv, TypeOK, Load, Threads
<1>7. Increments' = Increments
  BY <1>6, IncrementsUnchanged DEF Load
<1>8. NoLostUpdate'
  BY <1>7 DEF IInv, NoLostUpdate, Load
<1> QED BY <1>1, <1>3, <1>4, <1>5, <1>8 DEF IInv

\* The store of a writer counts once: the value it adds to is current, and
\* nobody else has loaded one.
LEMMA StoreStep ==
  ASSUME IInv, NEW t \in Threads, Store(t)
  PROVE  IInv'
<1>1. TypeOK'
  BY DEF IInv, TypeOK, Store
<1>2. \A u \in Threads : Inside(u)' <=> Inside(u)
  BY DEF IInv, TypeOK, Store, Inside
<1>3. LockState' /\ Exclusion'
  BY <1>2 DEF IInv, Store, LockState, Exclusion, Threads
<1>4. BarrierState'
  BY <1>2 DEF IInv, TypeOK, BarrierState, Store, Inside
<1>5. t \in Writers /\ i[t] < ROUNDS /\ i[t] \in 0..ROUNDS
  BY DEF IInv, TypeOK, BarrierState, Store, Inside
<1>6. NoStaleValue'
  <2>1. \A u \in Threads : Inside(u) => u = t
    BY <1>5 DEF IInv, Exclusion, Store, Inside
  <2> QED BY <2>1 DEF IInv, TypeOK, NoStaleValue, Store, Inside
<1>7. shared_num' = shared_num + 1
  BY DEF IInv, NoStaleValue, Store
<1>8. <<t, i[t] + 1>> \notin Increments
  BY <1>5 DEF Increments, Store
<1>9. Increments' = Increments \cup {<<t, i[t] + 1>>}
  <2>1. \A w \in Writers, k \in 1..ROUNDS :
          <<w, k>> \in Increments' <=> <<w, k>> \in Increments \/ <<w, k>> = <<t, i[t] + 1>>
    <3> SUFFICES ASSUME NEW w \in Writers, NEW k \in 1..ROUNDS
                 PROVE <<w, k>> \in Increments' <=>
                         <<w, k>> \in Increments \/ <<w, k>> = <<t, i[t] + 1>>
      OBVIOUS
    <3>1. i' = i /\ pc[t] = "loaded" /\ pc' = [pc EXCEPT ![t] = "used"]
      BY DEF Store
    <3>2. CASE w = t
      <4>1. <<w, k>> \in Increments' <=> k <= i[t] + 1
        BY <3>1, <3>2, <1>5 DEF Increments, IInv, TypeOK
      <4>2. <<w, k>> \in Increments <=> k <= i[t]
        BY <3>1, <3>2, <1>5 DEF Increments
      <4> QED BY <4>1, <4>2, <3>2, <1>5
    <3>3. CASE w # t
      BY <3>1, <3>3 DEF Increments, IInv, TypeOK, Threads
    <3> QED BY <3>2, <3>3
  <2>2. \A e \in Increments : e \in Writers \X (1..ROUNDS)
    BY DEF Increments
  <2>3. \A e \in Increments' : e \in Writers \X (1..ROUNDS)
    BY DEF Increments
  <2>4. <<t, i[t] + 1>> \in Writers \X (1..ROUNDS)
    BY <1>5
  <2> QED BY <2>1, <2>2, <2>3, <2>4
<1>10. Cardinality(Increments') = Cardinality(Increments) + 1
  BY <1>8, <1>9, IncrementsFinite, FS_AddElement
<1>11. NoLostUpdate'
  BY <1>7, <1>10 DEF IInv, NoLostUpdate
<1> QED BY <1>1, <1>3, <1>4, <1>6, <1>11 DEF IInv

\* The round ends together with the turn: the increment stays the one that
\* Store counted.
LEMMA UnlockStep ==
  ASSUME IInv, NEW t \in Threads, Unlock(t)
  PROVE  IInv'
<1>1. i[t] < ROUNDS /\ i[t] \in 0..ROUNDS
  BY DEF IInv, TypeOK, BarrierState, Unlock, Inside
<1>2. TypeOK'
  BY <1>1 DEF IInv, TypeOK, Unlock, Released, Mode
<1>3. \A u \in Threads : Inside(u)' <=> (Inside(u) /\ u # t)
  BY DEF IInv, TypeOK, Unlock, Inside
<1>4. LockState'
  BY <1>3 DEF IInv, TypeOK, Unlock, Released, Mode, LockState, Threads
<1>5. Exclusion'
  BY <1>3 DEF IInv, Exclusion, Threads
<1>6. BarrierState'
  BY <1>1 DEF IInv, TypeOK, BarrierState, Unlock, Inside
<1>7. NoStaleValue'
  BY DEF IInv, TypeOK, NoStaleValue, Unlock
<1>8. Increments' = Increments
  <2>1. \A w \in Writers :
          i[w] + (IF pc[w] = "used" THEN 1 ELSE 0) = (i[w] + (IF pc[w] = "used" THEN 1 ELSE 0))'
    BY DEF IInv, TypeOK, Unlock, Threads
  <2> QED BY <2>1 DEF Increments
<1>9. NoLostUpdate'
  BY <1>8 DEF IInv, NoLostUpdate, Unlock
<1> QED BY <1>2, <1>4, <1>5, <1>6, <1>7, <1>9 DEF IInv

\* A thread arrives at the barrier with its rounds behind it.
LEMMA ArriveStep ==
  ASSUME IInv, NEW t \in Threads, Arrive(t)
  PROVE  IInv'
<1>1. TypeOK'
  BY DEF IInv, TypeOK, Arrive
<1>2. BarrierState'
  BY DEF IInv, TypeOK, BarrierState, Arrive, Inside
<1> QED BY <1>1, <1>2, QuietStep DEF IInv, TypeOK, Arrive, Inside

\* Leaving the barrier touches nothing that is shared.
LEMMA LeaveStep ==
  ASSUME IInv, NEW t \in Threads, Leave(t)
  PROVE  IInv'
<1>1. TypeOK'
  BY DEF IInv, TypeOK, Leave
<1>2. BarrierState'
  BY DEF IInv, TypeOK, BarrierState, Leave, Inside
<1> QED BY <1>1, <1>2, QuietStep DEF IInv, TypeOK, Leave, Inside

\* main() leaves the barrier when every thread has arrived (BarrierCounts).
LEMMA MainStep ==
  ASSUME IInv, Main
  PROVE  IInv'
<1>1. TypeOK'
  BY DEF IInv, TypeOK, Main
<1>2. BarrierState'
  BY BarrierCounts DEF IInv, BarrierState, Main, Inside
<1>3. Increments' = Increments
  BY IncrementsUnchanged DEF Main
<1>4. NoLostUpdate'
  BY <1>3 DEF IInv, NoLostUpdate, Main
<1> QED BY <1>1, <1>2, <1>4 DEF IInv, Main, Exclusion, LockState, NoStaleValue, Inside

\* Every step of the program keeps the invariant.
LEMMA NextIInv == IInv /\ [Next]_vars => IInv'
<1> SUFFICES ASSUME IInv, [Next]_vars PROVE IInv'
  OBVIOUS
<1>1. CASE UNCHANGED vars
  <2>1. Increments' = Increments
    BY <1>1, IncrementsUnchanged DEF vars
  <2> QED BY <1>1, <2>1 DEF vars, IInv, TypeOK, Exclusion, LockState, BarrierState,
                           NoStaleValue, NoLostUpdate, Inside
<1>2. ASSUME NEW t \in Threads, Create(t) \/ Thread(t) PROVE IInv'
  BY <1>2, CreateStep, LockStep, RetryStep, LoadStep, StoreStep, UnlockStep,
     ArriveStep, LeaveStep DEF Thread
<1>3. CASE Main
  BY <1>3, MainStep
<1>4. CASE Exited
  BY <1>4, <1>1 DEF Exited
<1> QED BY <1>1, <1>2, <1>3, <1>4 DEF Next

\* The inductive invariant holds in every reachable state.
THEOREM Invariance == Spec => []IInv
BY InitIInv, NextIInv, PTL DEF Spec

-----------------------------------------------------------------------------

\* Every variable keeps its type; in particular no thread runs a round too many.
THEOREM TypeCorrect == Spec => []TypeOK
<1>1. IInv => TypeOK
  BY DEF IInv
<1> QED BY <1>1, Invariance, PTL

\* A writer is alone between uv_rwlock_wrlock and uv_rwlock_wrunlock.
THEOREM WritersAreAlone == Spec => []Exclusion
<1>1. IInv => Exclusion
  BY DEF IInv
<1> QED BY <1>1, Invariance, PTL

\* What a thread loaded stays current as long as the thread holds the lock.
THEOREM ValuesAreCurrent == Spec => []NoStaleValue
<1>1. IInv => NoStaleValue
  BY DEF IInv
<1> QED BY <1>1, Invariance, PTL

\* shared_num is the number of increments, in every interleaving.
THEOREM IncrementsAreKept == Spec => []NoLostUpdate
<1>1. IInv => NoLostUpdate
  BY DEF IInv
<1> QED BY <1>1, Invariance, PTL

\* main() destroys the lock when no thread will take it again, and the number
\* it leaves behind is ROUNDS for every writer.
THEOREM DestroyedWhenUnused == Spec => []LockOutlivesUse
<1>1. IInv => LockOutlivesUse
  <2> SUFFICES ASSUME IInv, main \in {"destroy_barrier", "destroy_lock", "returned"}
               PROVE  /\ \A t \in Threads : pc[t] \in {"waiting", "gone"}
                      /\ shared_num = Cardinality(Writers) * ROUNDS
    BY DEF LockOutlivesUse
  <2>1. \A t \in Threads : pc[t] \in {"waiting", "gone"}
    BY DEF IInv, BarrierState
  <2>2. \A t \in Threads : i[t] = ROUNDS
    BY <2>1 DEF IInv, BarrierState
  <2>3. Increments = Writers \X (1..ROUNDS)
    BY <2>2 DEF Increments, Threads
  <2>4. /\ IsFiniteSet(1..ROUNDS)
        /\ Cardinality(1..ROUNDS) = IF 1 > ROUNDS THEN 0 ELSE ROUNDS - 1 + 1
    BY FS_Interval
  <2>5. Cardinality(1..ROUNDS) = ROUNDS
    BY <2>4
  <2>6. Cardinality(Increments) = Cardinality(Writers) * ROUNDS
    BY <2>3, <2>4, <2>5, FS_Product
  <2> QED BY <2>1, <2>6 DEF IInv, NoLostUpdate
<1> QED BY <1>1, Invariance, PTL

-----------------------------------------------------------------------------
(* Deadlock, and how long the threads can go on.                            *)

\* Who could take the next step of its program at once: a failed try is none.
CanStep(t) ==
  \/ main = "create" /\ pc[t] = "none"
  \/ pc[t] = "top" /\ (i[t] = ROUNDS \/ Admits(t))
  \/ Inside(t)

MainCanStep ==
  \/ main = "create" /\ \A t \in Threads : pc[t] # "none"
  \/ main = "waiting" /\ BarrierOpen
  \/ main \in {"destroy_barrier", "destroy_lock"}

NobodyStuck == Alive => MainCanStep \/ \E t \in Threads : CanStep(t)

\* main() waits only after it has created every thread.
Started == main \notin {"create", "aborted"} => \A t \in Threads : pc[t] # "none"

LEMMA StartedStep == IInv /\ Started /\ [Next]_vars => Started'
<1> SUFFICES ASSUME IInv, Started, [Next]_vars PROVE Started'
  OBVIOUS
<1>1. pc \in [Threads -> {"none", "top", "locked", "loaded", "used", "waiting", "gone"}]
  BY DEF IInv, TypeOK
<1>2. ASSUME NEW t \in Threads, Create(t)
      PROVE  Started'
  BY <1>2 DEF Create, Started
<1>3. ASSUME NEW t \in Threads, Thread(t)
      PROVE  Started'
  <2>1. main' = main /\ \E s \in {"top", "locked", "loaded", "used", "waiting", "gone"} :
                          pc' = pc \/ pc' = [pc EXCEPT ![t] = s]
    BY <1>3 DEF Thread, Lock, Retry, Load, Store, Unlock, Arrive, Leave
  <2> QED BY <1>1, <2>1 DEF Started
<1>4. CASE Main
  BY <1>4 DEF Main, Started
<1>5. CASE UNCHANGED vars \/ Exited
  BY <1>5 DEF Exited, vars, Started
<1> QED BY <1>2, <1>3, <1>4, <1>5 DEF Next

\* A thread that the lock keeps out is kept out by one inside.
LEMMA KeptOut ==
  ASSUME IInv, NEW t \in Threads, ~Admits(t)
  PROVE  \E u \in Threads : Inside(u)
<1>1. numlock.wr # {} \/ numlock.rd # {}
  BY DEF Admits
<1> QED BY <1>1 DEF IInv, LockState, Threads

\* If every thread has arrived, and main, the barrier lets them go.
LEMMA AllArrived ==
  ASSUME blocker = Threads, main = "waiting"
  PROVE  BarrierOpen
<1>1. Cardinality(Threads) \in Nat
  BY FS_Union, FS_CardinalityType DEF Threads
<1> QED BY <1>1 DEF BarrierOpen, Arrived, MainWaits, count

\* Until main() returns somebody can always go on: no order in which the threads
\* take the lock and arrive leaves them all waiting, for the lock or at the barrier.
THEOREM NoDeadlock == Spec => []NobodyStuck
<1>1. Init => Started
  BY DEF Init, Started
<1>2. IInv /\ Started => NobodyStuck
  <2> SUFFICES ASSUME IInv, Started, Alive, ~MainCanStep, \A t \in Threads : ~CanStep(t)
               PROVE  FALSE
    BY DEF NobodyStuck
  <2>1. main = "waiting"
    BY DEF IInv, TypeOK, Alive, MainCanStep, CanStep
  <2>2. ASSUME NEW t \in Threads
        PROVE  pc[t] \in {"waiting", "gone"}
    <3>1. pc[t] \in {"none", "top", "locked", "loaded", "used", "waiting", "gone"}
      BY DEF IInv, TypeOK
    <3>2. pc[t] # "none"
      BY <2>1 DEF Started
    <3>3. \A u \in Threads : ~Inside(u)
      BY DEF CanStep
    <3>4. pc[t] # "top"
      BY <3>3, KeptOut DEF CanStep
    <3> QED BY <3>1, <3>2, <3>3, <3>4 DEF Inside
  <2>3. blocker = Threads
    BY <2>2 DEF IInv, BarrierState
  <2> QED BY <2>1, <2>3, AllArrived DEF MainCanStep
<1> QED BY <1>1, <1>2, StartedStep, Invariance, PTL DEF Spec

\* How far a thread is, from its creation to the end of its entry function, if
\* it is at p and has k rounds behind it.
StageAt(p, k) ==
  CASE p = "none"    -> 0
    [] p = "top"     -> 4 * k + 1
    [] p = "locked"  -> 4 * k + 2
    [] p = "loaded"  -> 4 * k + 3
    [] p = "used"    -> 4 * k + 4
    [] p = "waiting" -> 4 * ROUNDS + 2
    [] p = "gone"    -> 4 * ROUNDS + 3

Stage(t) == StageAt(pc[t], i[t])

LEMMA StageValues ==
  ASSUME NEW k
  PROVE  /\ StageAt("none", k) = 0 /\ StageAt("top", k) = 4 * k + 1
         /\ StageAt("locked", k) = 4 * k + 2 /\ StageAt("loaded", k) = 4 * k + 3
         /\ StageAt("used", k) = 4 * k + 4
         /\ StageAt("waiting", k) = 4 * ROUNDS + 2 /\ StageAt("gone", k) = 4 * ROUNDS + 3
BY DEF StageAt

LastStage == 4 * ROUNDS + 3

\* The stages that threads have before them.
StagesLeft == {e \in Threads \X (1..LastStage) : Stage(e[1]) < e[2]}

LEMMA StagesFinite == IsFiniteSet(StagesLeft)
<1>1. IsFiniteSet(Threads)
  BY FS_Union DEF Threads
<1>2. LastStage \in Nat
  BY DEF LastStage
<1>3. IsFiniteSet(1..LastStage)
  BY <1>2, FS_Interval
<1>4. IsFiniteSet(Threads \X (1..LastStage))
  BY <1>1, <1>3, FS_Product
<1> QED BY <1>4, FS_Subset DEF StagesLeft

LEMMA StageRange ==
  ASSUME NEW k \in 0..ROUNDS,
         NEW p \in {"none", "top", "locked", "loaded", "used", "waiting", "gone"},
         p \in {"locked", "loaded", "used"} => k < ROUNDS
  PROVE  StageAt(p, k) \in 0..LastStage
<1>1. 4 * k + 1 <= LastStage /\ 4 * ROUNDS + 2 <= LastStage /\ LastStage \in Nat
  BY DEF LastStage
<1>2. p \in {"locked", "loaded", "used"} => 4 * k + 4 <= LastStage
  BY DEF LastStage
<1>3. CASE p \in {"locked", "loaded", "used"}
  BY <1>1, <1>2, <1>3, StageValues
<1>4. CASE p \in {"none", "top"}
  BY <1>1, <1>4, StageValues
<1>5. CASE p \in {"waiting", "gone"}
  BY <1>1, <1>5, StageValues DEF LastStage
<1> QED BY <1>3, <1>4, <1>5

\* A thread that gets further, when the others stay where they are, has fewer
\* stages left.
LEMMA StageTaken ==
  ASSUME NEW t \in Threads, Stage(t) \in 0..LastStage, Stage(t)' \in 0..LastStage,
         Stage(t) < Stage(t)', \A u \in Threads \ {t} : Stage(u)' = Stage(u)
  PROVE  StagesLeft' \subseteq StagesLeft /\ Cardinality(StagesLeft') < Cardinality(StagesLeft)
<1> DEFINE e == <<t, Stage(t)'>>
<1>1. LastStage \in Nat
  BY DEF LastStage
<1>2. StagesLeft' \subseteq StagesLeft
  <2> SUFFICES ASSUME NEW u \in Threads, NEW k \in 1..LastStage, Stage(u)' < k
               PROVE  Stage(u) < k
    BY DEF StagesLeft
  <2>1. CASE u = t
    BY <1>1, <2>1
  <2>2. CASE u # t
    BY <2>2
  <2> QED BY <2>1, <2>2
<1>3. e \in StagesLeft
  BY <1>1 DEF StagesLeft
<1>4. e \notin StagesLeft'
  BY DEF StagesLeft
<1>5. IsFiniteSet(StagesLeft) /\ StagesLeft' # StagesLeft
  BY <1>3, <1>4, StagesFinite
<1> QED BY <1>2, <1>5, FS_Subset, FS_CardinalityType

\* The steps of a thread that are not a failed try bring it further.
LEMMA ThreadAdvances ==
  ASSUME IInv, NEW t \in Threads, Create(t) \/ Thread(t), pc' # pc
  PROVE  Stage(t) < Stage(t)' /\ \A u \in Threads \ {t} : Stage(u)' = Stage(u)
<1>1. /\ pc \in [Threads -> {"none", "top", "locked", "loaded", "used", "waiting", "gone"}]
      /\ i \in [Threads -> 0..ROUNDS]
  BY DEF IInv, TypeOK
<1>2. \A u \in Threads \ {t} : pc'[u] = pc[u] /\ i'[u] = i[u]
  BY <1>1 DEF Create, Thread, Lock, Retry, Load, Store, Unlock, Arrive, Leave
<1>3. \A u \in Threads \ {t} : Stage(u)' = Stage(u)
  BY <1>2 DEF Stage
<1>4. i[t] \in Nat /\ i[t] <= ROUNDS
  BY <1>1
<1>5. Stage(t) = StageAt(pc[t], i[t]) /\ Stage(t)' = StageAt(pc'[t], i'[t])
  BY DEF Stage
<1>6. CASE Create(t)
  <2>1. pc[t] = "none" /\ pc'[t] = "top" /\ i'[t] = i[t]
    BY <1>1, <1>6 DEF Create
  <2> QED BY <1>3, <1>4, <1>5, <2>1, StageValues
<1>7. CASE Lock(t)
  <2>1. pc[t] = "top" /\ pc'[t] = "locked" /\ i'[t] = i[t]
    BY <1>1, <1>7 DEF Lock
  <2> QED BY <1>3, <1>4, <1>5, <2>1, StageValues
<1>8. CASE Load(t)
  <2>1. pc[t] = "locked" /\ pc'[t] \in {"loaded", "used"} /\ i'[t] = i[t]
    BY <1>1, <1>8 DEF Load
  <2> QED BY <1>3, <1>4, <1>5, <2>1, StageValues
<1>9. CASE Store(t)
  <2>1. pc[t] = "loaded" /\ pc'[t] = "used" /\ i'[t] = i[t]
    BY <1>1, <1>9 DEF Store
  <2> QED BY <1>3, <1>4, <1>5, <2>1, StageValues
<1>10. CASE Unlock(t)
  <2>1. pc[t] = "used" /\ pc' = [pc EXCEPT ![t] = "top"] /\ i' = [i EXCEPT ![t] = i[t] + 1]
    BY <1>10 DEF Unlock
  <2>2. pc[t] = "used" /\ pc'[t] = "top" /\ i'[t] = i[t] + 1
    BY <1>1, <2>1
  <2> QED BY <1>3, <1>4, <1>5, <2>2, StageValues
<1>11. CASE Arrive(t)
  <2>1. pc[t] = "top" /\ pc'[t] = "waiting" /\ i[t] = ROUNDS
    BY <1>1, <1>11 DEF Arrive
  <2> QED BY <1>3, <1>4, <1>5, <2>1, StageValues
<1>12. CASE Leave(t)
  <2>1. pc[t] = "waiting" /\ pc'[t] = "gone" /\ i'[t] = i[t]
    BY <1>1, <1>12 DEF Leave
  <2> QED BY <1>3, <1>4, <1>5, <2>1, StageValues
<1>13. CASE Retry(t)
  BY <1>13 DEF Retry
<1> QED BY <1>6, <1>7, <1>8, <1>9, <1>10, <1>11, <1>12, <1>13 DEF Thread

\* Every step of a thread but a failed try uses up one of finitely many, and no
\* step gives one back: however they are scheduled, the threads cannot go on for
\* ever without arriving at the barrier.
StagesRunOut ==
  [][IF pc' = pc THEN StagesLeft' = StagesLeft
                 ELSE Cardinality(StagesLeft') < Cardinality(StagesLeft)]_vars

THEOREM ThreadsRunOut == Spec => StagesRunOut
<1>1. IInv /\ IInv' /\ [Next]_vars =>
        [IF pc' = pc THEN StagesLeft' = StagesLeft
                     ELSE Cardinality(StagesLeft') < Cardinality(StagesLeft)]_vars
  <2> SUFFICES ASSUME IInv, IInv', Next
               PROVE  IF pc' = pc THEN StagesLeft' = StagesLeft
                      ELSE Cardinality(StagesLeft') < Cardinality(StagesLeft)
    OBVIOUS
  <2>1. ASSUME pc' = pc
        PROVE  StagesLeft' = StagesLeft
    <3>1. i' = i
      <4>1. ASSUME NEW t \in Threads, Unlock(t)
            PROVE  FALSE
        BY <2>1, <4>1 DEF Unlock, IInv, TypeOK
      <4> QED BY <4>1 DEF Next, Create, Thread, Lock, Retry, Load, Store, Arrive, Leave,
                         Main, Exited, vars
    <3> QED BY <2>1, <3>1 DEF StagesLeft, Stage
  <2>2. ASSUME pc' # pc
        PROVE  Cardinality(StagesLeft') < Cardinality(StagesLeft)
    <3>1. PICK t \in Threads : Create(t) \/ Thread(t)
      BY <2>2 DEF Next, Main, Exited, vars
    <3>2. Stage(t) \in 0..LastStage
      <4>1. /\ pc[t] \in {"none", "top", "locked", "loaded", "used", "waiting", "gone"}
            /\ i[t] \in 0..ROUNDS
            /\ pc[t] \in {"locked", "loaded", "used"} => i[t] < ROUNDS
        BY DEF IInv, TypeOK, BarrierState, Inside
      <4> QED BY <4>1, StageRange DEF Stage
    <3>3. Stage(t)' \in 0..LastStage
      <4>1. /\ pc'[t] \in {"none", "top", "locked", "loaded", "used", "waiting", "gone"}
            /\ i'[t] \in 0..ROUNDS
            /\ pc'[t] \in {"locked", "loaded", "used"} => i'[t] < ROUNDS
        BY DEF IInv, TypeOK, BarrierState, Inside
      <4> QED BY <4>1, StageRange DEF Stage
    <3> QED BY <2>2, <3>1, <3>2, <3>3, ThreadAdvances, StageTaken
  <2> QED BY <2>1, <2>2
<1> QED BY <1>1, Invariance, PTL DEF Spec, StagesRunOut
=============================================================================
