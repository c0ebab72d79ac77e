------------------------------- MODULE Locks --------------------------------
(***************************************************************************)
(* examples/10-locks and examples/10-locks-try: threads that read and      *)
(* increment shared_num in rounds under a read-write lock, and a main      *)
(* thread that waits for them at a barrier before it destroys the lock.    *)
(* The two programs differ in how a lock is taken: uv_rwlock_rdlock and    *)
(* uv_rwlock_wrlock wait for it, the try functions return EBUSY and the    *)
(* thread goes round its do-while loop.                                    *)
(*                                                                         *)
(* shared_num++ is a load and a store, and a thread may be preempted       *)
(* between any two steps.                                                  *)
(***************************************************************************)
EXTENDS Integers, FiniteSets

CONSTANTS
  Readers, Writers,  \* threads that run reader_entry, writer_entry
  ROUNDS,            \* rounds of each
  Try,               \* TRUE for 10-locks-try
  CreateFails        \* TRUE: uv_thread_create may fail

Threads == Readers \cup Writers

ASSUME ThreadsFinite == IsFiniteSet(Readers) /\ IsFiniteSet(Writers)
ASSUME RolesDiffer == Readers \cap Writers = {}
ASSUME RoundsNat == ROUNDS \in Nat
ASSUME SwitchesBoolean == Try \in BOOLEAN /\ CreateFails \in BOOLEAN

VARIABLES
  main,        \* where main() is
  pc,          \* [Threads -> where its entry function is]
  i,           \* [Threads -> 0..ROUNDS], rounds completed
  r,           \* [Threads -> {"0", "EBUSY"}], what the last try returned
  num,         \* [Threads -> Int], shared_num as the thread last loaded it
  shared_num,
  numlock,     \* the threads that hold the lock: [rd |-> ..., wr |-> ...]
  blocker      \* the threads that called uv_barrier_wait; main is counted apart

vars == <<main, pc, i, r, num, shared_num, numlock, blocker>>

Init ==
  /\ main = "create"
  /\ pc = [t \in Threads |-> "none"]
  /\ i = [t \in Threads |-> 0]
  /\ r = [t \in Threads |-> "0"]
  /\ num = [t \in Threads |-> 0]
  /\ shared_num = 0
  /\ numlock = [rd |-> {}, wr |-> {}]
  /\ blocker = {}

\* Threads run until main() returns, or an assertion stops the process.
Alive == main \notin {"returned", "aborted"}

-----------------------------------------------------------------------------
(* reader_entry and writer_entry.                                           *)

\* A mutant of the next one: writer_entry calls uv_rwlock_rdlock.
Mode_Shared(t) == "rd"
\* The lock each entry function takes, and gives back.
Mode(t) == IF t \in Readers THEN "rd" ELSE "wr"

\* What the lock lets in: who reads while no thread writes, who writes alone.
Admits(t) ==
  /\ numlock.wr = {}
  /\ Mode(t) = "wr" => numlock.rd = {}

Holding(t) == IF Mode(t) = "rd" THEN [numlock EXCEPT !.rd = @ \cup {t}]
                                ELSE [numlock EXCEPT !.wr = @ \cup {t}]

Lock(t) ==
  /\ Alive /\ pc[t] = "top" /\ i[t] < ROUNDS
  /\ Admits(t)
  /\ numlock' = Holding(t)
  /\ r' = [r EXCEPT ![t] = "0"]
  /\ pc' = [pc EXCEPT ![t] = "locked"]
  /\ UNCHANGED <<main, i, num, shared_num, blocker>>

\* do { r = uv_rwlock_try...lock } while(r)
Retry(t) ==
  /\ Alive /\ pc[t] = "top" /\ i[t] < ROUNDS
  /\ Try /\ ~Admits(t)
  /\ r' = [r EXCEPT ![t] = "EBUSY"]
  /\ UNCHANGED <<main, pc, i, num, shared_num, numlock, blocker>>

\* A reader prints the value, a writer is about to add to it.
Load(t) ==
  /\ Alive /\ pc[t] = "locked"
  /\ num' = [num EXCEPT ![t] = shared_num]
  /\ pc' = [pc EXCEPT ![t] = IF t \in Writers THEN "loaded" ELSE "used"]
  /\ UNCHANGED <<main, i, r, shared_num, numlock, blocker>>

Store(t) ==
  /\ Alive /\ pc[t] = "loaded"
  /\ shared_num' = num[t] + 1
  /\ num' = [num EXCEPT ![t] = @ + 1]
  /\ pc' = [pc EXCEPT ![t] = "used"]
  /\ UNCHANGED <<main, i, r, numlock, blocker>>

Released(t) == IF Mode(t) = "rd" THEN [numlock EXCEPT !.rd = @ \ {t}]
                                 ELSE [numlock EXCEPT !.wr = @ \ {t}]

Unlock(t) ==
  /\ Alive /\ pc[t] = "used"
  /\ numlock' = Released(t)
  /\ i' = [i EXCEPT ![t] = @ + 1]
  /\ pc' = [pc EXCEPT ![t] = "top"]
  /\ UNCHANGED <<main, r, num, shared_num, blocker>>

\* The loop is over: uv_barrier_wait.
Arrive(t) ==
  /\ Alive /\ pc[t] = "top" /\ i[t] = ROUNDS
  /\ blocker' = blocker \cup {t}
  /\ pc' = [pc EXCEPT ![t] = "waiting"]
  /\ UNCHANGED <<main, i, r, num, shared_num, numlock>>

-----------------------------------------------------------------------------
(* main() and the barrier.                                                  *)

\* uv_barrier_init: every thread and main itself.
count_Short == Cardinality(Threads)
count_Long == Cardinality(Threads) + 2
count == Cardinality(Threads) + 1

MainWaits == main \in {"waiting", "aborted", "destroy_barrier", "destroy_lock", "returned"}
Arrived == Cardinality(blocker) + (IF MainWaits THEN 1 ELSE 0)
BarrierOpen == Arrived >= count

Leave(t) ==
  /\ Alive /\ pc[t] = "waiting" /\ BarrierOpen
  /\ pc' = [pc EXCEPT ![t] = "gone"]
  /\ UNCHANGED <<main, i, r, num, shared_num, numlock, blocker>>

\* uv_thread_create; the order in which the threads are created is left open.
Create(t) ==
  /\ main = "create" /\ pc[t] = "none"
  /\ \/ pc' = [pc EXCEPT ![t] = "top"] /\ UNCHANGED main
     \/ CreateFails /\ main' = "aborted" /\ UNCHANGED pc
  /\ UNCHANGED <<i, r, num, shared_num, numlock, blocker>>

Main ==
  /\ \/ /\ main = "create" /\ \A t \in Threads : pc[t] # "none"
        /\ main' = "waiting"
     \/ /\ main = "waiting" /\ BarrierOpen
        /\ main' = "destroy_barrier"
     \/ /\ main = "destroy_barrier"
        /\ main' = "destroy_lock"
     \/ /\ main = "destroy_lock"
        /\ main' = "returned"
  /\ UNCHANGED <<pc, i, r, num, shared_num, numlock, blocker>>

Exited == ~Alive /\ UNCHANGED vars

Thread(t) == \/ Lock(t) \/ Retry(t) \/ Load(t) \/ Store(t)
             \/ Unlock(t) \/ Arrive(t) \/ Leave(t)

Next == \/ \E t \in Threads : Create(t) \/ Thread(t)
        \/ Main \/ Exited

Spec == Init /\ [][Next]_vars

\* The system schedules every thread.  It owes a thread that waits for the
\* lock nothing while others come and go: WF(Lock) is only about the time when
\* the lock stays free.
Fairness ==
  /\ WF_vars(Main)
  /\ \A t \in Threads :
       /\ WF_vars(Create(t)) /\ WF_vars(Lock(t)) /\ WF_vars(Load(t))
       /\ WF_vars(Store(t)) /\ WF_vars(Unlock(t)) /\ WF_vars(Arrive(t))

FairSpec == Spec /\ Fairness

-----------------------------------------------------------------------------
(* What is checked.                                                         *)

Inside(t) == pc[t] \in {"locked", "loaded", "used"}

TypeOK ==
  /\ main \in {"create", "waiting", "destroy_barrier", "destroy_lock", "returned", "aborted"}
  /\ pc \in [Threads -> {"none", "top", "locked", "loaded", "used", "waiting", "gone"}]
  /\ i \in [Threads -> 0..ROUNDS]
  /\ r \in [Threads -> {"0", "EBUSY"}]
  /\ num \in [Threads -> Nat]
  /\ shared_num \in Nat
  /\ numlock \in [rd : SUBSET Readers, wr : SUBSET Writers]
  /\ blocker \in SUBSET Threads

\* A writer is alone with shared_num.
Exclusion ==
  \A w \in Writers : \A t \in Threads : Inside(w) /\ Inside(t) => t = w

\* What a thread loaded is still what shared_num holds when the thread prints
\* it, or adds to it: no value is stale while the lock is held.
NoStaleValue ==
  \A t \in Threads : pc[t] \in {"loaded", "used"} => num[t] = shared_num

\* The increments there have been.  A writer whose store is done and whose
\* round is not is counted too.
Increments ==
  {e \in Writers \X (1..ROUNDS) :
     e[2] <= i[e[1]] + (IF pc[e[1]] = "used" THEN 1 ELSE 0)}

\* No increment is lost to another one, wherever a thread is preempted.
NoLostUpdate == shared_num = Cardinality(Increments)

\* Once main() leaves the barrier no thread will come back to the lock that
\* main() is about to destroy, and shared_num is final.
LockOutlivesUse ==
  main \in {"destroy_barrier", "destroy_lock", "returned"} =>
    /\ \A t \in Threads : pc[t] \in {"waiting", "gone"}
    /\ shared_num = Cardinality(Writers) * ROUNDS

\* main() gets through the barrier, whichever way the threads are scheduled.
Terminates == <>(main \in {"returned", "aborted"})

-----------------------------------------------------------------------------
(* The inductive invariant of LocksProofs.                                  *)

\* The lock is held by exactly the threads inside.
LockState ==
  /\ numlock.rd = {t \in Readers : Inside(t)}
  /\ numlock.wr = {t \in Writers : Inside(t)}

\* Threads arrive at the barrier after their last round.
BarrierState ==
  /\ blocker = {t \in Threads : pc[t] \in {"waiting", "gone"}}
  /\ \A t \in Threads : pc[t] \in {"waiting", "gone"} => i[t] = ROUNDS
  /\ \A t \in Threads : Inside(t) => i[t] < ROUNDS
  /\ \A t \in Threads : pc[t] = "loaded" => t \in Writers
  /\ main \in {"destroy_barrier", "destroy_lock", "returned"} => blocker = Threads

IInv == TypeOK /\ Exclusion /\ LockState /\ BarrierState /\ NoStaleValue /\ NoLostUpdate
=============================================================================
