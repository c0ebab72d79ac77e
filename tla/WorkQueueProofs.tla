-------------------------- MODULE WorkQueueProofs ---------------------------
(***************************************************************************)
(* Proofs about WorkQueue, for any number of requests and workers.         *)
(***************************************************************************)
EXTENDS WorkQueue, FiniteSetTheorems, WellFoundedInduction, TLAPS

USE UntilNat, MaxSignalsNat

\* The requests main() has queued and the loop has not called back.
Unreported == {q \in 0..(i - 1) : q \notin Reported}

\* They are finitely many.
LEMMA UnreportedFinite ==
  ASSUME i \in Nat
  PROVE  IsFiniteSet(Unreported)
<1>1. IsFiniteSet(0..(i - 1))
  BY FS_Interval
<1> QED BY <1>1, FS_Subset DEF Unreported

\* No program has begun: everything is empty.
LEMMA InitIInv == Init => IInv
<1> SUFFICES ASSUME Init PROVE IInv
  OBVIOUS
<1>1. TypeOK
  <2>1. caught \in BOOLEAN
    BY Zenon DEF Init
  <2> QED BY <2>1 DEF Init, TypeOK
<1>5. Apart /\ Ended
  BY DEF Init, Apart, Ended, None
<1>2. Covered
  BY DEF Init, Covered, InHand, Reported, Reqs, None
<1>3. {q \in 0..(i - 1) : q \notin Reported} = {}
  BY DEF Init
<1>4. ActiveIsExact
  BY <1>3, FS_EmptySet DEF ActiveIsExact, Init
<1> QED BY <1>1, <1>2, <1>4, <1>5 DEF IInv

\* A step that leaves i and the reports alone leaves the count right.
LEMMA CountKept ==
  ASSUME ActiveIsExact, UNCHANGED <<i, reported, active>>
  PROVE  ActiveIsExact'
BY DEF ActiveIsExact, Reported

\* One request more is in progress, and it is a new one.
LEMMA QueueWorkStep ==
  ASSUME IInv, QueueWork
  PROVE  IInv'
<1> USE DEF Reqs
<1>1. i \in Reqs /\ i' = i + 1
  BY DEF IInv, TypeOK, QueueWork
<1>2. ~InHand(i) /\ i \notin Reported
  BY <1>1 DEF IInv, Covered
<1>3. TypeOK'
  BY <1>1 DEF IInv, TypeOK, QueueWork
<1>4. Apart'
  BY <1>2 DEF IInv, Apart, QueueWork, InHand, Reported
<1>5. Reported' = Reported
  BY DEF QueueWork, Reported
<1>6. Covered'
  <2>1. \A q \in Reqs : InHand(q)' <=> InHand(q) \/ q = i
    BY DEF InHand, QueueWork
  <2>2. \A q \in Reqs : q < i' <=> q < i \/ q = i
    BY <1>1
  <2> QED BY <2>1, <2>2, <1>5 DEF IInv, Covered
<1>7. ActiveIsExact'
  <2>1. Unreported' = Unreported \cup {i} /\ i \notin Unreported
    BY <1>1, <1>2, <1>5 DEF Unreported
  <2>2. Cardinality(Unreported') = Cardinality(Unreported) + 1
    BY <2>1, <1>1, UnreportedFinite, FS_AddElement
  <2> QED BY <2>2 DEF IInv, ActiveIsExact, Unreported, QueueWork
<1>8. Ended'
  BY DEF Ended, QueueWork
<1> QED BY <1>3, <1>4, <1>6, <1>7, <1>8 DEF IInv

\* main() goes on with all its requests queued.
LEMMA RunStep ==
  ASSUME IInv, Run
  PROVE  IInv'
<1>1. TypeOK' /\ Apart' /\ Ended'
  BY DEF IInv, TypeOK, Apart, Ended, Run
<1>2. Covered'
  BY DEF IInv, Covered, InHand, Reported, Run
<1>3. ActiveIsExact'
  BY CountKept DEF IInv, Run
<1> QED BY <1>1, <1>2, <1>3 DEF IInv

\* A request is called back: it was in progress, and is so no longer.
LEMMA AfterWorkStep ==
  ASSUME IInv, NEW d \in done, AfterWork(d)
  PROVE  IInv'
<1>1. d \in Outcomes /\ d.req \in Reqs
  BY DEF IInv, TypeOK, Outcomes
<1>2. Reported' = Reported \cup {d.req}
  BY DEF Reported, AfterWork
<1>3. d.req \notin Reported
  BY DEF Reported, IInv, Apart
<1>4. d.req < i
  BY <1>1 DEF IInv, Covered, InHand
<1>5. Unreported = Unreported' \cup {d.req} /\ d.req \notin Unreported'
  <2>1. d.req \in 0..(i - 1)
    BY <1>1, <1>4 DEF Reqs, IInv, TypeOK
  <2> QED BY <2>1, <1>2, <1>3 DEF Unreported, AfterWork
<1>6. IsFiniteSet(Unreported')
  BY <1>5, UnreportedFinite, FS_Subset DEF IInv, TypeOK, Reqs
<1>7. Cardinality(Unreported) = Cardinality(Unreported') + 1
  BY <1>5, <1>6, FS_AddElement
<1>8. Cardinality(Unreported') \in Nat
  BY <1>6, FS_CardinalityType
<1>9. active = Cardinality(Unreported)
  BY DEF IInv, ActiveIsExact, Unreported
<1>10. ActiveIsExact'
  BY <1>7, <1>8, <1>9 DEF ActiveIsExact, Unreported, AfterWork
<1>11. TypeOK'
  BY <1>7, <1>8, <1>9 DEF IInv, TypeOK, AfterWork
<1>12. Apart'
  BY DEF IInv, Apart, AfterWork
<1>13. Covered'
  <2>1. \A q \in Reqs : InHand(q)' \/ q = d.req <=> InHand(q)
    BY DEF InHand, AfterWork, IInv, Apart
  <2> QED BY <2>1, <1>2, <1>4 DEF IInv, Covered, AfterWork
<1>14. Ended'
  BY DEF IInv, Ended, AfterWork
<1> QED BY <1>10, <1>11, <1>12, <1>13, <1>14 DEF IInv

\* signal_cb begins and ends without touching a request.
LEMMA OnSignalStep ==
  ASSUME IInv, OnSignal \/ SignalStop
  PROVE  IInv'
<1>1. UNCHANGED <<i, queue, doing, done, reported, active, sent, program>>
  BY DEF OnSignal, SignalStop
<1>2. /\ main' \in {main, "undefined"} /\ signal' \in {signal, "stopped"}
      /\ at' \in {at, 0, None}
  BY DEF OnSignal, SignalStop
<1>3. caught' \in BOOLEAN
  BY Zenon DEF OnSignal, SignalStop, IInv, TypeOK
<1>4. 0 \in Reqs \cup {FIB_UNTIL}
  BY DEF Reqs
<1>5. TypeOK'
  BY <1>1, <1>2, <1>3, <1>4 DEF IInv, TypeOK
<1>6. Apart' /\ Covered' /\ Ended'
  BY <1>1, <1>2 DEF IInv, Apart, Covered, InHand, Reported, Ended
<1> QED BY <1>1, <1>5, <1>6, CountKept DEF IInv

\* What a uv_cancel does to the pool: it fails, or takes the request to the loop.
LEMMA CancelShape ==
  ASSUME IInv, Cancel
  PROVE  /\ at \in Reqs /\ at' = at + 1
         /\ UNCHANGED <<main, i, doing, reported, active, signal, caught, sent, program>>
         /\ \/ at \notin queue /\ UNCHANGED <<queue, done>>
            \/ /\ at \in queue
               /\ queue' = queue \ {at}
               /\ done' = done \cup {Outcome(at, "UV_ECANCELED")}
BY DEF Cancel, CancelsLeft, Cancellable, Outcome

\* A cancelled request is taken from the queue to the loop.
LEMMA CancelStep ==
  ASSUME IInv, Cancel
  PROVE  IInv'
<1> DEFINE d == Outcome(at, "UV_ECANCELED")
<1>1. d.req = at
  BY DEF Outcome
<1>2. TypeOK'
  <2>1. d \in Outcomes
    BY CancelShape DEF Outcome, Outcomes
  <2>2. at' \in Reqs \cup {FIB_UNTIL}
    BY CancelShape DEF Reqs
  <2> QED BY <2>1, <2>2, CancelShape DEF IInv, TypeOK
<1> HIDE DEF d
<1>3. CASE at \notin queue /\ UNCHANGED <<queue, done>>
  BY <1>2, <1>3, CancelShape, CountKept DEF IInv, Apart, Covered, InHand, Reported, Ended
<1>4. CASE at \in queue /\ queue' = queue \ {at} /\ done' = done \cup {d}
  <2>1. UNCHANGED <<main, i, doing, reported, active>>
    BY CancelShape
  <2>2. d \notin done \cup reported
    BY <1>1, <1>4 DEF IInv, Apart
  <2>3. Apart'
    <3>1. /\ \A w \in Workers : doing'[w] \notin queue'
          /\ \A w, v \in Workers : w # v /\ doing'[w] = doing'[v] => doing'[w] = None
      BY <1>4, <2>1 DEF IInv, Apart
    <3>2. \A e \in done' \cup reported' :
            e.req \notin queue' /\ \A w \in Workers : doing'[w] # e.req
      BY <1>1, <1>4, <2>1 DEF IInv, Apart
    <3>3. \A e, f \in done' \cup reported' : e.req = f.req => e = f
      BY <1>1, <1>4, <2>1 DEF IInv, Apart
    <3>4. done' \cap reported' = {}
      BY <1>4, <2>1, <2>2 DEF IInv, Apart
    <3> QED BY <3>1, <3>2, <3>3, <3>4 DEF Apart
  <2>4. Covered'
    <3>1. \A q \in Reqs : InHand(q)' <=> InHand(q)
      BY <1>1, <1>4, <2>1 DEF InHand
    <3> QED BY <2>1, <3>1 DEF IInv, Covered, Reported
  <2>5. Ended'
    BY <2>1 DEF IInv, Ended
  <2> QED BY <1>2, <2>1, <2>3, <2>4, <2>5, CountKept DEF IInv
<1> QED BY <1>3, <1>4, CancelShape DEF d

\* The loop is left only when the count is zero.
LEMMA ReturnStep ==
  ASSUME IInv, Return
  PROVE  IInv'
<1>1. TypeOK' /\ Apart' /\ Ended'
  BY DEF IInv, TypeOK, Apart, Ended, Return, LoopEnds
<1>2. Covered'
  BY DEF IInv, Covered, InHand, Reported, Return
<1> QED BY <1>1, <1>2, CountKept DEF IInv, Return

\* A worker takes a request from the queue.
LEMMA TakeStep ==
  ASSUME IInv, NEW w \in Workers, Take(w)
  PROVE  IInv'
<1>1. PICK q \in queue : /\ doing' = [doing EXCEPT ![w] = q]
                         /\ queue' = queue \ {q}
  BY DEF Take
<1>2. q \in Reqs /\ q # None /\ doing[w] = None
  BY DEF IInv, TypeOK, Take, Reqs, None
<1>3. TypeOK'
  BY <1>1, <1>2 DEF IInv, TypeOK, Take
<1>4. \A v \in Workers : doing'[v] = IF v = w THEN q ELSE doing[v]
  BY <1>1 DEF IInv, TypeOK
<1>5. Apart'
  BY <1>1, <1>2, <1>4 DEF IInv, Apart, Take
<1>6. Covered'
  <2>1. \A p \in Reqs : p # None
    BY DEF Reqs, None
  <2>2. \A p \in Reqs : InHand(p)' <=> InHand(p)
    BY <1>1, <1>2, <1>4, <2>1 DEF InHand, Take
  <2> QED BY <2>2 DEF IInv, Covered, Reported, Take
<1>7. Ended'
  BY DEF IInv, Ended, Take
<1> QED BY <1>3, <1>5, <1>6, <1>7, CountKept DEF IInv, Take

\* A worker hands what it executed to the loop.
LEMMA WorkDoneStep ==
  ASSUME IInv, NEW w \in Workers, WorkDone(w)
  PROVE  IInv'
<1> DEFINE d == [req |-> doing[w], status |-> "0"]
<1>1. doing[w] \in Reqs /\ doing[w] # None
  BY DEF IInv, TypeOK, WorkDone
<1>2. done' = done \cup {d} /\ d.req = doing[w] /\ d \in Outcomes
  BY <1>1 DEF WorkDone, Outcomes
<1>3. d \notin done \cup reported
  BY <1>2 DEF IInv, Apart
<1> HIDE DEF d
<1>4. TypeOK'
  BY <1>1, <1>2 DEF IInv, TypeOK, WorkDone
<1>5. \A v \in Workers : doing'[v] = IF v = w THEN None ELSE doing[v]
  BY DEF IInv, TypeOK, WorkDone
<1>6. \A p \in Reqs : p # None
  BY DEF Reqs, None
<1>7. \A e \in done \cup reported : e.req \in Reqs
  BY DEF IInv, TypeOK, Outcomes
<1>8. queue' = queue /\ reported' = reported /\ queue \subseteq Reqs
  BY DEF WorkDone, IInv, TypeOK
<1>9. Apart'
  <2>1. /\ \A v \in Workers : doing'[v] \notin queue'
        /\ \A u, v \in Workers : u # v /\ doing'[u] = doing'[v] => doing'[u] = None
    BY <1>5, <1>6, <1>8 DEF IInv, Apart
  <2>2. \A e \in done' \cup reported' :
          e.req \notin queue' /\ \A v \in Workers : doing'[v] # e.req
    BY <1>1, <1>2, <1>5, <1>6, <1>7, <1>8 DEF IInv, Apart
  <2>3. \A e, f \in done' \cup reported' : e.req = f.req => e = f
    BY <1>2, <1>8 DEF IInv, Apart
  <2>4. done' \cap reported' = {}
    BY <1>2, <1>3, <1>8 DEF IInv, Apart
  <2> QED BY <2>1, <2>2, <2>3, <2>4 DEF Apart
<1>10. Covered'
  <2>1. \A p \in Reqs : InHand(p)' <=> InHand(p)
    BY <1>1, <1>2, <1>5, <1>6, <1>8 DEF InHand
  <2> QED BY <2>1 DEF IInv, Covered, Reported, WorkDone
<1>11. Ended'
  BY DEF IInv, Ended, WorkDone
<1> QED BY <1>4, <1>9, <1>10, <1>11, CountKept DEF IInv, WorkDone

\* A signal touches no request.
LEMMA InterruptStep ==
  ASSUME IInv, Interrupt
  PROVE  IInv'
<1>1. UNCHANGED <<i, queue, doing, done, reported, active, signal, at, program>>
  BY DEF Interrupt
<1>2. Apart'
  BY <1>1 DEF IInv, Apart
<1>3. main' \in {main, "killed"} /\ caught' \in {caught, TRUE} /\ sent' = sent + 1 /\ sent < MaxSignals
  BY DEF Interrupt
<1>4. Ended'
  BY <1>1, <1>3 DEF IInv, Ended
<1>5. caught' \in BOOLEAN
  BY <1>3, Zenon DEF IInv, TypeOK
<1>6. sent' \in 0..MaxSignals
  BY <1>3 DEF IInv, TypeOK
<1>7. TypeOK'
  BY <1>1, <1>3, <1>5, <1>6 DEF IInv, TypeOK
<1>8. Covered'
  BY <1>1 DEF IInv, Covered, InHand, Reported
<1>9. ActiveIsExact'
  BY <1>1, CountKept DEF IInv
<1> QED BY <1>2, <1>4, <1>7, <1>8, <1>9 DEF IInv

\* Every step of the program keeps the invariant.
LEMMA NextIInv == IInv /\ [Next]_vars => IInv'
<1> SUFFICES ASSUME IInv, [Next]_vars PROVE IInv'
  OBVIOUS
<1>1. CASE UNCHANGED vars
  <2>1. TypeOK' /\ Apart' /\ Ended' /\ Covered'
    BY <1>1 DEF vars, IInv, TypeOK, Apart, Ended, Covered, InHand, Reported
  <2> QED BY <1>1, <2>1, CountKept DEF IInv, vars
<1>2. CASE QueueWork \/ Run \/ OnSignal \/ Cancel \/ SignalStop \/ Return \/ Interrupt
  BY <1>2, QueueWorkStep, RunStep, OnSignalStep, CancelStep, ReturnStep, InterruptStep
<1>3. CASE Over \/ Polls
  BY <1>1, <1>3 DEF Over, Polls
<1>4. CASE \E d \in done : AfterWork(d)
  BY <1>4, AfterWorkStep
<1>5. CASE \E w \in Workers : Take(w) \/ WorkDone(w)
  BY <1>5, TakeStep, WorkDoneStep
<1> QED BY <1>1, <1>2, <1>3, <1>4, <1>5 DEF Next

\* The inductive invariant holds in every reachable state.
THEOREM Invariance == Spec => []IInv
BY InitIInv, NextIInv, PTL DEF Spec

-----------------------------------------------------------------------------

\* Every variable keeps its type.
THEOREM TypeCorrect == Spec => []TypeOK
<1>1. IInv => TypeOK
  BY DEF IInv
<1> QED BY <1>1, Invariance, PTL

\* The loop counts its requests right, also when some are cancelled.
THEOREM CountsAreExact == Spec => []ActiveIsExact
<1>1. IInv => ActiveIsExact
  BY DEF IInv
<1> QED BY <1>1, Invariance, PTL

\* main() returns, and its frame with the requests goes, only when all of them
\* have been called back.
THEOREM FrameIsSafe == Spec => []FrameOutlivesRequests
<1>1. IInv => FrameOutlivesRequests
  <2> SUFFICES ASSUME IInv, main = "exited"
               PROVE  /\ \A q \in Reqs : ~InHand(q)
                      /\ Reported = Reqs
    BY DEF FrameOutlivesRequests
  <2>1. i = FIB_UNTIL /\ Cardinality(Unreported) = 0
    BY DEF IInv, Ended, ActiveIsExact, Unreported
  <2>2. Unreported = {}
    BY <2>1, UnreportedFinite, FS_EmptySet
  <2>3. Reqs \subseteq Reported
    BY <2>1, <2>2 DEF Unreported, Reqs
  <2>4. Reported \subseteq Reqs
    BY DEF Reported, IInv, TypeOK, Outcomes
  <2>5. \A q \in Reqs : ~InHand(q)
    BY <2>3 DEF InHand, Reported, IInv, Apart
  <2> QED BY <2>3, <2>4, <2>5
<1> QED BY <1>1, Invariance, PTL

-----------------------------------------------------------------------------
(* WorkQueue implements WorkRequests.                                       *)

\* What StateOf says, without its order: under Apart at most one case applies.
LEMMA StateOfCases ==
  ASSUME IInv, NEW q \in Reqs
  PROVE  /\ Outcome(q, "0") \in reported => StateOf(q) = "0"
         /\ Outcome(q, "UV_ECANCELED") \in reported => StateOf(q) = "UV_ECANCELED"
         /\ Outcome(q, "0") \in done => StateOf(q) = "executed"
         /\ Outcome(q, "UV_ECANCELED") \in done => StateOf(q) = "cancelled"
         /\ \A w \in Workers : doing[w] = q => StateOf(q) = "executing"
         /\ q \in queue => StateOf(q) = "pending"
         /\ ~InHand(q) /\ q \notin Reported => StateOf(q) = "new"
<1> DEFINE A == Outcome(q, "0")
           B == Outcome(q, "UV_ECANCELED")
<1>1. A.req = q /\ B.req = q /\ A # B
  BY DEF Outcome
<1>2. StateOf(q) = IF A \in reported THEN "0"
                   ELSE IF B \in reported THEN "UV_ECANCELED"
                   ELSE IF A \in done THEN "executed"
                   ELSE IF B \in done THEN "cancelled"
                   ELSE IF \E w \in Workers : doing[w] = q THEN "executing"
                   ELSE IF q \in queue THEN "pending" ELSE "new"
  BY DEF StateOf
<1>3. q # None
  BY DEF Reqs, None
<1> HIDE DEF A, B
<1>4. /\ A \in reported => StateOf(q) = "0"
      /\ B \in reported => StateOf(q) = "UV_ECANCELED"
      /\ A \in done => StateOf(q) = "executed"
      /\ B \in done => StateOf(q) = "cancelled"
  BY <1>1, <1>2 DEF IInv, Apart
<1>5. /\ \A w \in Workers : doing[w] = q => StateOf(q) = "executing"
      /\ q \in queue => StateOf(q) = "pending"
  BY <1>1, <1>2 DEF IInv, Apart
<1>6. ~InHand(q) /\ q \notin Reported => StateOf(q) = "new"
  BY <1>1, <1>2 DEF InHand, Reported
<1> QED BY <1>4, <1>5, <1>6 DEF A, B

\* A request that no step touches keeps its state.
LEMMA StateOfKept ==
  ASSUME NEW q \in Reqs,
         \A s \in {"0", "UV_ECANCELED"} : /\ Outcome(q, s) \in reported' <=> Outcome(q, s) \in reported
                                          /\ Outcome(q, s) \in done' <=> Outcome(q, s) \in done,
         \A w \in Workers : doing'[w] = q <=> doing[w] = q,
         q \in queue' <=> q \in queue
  PROVE  StateOf(q)' = StateOf(q)
BY DEF StateOf

\* The abstract state.
Mapped == [q \in Reqs |-> StateOf(q)]

\* A step that moves one request and keeps the others is a Move of the contract.
LEMMA MoveMaps ==
  ASSUME NEW q \in Reqs, NEW from, NEW to,
         StateOf(q) = from, StateOf(q)' = to,
         \A p \in Reqs \ {q} : StateOf(p)' = StateOf(p)
  PROVE  Contract!Move(q, from, to)
BY DEF Contract!Move

\* uv_queue_work makes a request pending.
LEMMA QueueWorkMaps ==
  ASSUME IInv, QueueWork
  PROVE  Contract!Next
<1>1. PICK q \in Reqs : q = i
  BY DEF IInv, TypeOK, QueueWork, Reqs
<1>2. ~InHand(q) /\ q \notin Reported
  BY <1>1 DEF IInv, TypeOK, Covered
<1>3. StateOf(q) = "new"
  BY <1>2, StateOfCases
<1>4. queue' = queue \cup {q} /\ UNCHANGED <<doing, done, reported>>
  BY <1>1 DEF QueueWork
<1>5. StateOf(q)' = "pending"
  <2>1. \A s \in {"0", "UV_ECANCELED"} : Outcome(q, s) \notin done /\ Outcome(q, s) \notin reported
    BY <1>2 DEF InHand, Reported, Outcome
  <2> QED BY <1>2, <1>4, <2>1 DEF StateOf, InHand
<1>6. \A p \in Reqs \ {q} : StateOf(p)' = StateOf(p)
  BY <1>4, StateOfKept
<1>7. Contract!Move(q, "new", "pending")
  BY <1>3, <1>5, <1>6, MoveMaps
<1> QED BY <1>7 DEF Contract!Next, Contract!Queue

\* after_work_cb reports what the status says.
LEMMA AfterWorkMaps ==
  ASSUME IInv, NEW d \in done, AfterWork(d)
  PROVE  Contract!Next
<1>1. PICK q \in Reqs : q = d.req
  BY DEF IInv, TypeOK, Outcomes
<1>7. d = Outcome(q, d.status) /\ d.status \in {"0", "UV_ECANCELED"}
  BY <1>1 DEF IInv, TypeOK, Outcomes, Outcome
<1>2. IInv'
  BY AfterWorkStep
<1>3. d \in reported'
  BY DEF AfterWork
<1>4. \A p \in Reqs \ {q} : StateOf(p)' = StateOf(p)
  <2>1. \A p \in Reqs \ {q}, s \in {"0", "UV_ECANCELED"} : Outcome(p, s) # d
    BY <1>1 DEF Outcome
  <2> QED BY <2>1, StateOfKept DEF AfterWork
<1>5. CASE d.status = "0"
  <2>1. StateOf(q) = "executed"
    BY <1>5, <1>7, StateOfCases
  <2>2. StateOf(q)' = "0"
    BY <1>3, <1>5, <1>7 DEF StateOf
  <2>3. Contract!Move(q, "executed", "0")
    BY <1>1, <1>4, <2>1, <2>2, MoveMaps
  <2> QED BY <1>1, <2>3 DEF Contract!Next, Contract!Report
<1>6. CASE d.status = "UV_ECANCELED"
  <2>1. StateOf(q) = "cancelled"
    BY <1>6, <1>7, StateOfCases
  <2>2. Outcome(q, "0") \notin reported'
    BY <1>2, <1>3, <1>6, <1>7 DEF IInv, Apart, Outcome
  <2>3. StateOf(q)' = "UV_ECANCELED"
    BY <1>3, <1>6, <1>7, <2>2 DEF StateOf
  <2>4. Contract!Move(q, "cancelled", "UV_ECANCELED")
    BY <1>1, <1>4, <2>1, <2>3, MoveMaps
  <2> QED BY <1>1, <2>4 DEF Contract!Next, Contract!Report
<1> QED BY <1>5, <1>6, <1>7

\* A uv_cancel that succeeds cancels what is pending, and only that.
LEMMA CancelMaps ==
  ASSUME IInv, Cancel, at \in queue
  PROVE  Contract!Next
<1>1. PICK q \in Reqs : q = at
  BY CancelShape
<1>2. /\ queue' = queue \ {q} /\ UNCHANGED <<doing, reported>>
      /\ done' = done \cup {Outcome(q, "UV_ECANCELED")}
  BY <1>1, CancelShape
<1>3. IInv'
  BY CancelStep
<1>4. StateOf(q) = "pending"
  BY <1>1, StateOfCases
<1>5. StateOf(q)' = "cancelled"
  <2>1. Outcome(q, "UV_ECANCELED") \in done'
    BY <1>2
  <2>2. /\ Outcome(q, "0") \notin done' /\ Outcome(q, "0") \notin reported'
        /\ Outcome(q, "UV_ECANCELED") \notin reported'
    BY <1>3, <2>1 DEF IInv, Apart, Outcome
  <2> QED BY <2>1, <2>2 DEF StateOf
<1>6. \A p \in Reqs \ {q} : StateOf(p)' = StateOf(p)
  <2>1. \A p \in Reqs \ {q}, s \in {"0", "UV_ECANCELED"} : Outcome(p, s) # Outcome(q, "UV_ECANCELED")
    BY DEF Outcome
  <2> QED BY <1>2, <2>1, StateOfKept
<1>7. Contract!Move(q, "pending", "cancelled")
  BY <1>4, <1>5, <1>6, MoveMaps
<1> QED BY <1>7 DEF Contract!Next, Contract!Cancel

\* A worker executes what is pending.
LEMMA TakeMaps ==
  ASSUME IInv, NEW w \in Workers, Take(w)
  PROVE  Contract!Next
<1>1. PICK q \in queue : /\ doing' = [doing EXCEPT ![w] = q]
                         /\ queue' = queue \ {q}
  BY DEF Take
<1>2. q \in Reqs /\ doing[w] = None
  BY DEF IInv, TypeOK, Take
<1>3. \A v \in Workers : doing'[v] = IF v = w THEN q ELSE doing[v]
  BY <1>1 DEF IInv, TypeOK
<1>4. StateOf(q) = "pending"
  BY <1>2, StateOfCases
<1>5. StateOf(q)' = "executing"
  <2>1. \A d \in done' \cup reported' : d.req # q
    BY DEF IInv, Apart, Take
  <2>2. \A s \in {"0", "UV_ECANCELED"} : Outcome(q, s) \notin done' /\ Outcome(q, s) \notin reported'
    BY <2>1 DEF Outcome
  <2>3. \E v \in Workers : doing'[v] = q
    BY <1>3
  <2> QED BY <2>2, <2>3 DEF StateOf
<1>6. \A p \in Reqs \ {q} : StateOf(p)' = StateOf(p)
  <2> SUFFICES ASSUME NEW p \in Reqs \ {q} PROVE StateOf(p)' = StateOf(p)
    OBVIOUS
  <2>1. p # None
    BY DEF Reqs, None
  <2>2. \A v \in Workers : doing'[v] = p <=> doing[v] = p
    BY <1>2, <1>3, <2>1
  <2> QED BY <1>1, <2>2, StateOfKept DEF Take
<1>7. Contract!Move(q, "pending", "executing")
  BY <1>2, <1>4, <1>5, <1>6, MoveMaps
<1> QED BY <1>2, <1>7 DEF Contract!Next, Contract!Execute

\* work_cb returns: the request is executed, and was executing.
LEMMA WorkDoneMaps ==
  ASSUME IInv, NEW w \in Workers, WorkDone(w)
  PROVE  Contract!Next
<1>1. PICK q \in Reqs : q = doing[w] /\ q # None
  BY DEF IInv, TypeOK, WorkDone
<1>2. done' = done \cup {Outcome(q, "0")} /\ UNCHANGED <<queue, reported>>
  BY <1>1 DEF WorkDone, Outcome
<1>3. \A v \in Workers : doing'[v] = IF v = w THEN None ELSE doing[v]
  BY DEF IInv, TypeOK, WorkDone
<1>4. StateOf(q) = "executing"
  BY <1>1, StateOfCases
<1>5. StateOf(q)' = "executed"
  <2>1. \A d \in reported : d.req # q
    BY <1>1 DEF IInv, Apart
  <2>2. Outcome(q, "0") \notin reported' /\ Outcome(q, "UV_ECANCELED") \notin reported'
    BY <1>2, <2>1 DEF Outcome
  <2>3. Outcome(q, "0") \in done'
    BY <1>2
  <2> QED BY <2>2, <2>3 DEF StateOf
<1>6. \A p \in Reqs \ {q} : StateOf(p)' = StateOf(p)
  <2> SUFFICES ASSUME NEW p \in Reqs \ {q} PROVE StateOf(p)' = StateOf(p)
    OBVIOUS
  <2>1. p # None
    BY DEF Reqs, None
  <2>2. \A v \in Workers : doing'[v] = p <=> doing[v] = p
    BY <1>1, <1>3, <2>1
  <2>3. \A s \in {"0", "UV_ECANCELED"} : Outcome(p, s) # Outcome(q, "0")
    BY DEF Outcome
  <2> QED BY <1>2, <2>2, <2>3, StateOfKept
<1>7. Contract!Move(q, "executing", "executed")
  BY <1>1, <1>4, <1>5, <1>6, MoveMaps
<1> QED BY <1>1, <1>7 DEF Contract!Next, Contract!Finish

\* A step that moves no request is a stutter of the contract.
LEMMA StutterMaps ==
  ASSUME UNCHANGED <<queue, doing, done, reported>>
  PROVE  UNCHANGED Mapped
<1>1. \A q \in Reqs : StateOf(q)' = StateOf(q)
  BY StateOfKept
<1> QED BY <1>1 DEF Mapped

\* signal_cb leaves no request waiting that its loop has passed.
LEMMA QuenchedStep == IInv /\ Quenched /\ [Next]_vars => Quenched'
<1> SUFFICES ASSUME IInv, Quenched, [Next]_vars PROVE Quenched'
  OBVIOUS
<1>1. queue \subseteq Reqs /\ \A q \in Reqs : q \in Nat /\ 0 <= q /\ None <= q
  BY DEF IInv, TypeOK, Reqs, None
<1>2. CASE QueueWork
  <2>1. i \in Reqs
    BY <1>2 DEF IInv, TypeOK, QueueWork, Reqs
  <2> QED BY <1>1, <1>2, <2>1 DEF Quenched, QueueWork
<1>3. CASE Run
  BY <1>3 DEF Quenched, Run
<1>4. CASE OnSignal
  BY <1>1, <1>4 DEF Quenched, OnSignal
<1>5. CASE Cancel
  <2>1. \A q \in queue' : at' <= q
    <3> SUFFICES ASSUME NEW q \in queue' PROVE at' <= q
      OBVIOUS
    <3>1. q \in queue /\ q # at /\ at' = at + 1 /\ at \in Reqs
      BY <1>5, CancelShape
    <3> QED BY <1>1, <3>1 DEF Quenched
  <2>2. at # None /\ main # "queue"
    BY <1>5, CancelShape DEF Reqs, None, Cancel
  <2> QED BY <1>5, <2>1, <2>2, CancelShape DEF Quenched
<1>6. CASE SignalStop
  <2>1. at = FIB_UNTIL
    BY <1>6 DEF IInv, TypeOK, SignalStop, CancelsLeft
  <2>2. queue = {}
    BY <1>1, <2>1 DEF Quenched, Reqs
  <2> QED BY <1>6, <2>2 DEF Quenched, SignalStop
<1>7. CASE UNCHANGED vars \/ Return \/ Interrupt \/ Over \/ Polls
  BY <1>7 DEF Quenched, vars, Return, Interrupt, Over, Polls
<1>8. ASSUME NEW d \in done, AfterWork(d) PROVE Quenched'
  BY <1>8 DEF Quenched, AfterWork
<1>9. ASSUME NEW w \in Workers, Take(w) \/ WorkDone(w) PROVE Quenched'
  BY <1>9 DEF Quenched, Take, WorkDone
<1> QED BY <1>2, <1>3, <1>4, <1>5, <1>6, <1>7, <1>8, <1>9 DEF Next

\* A worker begins only what waits.
LEMMA BeginsWaiting ==
  ASSUME IInv, [Next]_vars, NEW w \in Workers, Begins(w)
  PROVE  doing'[w] \in queue /\ UNCHANGED <<signal, at>>
<1>1. ASSUME NEW v \in Workers, Take(v)
      PROVE  doing'[w] \in queue /\ UNCHANGED <<signal, at>>
  BY <1>1 DEF IInv, TypeOK, Begins, Take
<1>2. ASSUME NEW v \in Workers, WorkDone(v)
      PROVE  FALSE
  BY <1>2 DEF IInv, TypeOK, Begins, WorkDone
<1>3. CASE UNCHANGED doing
  BY <1>3 DEF Begins
<1> QED
  BY <1>1, <1>2, <1>3
  DEF Next, QueueWork, Run, OnSignal, Cancel, SignalStop, Return, Interrupt, Over, Polls, AfterWork, vars

\* signal_cb stops what has not begun (12-queue-cancel/main.c:46): a request it has
\* passed is begun no more, whichever the workers take while it goes through them,
\* and once it has returned no worker begins any.
THEOREM CancelStopsTheRest == Spec => NothingStartsAfterCancel
<1>1. Init => Quenched
  BY DEF Init, Quenched
<1>2. IInv /\ Quenched /\ [Next]_vars =>
        [\A w \in Workers : Begins(w) => signal # "stopped" /\ at <= doing'[w]]_vars
  <2> SUFFICES ASSUME IInv, Quenched, [Next]_vars, NEW w \in Workers, Begins(w)
               PROVE  signal # "stopped" /\ at <= doing'[w]
    OBVIOUS
  <2> QED BY BeginsWaiting DEF Quenched
<1> QED BY <1>1, <1>2, QuenchedStep, Invariance, PTL DEF Spec, NothingStartsAfterCancel

\* The programs keep the contract of methods.md for uv_queue_work and uv_cancel:
\* every request is executed at most once, cancelled only before that, and
\* reported once with the status that fits.
THEOREM KeepsContract == Spec => ImplementsWorkRequests
<1>1. Init => Contract!Init
  <2> SUFFICES ASSUME Init PROVE Contract!Init
    OBVIOUS
  <2>1. IInv
    BY InitIInv
  <2>2. \A q \in Reqs : StateOf(q) = "new"
    BY <2>1, StateOfCases DEF Init, InHand, Reported, Reqs, None
  <2> QED BY <2>2 DEF Contract!Init
<1>2. IInv /\ [Next]_vars => [Contract!Next]_Mapped
  <2> SUFFICES ASSUME IInv, [Next]_vars PROVE [Contract!Next]_Mapped
    OBVIOUS
  <2>1. CASE UNCHANGED vars \/ Over \/ Polls \/ Run \/ OnSignal \/ SignalStop \/ Return \/ Interrupt
    <3>1. UNCHANGED <<queue, doing, done, reported>>
      BY <2>1 DEF vars, Over, Polls, Run, OnSignal, SignalStop, Return, Interrupt
    <3> QED BY <3>1, StutterMaps
  <2>2. CASE QueueWork
    BY <2>2, QueueWorkStep, QueueWorkMaps
  <2>3. CASE Cancel
    <3>1. CASE at \in queue
      BY <2>3, <3>1, CancelMaps
    <3>2. CASE at \notin queue
      BY <2>3, <3>2, CancelShape, StutterMaps
    <3> QED BY <3>1, <3>2
  <2>4. CASE \E d \in done : AfterWork(d)
    BY <2>4, AfterWorkMaps
  <2>5. CASE \E w \in Workers : Take(w) \/ WorkDone(w)
    BY <2>5, TakeMaps, WorkDoneMaps
  <2> QED BY <2>1, <2>2, <2>3, <2>4, <2>5 DEF Next
<1> QED BY <1>1, <1>2, Invariance, PTL DEF Spec, ImplementsWorkRequests, Contract!Spec, Mapped

-----------------------------------------------------------------------------
(* No request is stranded.                                                  *)

\* The request a worker takes next: there is one, if any waits.
LEMMA LowestWaits ==
  ASSUME NEW S \in SUBSET Nat, S # {}
  PROVE  \E q \in S : \A p \in S : q <= p
<1> DEFINE R == OpToRel(<, Nat)
<1>1. IsWellFoundedOn(R, Nat)
  BY NatLessThanWellFounded
<1> HIDE DEF R
<1>2. PICK q \in S : \A p \in S : <<p, q>> \notin R
  BY <1>1, WFMin
<1>3. ASSUME NEW p \in S
      PROVE  q <= p
  <2>1. p \in Nat /\ q \in Nat /\ ~(p < q)
    BY <1>2 DEF R, OpToRel
  <2> QED BY <2>1
<1> QED BY <1>3

\* While the loop counts a request as in progress, one is ready to be called back,
\* or executes, or may be taken by a worker that has nothing to do.
RequestsMove ==
  main = "run" /\ active > 0 =>
    \/ done # {}
    \/ \E w \in Workers : doing[w] # None
    \/ \E w \in Workers, q \in queue : doing[w] = None /\ \A p \in queue : q <= p

\* uv_run never blocks for a request that nobody will complete, whatever was
\* cancelled and in whichever order the workers took what was left.  The pool
\* has at least one thread.
THEOREM NoRequestStranded == ASSUME Workers # {} PROVE Spec => []RequestsMove
<1>1. IInv => RequestsMove
  <2> SUFFICES ASSUME IInv, main = "run", active > 0, done = {},
                      \A w \in Workers : doing[w] = None
               PROVE  \E w \in Workers, q \in queue : doing[w] = None /\ \A p \in queue : q <= p
    BY DEF RequestsMove
  <2>1. queue \in SUBSET Reqs /\ i \in 0..FIB_UNTIL /\ FIB_UNTIL \in Nat /\ Reqs \subseteq Nat
    BY DEF IInv, TypeOK, Reqs
  <2>2. PICK q \in 0..(i - 1) : q \notin Reported
    <3>1. Cardinality({q \in 0..(i - 1) : q \notin Reported}) # 0
      BY DEF IInv, ActiveIsExact
    <3>2. {q \in 0..(i - 1) : q \notin Reported} # {}
      BY <3>1, FS_EmptySet
    <3> QED BY <3>2
  <2>3. q \in Reqs /\ q < i
    BY <2>1, <2>2 DEF Reqs
  <2>4. InHand(q)
    BY <2>2, <2>3 DEF IInv, Covered
  <2>5. q \in queue
    <3>1. q # None
      BY <2>1, <2>3 DEF None
    <3> QED BY <2>4, <3>1 DEF InHand
  <2>6. \E k \in queue : \A p \in queue : k <= p
    BY <2>1, <2>5, LowestWaits
  <2>7. \E w \in Workers : doing[w] = None
    BY Workers # {}
  <2> QED BY <2>6, <2>7
<1> QED BY <1>1, Invariance, PTL
=============================================================================
