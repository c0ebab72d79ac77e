---------------------------- MODULE WorkRequests ----------------------------
(***************************************************************************)
(* What uv_queue_work and uv_cancel promise of a set of requests           *)
(* (methods.md, "Cancel a pending request"): a request is executed once    *)
(* or, if it is cancelled before that, never, and its callback is called   *)
(* once, with a status that tells which of the two it was.                 *)
(***************************************************************************)
CONSTANT Reqs
VARIABLE state   \* [Reqs -> States]

States == {"new", "pending", "executing", "executed", "cancelled", "0", "UV_ECANCELED"}

Init == state = [q \in Reqs |-> "new"]

Move(q, from, to) == state[q] = from /\ state' = [state EXCEPT ![q] = to]

Queue(q) == Move(q, "new", "pending")
Execute(q) == Move(q, "pending", "executing")
Finish(q) == Move(q, "executing", "executed")
Report(q) == Move(q, "executed", "0") \/ Move(q, "cancelled", "UV_ECANCELED")

\* uv_cancel fails for what is executing or has been executed.
Cancel(q) == Move(q, "pending", "cancelled")

Next == \E q \in Reqs : Queue(q) \/ Execute(q) \/ Finish(q) \/ Cancel(q) \/ Report(q)

Spec == Init /\ [][Next]_state
=============================================================================
