------------------------------ MODULE Children ------------------------------
(***************************************************************************)
(* The programs that start processes: examples/14-spawn, 15-detach and     *)
(* 17-proc-streams start one and wait for it or not; 18-cgi starts one for *)
(* every connection and gives it the socket for its output.  Each has a    *)
(* single uv_process_t, child_req.                                         *)
(*                                                                         *)
(* libuv (external): uv_spawn must not be called on a handle that is in    *)
(* use.  On one that is closing it breaks the list of closing handles; on  *)
(* an active one it breaks the table of processes, unless both pids fall   *)
(* into one bucket of it: the handle then stands for the new child only.   *)
(***************************************************************************)
EXTENDS Naturals, Example

CONSTANT MaxKids  \* children, and with them connections of 18-cgi

ASSUME MaxKidsNat == MaxKids \in Nat \ {0}

Kids == 1..MaxKids

\* "spawn": uv_spawn fails; "badconn": a connection comes with an error;
\* "refused": uv_accept fails.

VARIABLES
  handle,  \* child_req: "none", "active", "closing"
  kid,     \* the child it stands for, or 0
  hdata,   \* child_req.data, a connection, or 0
  kids,    \* [Kids -> "none", "running", "exited", "reaped"]
  client   \* [Kids -> "none", "open", "refused", "closed"]

childVars == <<handle, kid, hdata, kids, client>>

Parents == {"spawn", "detach", "proc-streams", "cgi"}
Parent == program \in Parents /\ Running

ChildrenInit ==
  /\ handle = "none" /\ kid = 0 /\ hdata = 0
  /\ kids = [k \in Kids |-> "none"] /\ client = [k \in Kids |-> "none"]

UvSpawn(k) ==
  \/ /\ handle \in {"none", "active"}
     /\ handle' = "active" /\ kid' = k /\ kids' = [kids EXCEPT ![k] = "running"]
     /\ UNCHANGED proc
  \/ /\ handle # "none"
     /\ proc' = "undefined" /\ UNCHANGED <<handle, kid, kids>>
  \/ /\ "spawn" \in Faults
     /\ proc' = "aborted" /\ UNCHANGED <<handle, kid, kids>>

\* main of 14-spawn, 15-detach and 17-proc-streams.
Start ==
  /\ Parent /\ program # "cgi"
  /\ kids[1] = "none" /\ UvSpawn(1)
  /\ UNCHANGED <<hdata, client>>

\* Mutant: the handle keeps the connection it was first used for.
InvokeCgiScript_Keeps(k) ==
  /\ hdata' = IF hdata = 0 THEN k ELSE hdata
  /\ UvSpawn(k)

InvokeCgiScript(k) == hdata' = k /\ UvSpawn(k)

\* The connection k is the next one.
ConnectionCb(k) ==
  /\ Runs("cgi") /\ client[k] = "none" /\ \A j \in Kids : j < k => client[j] # "none"
  /\ \/ client' = [client EXCEPT ![k] = "open"] /\ InvokeCgiScript(k)
     \/ /\ \/ "refused" \in Faults /\ client' = [client EXCEPT ![k] = "refused"]
           \/ "badconn" \in Faults /\ UNCHANGED client
        /\ UNCHANGED <<proc, handle, kid, hdata, kids>>

\* on_exit closes the handle, and in 18-cgi the connection behind its data.
OnExit ==
  /\ Parent /\ handle = "active" /\ kids[kid] = "exited"
  /\ kids' = [kids EXCEPT ![kid] = "reaped"]
  /\ handle' = "closing"
  /\ client' = [k \in Kids |-> IF program = "cgi" /\ k = hdata THEN "closed" ELSE client[k]]
  /\ UNCHANGED <<proc, kid, hdata>>

\* uv__finish_close, at the end of the loop's round.
HandleClosed ==
  /\ Parent /\ handle = "closing"
  /\ handle' = "none"
  /\ UNCHANGED <<proc, kid, hdata, kids, client>>

\* 15-detach: uv_unref(&child_req)
Referenced == program # "detach"

\* uv_run returns; 18-cgi listens for good.
ChildrenReturn ==
  /\ Parent /\ program # "cgi" /\ kids[1] # "none"
  /\ handle = "none" \/ (handle = "active" /\ ~Referenced)
  /\ proc' = "exited"
  /\ UNCHANGED childVars

\* A child exits, also one that nobody waits for any more.
ChildExits(k) ==
  /\ Parent /\ kids[k] = "running"
  /\ kids' = [kids EXCEPT ![k] = "exited"]
  /\ UNCHANGED <<proc, handle, kid, hdata, client>>

ChildrenLoop == Start \/ OnExit \/ HandleClosed \/ ChildrenReturn
ChildrenNext == ChildrenLoop \/ \E k \in Kids : ConnectionCb(k) \/ ChildExits(k)

\* The loop runs, and children end: "mkdir" and the two test programs do, while
\* 15-detach promises not to depend on it.
ChildrenFairness ==
  /\ WF_<<proc, childVars>>(ChildrenLoop)
  /\ \A k \in Kids : WF_<<proc, childVars>>(ChildExits(k) /\ program # "detach")

-----------------------------------------------------------------------------
(* What is checked.                                                         *)

\* 18-cgi: "pass this handle along so we can close it on_exit" (main.c:60): even
\* when children overlap, a connection is closed only after the child that writes
\* to it has exited.
ClosedAfterOwnChild == \A k \in Kids : client[k] = "closed" => kids[k] = "reaped"

\* Every connection of 18-cgi is closed at last, unless another came while its
\* child had the handle.
CgiClientsClosed ==
  \A k \in Kids : (client[k] = "open") ~> (client[k] = "closed" \/ kid # k \/ ~Running)

\* 14-spawn and 17-proc-streams end when the child has; 15-detach ends whether
\* it ever does or not ("making this a fire and forget", main.c:46).
ChildrenEnd == program \in Parents \ {"cgi"} => <>(~Running)
=============================================================================
