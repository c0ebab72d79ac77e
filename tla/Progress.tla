------------------------------ MODULE Progress ------------------------------
(***************************************************************************)
(* examples/13-progress: a worker thread "downloads" and tells the loop's  *)
(* thread through an async handle how far it is.  async.data points to a   *)
(* local variable of work_cb, which the loop reads when it gets to it.     *)
(*                                                                         *)
(* libuv (external): uv_async_send only marks the handle and wakes the     *)
(* loop, so several sends may become one callback; the pool's "request is  *)
(* done" reaches the loop in the same way; a closed handle is not called.  *)
(*                                                                         *)
(* A percentage is represented by the number of bytes it is computed from. *)
(***************************************************************************)
EXTENDS Integers, Example

CONSTANTS
  Size,      \* bytes to download
  Steps      \* what one round may download: (MIN_PERSEC + random()) % MAX_PERSEC

ASSUME SizeNat == Size \in Nat
ASSUME StepsNat == Steps \subseteq Nat

Unset == -1

VARIABLES
  work,        \* where work_cb is; "over" once its frame is gone
  downloaded,
  percentage,  \* the local of work_cb that async.data points to
  data,        \* async.data: "null", or "percentage"
  pending,     \* async is marked by uv_async_send
  async,       \* "open", "closed"
  after,       \* after_work_cb: "none", "ready", "called"
  shown,       \* what progress_cb printed last
  sent,        \* what the worker last called uv_async_send for
  late         \* the loop once left a send alone for the sleep(1) of a round

progressVars == <<work, downloaded, percentage, data, pending, async, after, shown, sent, late>>

ProgressInit ==
  /\ work = "queued" /\ downloaded = 0 /\ percentage = Unset
  /\ data = "null" /\ pending = FALSE /\ async = "open"
  /\ after = "none" /\ shown = Unset /\ sent = Unset /\ late = FALSE

OnProgress == Runs("progress")

-----------------------------------------------------------------------------
(* work_cb, on a thread of the pool.                                        *)

Round_Unpublished ==
  /\ OnProgress /\ work \in {"queued", "awake"} /\ downloaded < Size
  /\ percentage' = downloaded
  /\ work' = "published"
  /\ UNCHANGED <<proc, downloaded, data, pending, async, after, shown, sent, late>>

\* while (downloaded < size) percentage = (100 * downloaded) / size
Round ==
  /\ OnProgress /\ work \in {"queued", "awake"} /\ downloaded < Size
  /\ percentage' = downloaded
  /\ work' = "computed"
  /\ UNCHANGED <<proc, downloaded, data, pending, async, after, shown, sent, late>>

\* async.data = &percentage
Publish ==
  /\ OnProgress /\ work = "computed"
  /\ data' = "percentage"
  /\ work' = "published"
  /\ UNCHANGED <<proc, downloaded, percentage, pending, async, after, shown, sent, late>>

Send_Once ==
  /\ OnProgress /\ work = "published"
  /\ pending' = (pending \/ sent = Unset)
  /\ sent' = percentage
  /\ work' = "asleep"
  /\ UNCHANGED <<proc, downloaded, percentage, data, async, after, shown, late>>

Send ==
  /\ OnProgress /\ work = "published"
  /\ pending' = TRUE
  /\ sent' = percentage
  /\ work' = "asleep"
  /\ UNCHANGED <<proc, downloaded, percentage, data, async, after, shown, late>>

\* 200 + random() in 32 bits may be negative.
Wake_Overflows ==
  /\ OnProgress /\ work = "asleep"
  /\ late' = (late \/ pending)
  /\ \E n \in Steps : downloaded' = downloaded - n
  /\ downloaded > -Size
  /\ work' = "awake"
  /\ UNCHANGED <<proc, percentage, data, pending, async, after, shown, sent>>

\* sleep(1), and the next piece is there.
Wake ==
  /\ OnProgress /\ work = "asleep"
  /\ late' = (late \/ pending)
  /\ \E n \in Steps :
       downloaded' = IF downloaded + n > Size THEN Size ELSE downloaded + n
  /\ work' = "awake"
  /\ UNCHANGED <<proc, percentage, data, pending, async, after, shown, sent>>

\* work_cb returns, and the pool hands the request to the loop.
WorkDone ==
  /\ OnProgress /\ work \in {"queued", "awake"} /\ downloaded >= Size
  /\ work' = "over"
  /\ after' = "ready"
  /\ UNCHANGED <<proc, downloaded, percentage, data, pending, async, shown, sent, late>>

-----------------------------------------------------------------------------
(* The loop's thread.                                                       *)

\* What progress_cb points at is there to be read.
Readable == data = "percentage" /\ work \notin {"queued", "over"}

ProgressCb ==
  /\ OnProgress /\ pending /\ async = "open"
  /\ pending' = FALSE
  /\ IF Readable THEN shown' = percentage /\ UNCHANGED proc
                 ELSE proc' = "undefined" /\ UNCHANGED shown
  /\ UNCHANGED <<work, downloaded, percentage, data, async, after, sent, late>>

AfterWork_Open ==
  /\ OnProgress /\ after = "ready"
  /\ after' = "called"
  /\ UNCHANGED <<proc, work, downloaded, percentage, data, pending, async, shown, sent, late>>

\* after_work_cb closes async; the loop looks at the pool's handle first.
AfterWork ==
  /\ OnProgress /\ after = "ready"
  /\ after' = "called"
  /\ async' = "closed"
  /\ UNCHANGED <<proc, work, downloaded, percentage, data, pending, shown, sent, late>>

\* uv_run returns when no request is in progress and no handle is open.
Return ==
  /\ OnProgress /\ after = "called" /\ async = "closed"
  /\ proc' = "exited"
  /\ UNCHANGED <<work, downloaded, percentage, data, pending, async, after, shown, sent, late>>

ProgressNext ==
  Round \/ Publish \/ Send \/ Wake \/ WorkDone \/ ProgressCb \/ AfterWork \/ Return

\* Threads run, uv_run calls back what is ready, and sooner or later random()
\* yields a piece that is not empty.
ProgressFairness ==
  LET v == <<proc, progressVars>>
  IN  /\ WF_v(Round) /\ WF_v(Publish) /\ WF_v(Send) /\ WF_v(Wake) /\ WF_v(WorkDone)
      /\ WF_v(ProgressCb) /\ WF_v(AfterWork) /\ WF_v(Return)
      /\ SF_v(Wake /\ downloaded' > downloaded)

-----------------------------------------------------------------------------
(* What is checked.                                                         *)

\* progress_cb follows async.data only while a round's percentage is behind it:
\* never before the first assignment, and once the frame of work_cb is gone only
\* if the loop left a send alone for a whole sleep.
DataIsReadable == program = "progress" /\ proc = "undefined" => late

\* Percentages are printed in the order in which they were computed, however
\* the loop's reads fall between the worker's writes.
NeverRegresses == [][shown' >= shown]_progressVars

\* types.md:487: "the only guarantee is that the callback function is called at
\* least once after the call to async_send", with this value or a later one.
\* A loop that is late may find async closed instead (main.c:47).
EverySendShown == \A n \in 0..Size : (sent = n) ~> (shown >= n \/ late)

\* Closing async in after_work_cb lets the program end.
ProgressEnds == program = "progress" => <>(~Running)
=============================================================================
