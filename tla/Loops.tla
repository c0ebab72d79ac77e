-------------------------------- MODULE Loops -------------------------------
(***************************************************************************)
(* The programs about the rounds of uv_run: examples/01-idle-basic,        *)
(* 21-uvstop, 22-ref-timer, 23-idle-compute and 27-tty-gravity.            *)
(*                                                                         *)
(* libuv (external) runs timers, idle, prepare and pending callbacks, in   *)
(* the order that 21-uvstop/main.c:56 lists, and then polls; it blocks     *)
(* there only if no idle handle is active and uv_stop was not called.      *)
(* A write to a tty that is not read blocks, and is called back as pending *)
(* in the same round.                                                      *)
(***************************************************************************)
EXTENDS Integers, FiniteSetsExt, Example

CONSTANTS
  IdleUntil,  \* 01-idle-basic: 10e6
  JobDue,     \* 22-ref-timer: the job's timeout in repeats of gc, 5
  Height,     \* 27-tty-gravity: lines of the tty
  MaxInputs   \* 23-idle-compute: lines that are typed at most

ASSUME LoopSizesNat ==
  IdleUntil \in Nat /\ JobDue \in Nat \ {0} /\ Height \in Nat /\ MaxInputs \in Nat

\* "setup": a call of main or of wait_for_next_input fails; "full": a line fills the
\* buffer.

LoopPrograms == {"idle-basic", "uvstop", "ref-timer", "idle-compute", "tty-gravity"}
Timers == {"gc", "fake_job", "tick"}
Stopped == -1

VARIABLES
  phase,    \* "main", "timers", "idle", "prepare", "pending", "poll", "test"
  now,      \* the loop's time, in repeats of the program's timer
  due,      \* [Timers -> when the timer is due, or Stopped]
  idler,    \* the idle handle is active
  idles,    \* how often it was called back
  stdin,    \* the read of a line: "none", "waiting", "done", "ended"
  inputs,   \* lines read
  writes,   \* uv_writes with write_req that were not called back
  pos,
  stopping  \* uv_stop was called

loopVars == <<phase, now, due, idler, idles, stdin, inputs, writes, pos, stopping>>

LoopsInit ==
  /\ phase = "main" /\ now = 0 /\ due = [t \in Timers |-> Stopped] /\ idler = FALSE
  /\ idles = 0 /\ stdin = "none" /\ inputs = 0
  /\ writes = 0 /\ pos = 0 /\ stopping = FALSE

At(p) == program \in LoopPrograms /\ Running /\ phase = p

-----------------------------------------------------------------------------
(* The programs.                                                            *)

\* Mutant of the next one: the computation is started once, in main.
WaitForNextInput_Once ==
  /\ stdin' = "waiting"
  /\ idler' = (idler \/ inputs = 0)

WaitForNextInput == stdin' = "waiting" /\ idler' = TRUE

StartIdling == idler' = TRUE /\ UNCHANGED <<due, stdin>>
StartJobs ==
  due' = [due EXCEPT !["gc"] = 0, !["fake_job"] = JobDue] /\ UNCHANGED <<idler, stdin>>
StartTick == due' = [due EXCEPT !["tick"] = 1] /\ UNCHANGED <<idler, stdin>>

Main ==
  /\ At("main")
  /\ \/ /\ phase' = "timers"
        /\ CASE program = "ref-timer" -> StartJobs
             [] program = "tty-gravity" -> StartTick
             [] program = "idle-compute" -> WaitForNextInput /\ UNCHANGED due
             [] OTHER -> StartIdling
        /\ UNCHANGED proc
     \/ /\ "setup" \in Faults
        /\ proc' = "aborted" \/ (program = "tty-gravity" /\ proc' = "no_winsize")
        /\ UNCHANGED <<phase, due, idler, stdin>>
  /\ UNCHANGED <<now, idles, inputs, writes, pos, stopping>>

\* Mutant: text and position are written apart, with the one request.
TimerCb_Twice ==
  /\ writes' = writes + 2 /\ pos' = pos + 1
  /\ due' = [due EXCEPT !["tick"] = IF pos + 1 > Height THEN Stopped ELSE now + 1]

\* timer_cb of 27-tty-gravity; the buffer is in a frame that it leaves.
TimerCb ==
  /\ writes' = writes + 1 /\ pos' = pos + 1
  /\ due' = [due EXCEPT !["tick"] = IF pos + 1 > Height THEN Stopped ELSE now + 1]

\* gc is repeated, fake_job is not.
Gc == due' = [due EXCEPT !["gc"] = now + 1] /\ UNCHANGED <<writes, pos>>
FakeJob == due' = [due EXCEPT !["fake_job"] = Stopped] /\ UNCHANGED <<writes, pos>>

\* idle_cb of the three programs; 21-uvstop leaves its handle active.
BasicIdleCb == idler' = (idles < IdleUntil) /\ UNCHANGED stopping
UvstopIdleCb == stopping' = (idles >= 5) /\ UNCHANGED idler
ComputeIdleCb == idler' = FALSE /\ UNCHANGED stopping

\* A line that fills the buffer has its terminator written behind it.
StdinFsCb ==
  \/ /\ stdin = "done" /\ inputs' = inputs + 1
     /\ \/ /\ WaitForNextInput
           /\ UNCHANGED proc \/ ("full" \in Faults /\ proc' = "undefined")
        \/ "setup" \in Faults /\ proc' = "aborted" /\ stdin' = "none" /\ UNCHANGED idler
  \/ stdin = "ended" /\ stdin' = "none" /\ UNCHANGED <<proc, inputs, idler>>

-----------------------------------------------------------------------------
(* uv_run.                                                                  *)

Due == {t \in Timers : due[t] # Stopped /\ due[t] <= now}

\* Timers run in the order in which they are due.
RunTimers ==
  /\ At("timers")
  /\ IF Due = {} THEN phase' = "idle" /\ UNCHANGED <<due, writes, pos>>
     ELSE \E t \in Due :
            /\ \A u \in Due : due[t] <= due[u]
            /\ CASE t = "gc" -> Gc [] t = "fake_job" -> FakeJob [] OTHER -> TimerCb
            /\ UNCHANGED phase
  /\ UNCHANGED <<proc, now, idler, idles, stdin, inputs, stopping>>

RunIdle ==
  /\ At("idle") /\ phase' = "prepare"
  /\ IF idler
     THEN /\ idles' = idles + 1
          /\ CASE program = "idle-basic" -> BasicIdleCb
               [] program = "uvstop" -> UvstopIdleCb
               [] OTHER -> ComputeIdleCb
     ELSE UNCHANGED <<idler, stopping, idles>>
  /\ UNCHANGED <<proc, now, due, stdin, inputs, writes, pos>>

\* prepare_cb of 21-uvstop only prints.
RunPrepare ==
  /\ At("prepare") /\ phase' = "pending"
  /\ UNCHANGED <<proc, now, due, idler, idles, stdin, inputs, writes, pos, stopping>>

RunPending ==
  /\ At("pending") /\ phase' = "poll"
  /\ writes' = 0
  /\ UNCHANGED <<proc, now, due, idler, idles, stdin, inputs, pos, stopping>>

\* What keeps uv_run from returning: gc is unref'd, the prepare handle of 21-uvstop
\* never stopped.
Alive ==
  \/ idler \/ stdin # "none" \/ program = "uvstop"
  \/ \E t \in Timers \ {"gc"} : due[t] # Stopped

\* Poll does not block, is woken by the next timer, perhaps late, or by a read.
Poll ==
  /\ At("poll") /\ phase' = "test"
  /\ \/ /\ idler \/ stopping \/ ~Alive
        /\ UNCHANGED <<proc, now, stdin, inputs, idler>>
     \/ /\ ~idler /\ ~stopping /\ \E t \in Timers : due[t] # Stopped
        /\ LET next == Min({due[t] : t \in {u \in Timers : due[u] # Stopped}})
           IN  now' \in next..(next + 1)
        /\ UNCHANGED <<proc, stdin, inputs, idler>>
     \/ StdinFsCb /\ UNCHANGED now
  /\ UNCHANGED <<due, idles, writes, pos, stopping>>

Test ==
  /\ At("test")
  /\ IF Alive /\ ~stopping THEN phase' = "timers" /\ UNCHANGED proc
                           ELSE proc' = "exited" /\ UNCHANGED phase
  /\ UNCHANGED <<now, due, idler, idles, stdin, inputs, writes, pos, stopping>>

\* Somebody types, or stops typing; the pool finishes the read.
Types ==
  /\ Runs("idle-compute") /\ stdin = "waiting"
  /\ stdin' \in {"ended"} \cup (IF inputs < MaxInputs THEN {"done"} ELSE {})
  /\ UNCHANGED <<proc, phase, now, due, idler, idles, inputs, writes, pos, stopping>>

UvRun == Main \/ RunTimers \/ RunIdle \/ RunPrepare \/ RunPending \/ Poll \/ Test

LoopsNext == UvRun \/ Types

\* The loop runs; nobody has to type.
LoopsFairness == WF_<<proc, loopVars>>(UvRun)

-----------------------------------------------------------------------------
(* What is checked.                                                         *)

\* 23-idle-compute has computed once for every line it has waited for, whenever
\* the lines come, by the time it waits for the next.
OneComputationPerInput ==
  program = "idle-compute" /\ phase = "poll" => idles = inputs + 1

\* 27-tty-gravity has one write_req: a tick never finds it in use, be it late.
RequestNotReused == writes <= 1

\* Handles that are active but unref'd (22-ref-timer/main.c:35), or whose loop was
\* stopped (21-uvstop/main.c:29), keep no program from its end.
LoopsEnd ==
  /\ program \in LoopPrograms \ {"idle-compute"} => <>(~Running)
  /\ program = "idle-compute" => ((stdin = "ended") ~> ~Running)
=============================================================================
