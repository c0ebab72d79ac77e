-------------------------------- MODULE Copy --------------------------------
(***************************************************************************)
(* The programs that copy a stream.  examples/03-uvtee copies its input to *)
(* its output and to a file, one uv_write for each; -all-async opens the   *)
(* file with a callback, -reuse-buf reads into one buffer, and both copy   *)
(* alike.  examples/02-uvcat copies a file with a chain of requests to     *)
(* the thread pool (external), each of which starts the next.              *)
(***************************************************************************)
EXTENDS Example, UvStream

CONSTANTS
  CopyBufSize,  \* bytes of one read at most
  InputSize     \* bytes of input at most

ASSUME CopySizesNat == CopyBufSize \in Nat \ {0} /\ InputSize \in Nat

\* "noopen": a file cannot be opened; "readerror", "emptyread": of the input;
\* "sink": a write fails; "short": a file request writes less than it should.

Tees == {"uvtee", "uvtee-all-async", "uvtee-reuse-buf"}
Sinks == {"stdout", "file"}

VARIABLES
  input,  \* bytes 1, 2, ... of the input so far
  done,   \* they are all
  taken,  \* how many of them have been read
  stage,  \* "opening", "reading", "failed", "closing"; of uvcat also "writing"
  lossy   \* the tee's file could not be opened, or uvcat lost bytes

copyVars == <<input, done, taken, stage, lossy, streamVars>>

CopyInit ==
  /\ IF program = "uvcat" THEN input \in 0..InputSize /\ done = TRUE
                          ELSE input = 0 /\ done = FALSE
  /\ taken = 0 /\ stage = "opening" /\ lossy = FALSE /\ StreamsInit(Sinks)

Tee == program \in Tees /\ Running
Teeing(s) == Tee /\ stage = s
Catting(s) == Runs("uvcat") /\ stage = s

\* Mutant: the length of the buffer, not nread, is written.
Next_Whole(n) == [k \in 1..CopyBufSize |-> IF k <= n THEN taken + k ELSE 0]
\* What the next read of n bytes yields.
NextBytes(n) == [k \in 1..n |-> taken + k]

Reads(n) == taken + n <= input /\ taken' = taken + n
AtEnd == done /\ taken = input

-----------------------------------------------------------------------------
(* The tees.                                                                *)

\* main: uv_fs_open without a callback, and its result is not looked at.
OpenFile ==
  /\ Teeing("opening") /\ program # "uvtee-all-async"
  /\ lossy' \in {FALSE, "noopen" \in Faults}
  /\ stage' = "reading"
  /\ UNCHANGED <<proc, input, done, taken, streamVars>>

\* open_cb of -all-async: input is read only once the file is open.
OpenCb ==
  /\ Teeing("opening") /\ program = "uvtee-all-async"
  /\ \/ stage' = "reading" /\ UNCHANGED proc
     \/ "noopen" \in Faults /\ proc' = "aborted" /\ UNCHANGED stage
  /\ UNCHANGED <<input, done, taken, lossy, streamVars>>

\* uv_write to a pipe that was opened on an error code fails and is not noticed.
Open == IF lossy THEN {"stdout"} ELSE Sinks

\* Mutant of the next one: an empty read taken for the end.
ReadCb_ZeroCloses ==
  /\ Teeing("reading")
  /\ \/ (AtEnd \/ "emptyread" \in Faults) /\ UNCHANGED taken
     \/ \E n \in 1..CopyBufSize : Reads(n)
  /\ IF taken' # taken THEN UvWrite(Open, NextBytes(taken' - taken)) /\ UNCHANGED stage
                       ELSE UvClose(Sinks) /\ stage' = "closing"
  /\ UNCHANGED <<proc, input, done, lossy>>

\* The end of the input closes all three pipes.
Eof == AtEnd /\ UvClose(Sinks) /\ stage' = "closing" /\ UNCHANGED taken

Data ==
  \E n \in 1..CopyBufSize :
    Reads(n) /\ UvWrite(Open, NextBytes(n)) /\ UNCHANGED stage

\* read_cb does nothing for an empty read or an error; libuv then stops reading.
ReadCb ==
  /\ Teeing("reading")
  /\ \/ Eof \/ Data
     \/ "emptyread" \in Faults /\ UNCHANGED <<taken, stage, streamVars>>
     \/ "readerror" \in Faults /\ stage' = "failed" /\ UNCHANGED <<taken, streamVars>>
  /\ UNCHANGED <<proc, input, done, lossy>>

\* write_cb: assert(status == 0)
WriteCb(s) ==
  /\ Tee /\ calls[s] # << >>
  /\ IF Head(calls[s]) = "0" THEN CalledBack(s) /\ UNCHANGED proc
                             ELSE proc' = "write_failed" /\ UNCHANGED streamVars
  /\ UNCHANGED <<input, done, taken, stage, lossy>>

-----------------------------------------------------------------------------
(* 02-uvcat: outq["stdout"] holds what is in the buffer.                    *)

CatOpenCb ==
  /\ Catting("opening")
  /\ \/ stage' = "reading" /\ UNCHANGED proc
     \/ "noopen" \in Faults /\ proc' = "aborted" /\ UNCHANGED stage
  /\ UNCHANGED <<input, done, taken, lossy, streamVars>>

CatReadCb ==
  /\ Catting("reading")
  /\ \/ AtEnd /\ stage' = "closing" /\ UNCHANGED <<proc, taken, streamVars>>
     \/ /\ \E n \in 1..CopyBufSize : Reads(n) /\ UvWrite({"stdout"}, NextBytes(n))
        /\ stage' = "writing" /\ UNCHANGED proc
     \/ /\ "readerror" \in Faults
        /\ proc' = "aborted" /\ UNCHANGED <<taken, stage, streamVars>>
  /\ UNCHANGED <<input, done, lossy>>

\* The next read starts whatever the write's result, and overwrites the rest.
CatWriteCb ==
  /\ Catting("writing")
  /\ \/ \E n \in 1..Len(Head(outq["stdout"])) :
          LET buffer == Head(outq["stdout"])
          IN  /\ n = Len(buffer) \/ "short" \in Faults
              /\ got' = [got EXCEPT !["stdout"] = @ \o SubSeq(buffer, 1, n)]
              /\ outq' = [outq EXCEPT !["stdout"] = << >>]
              /\ lossy' = (lossy \/ n < Len(buffer))
              /\ stage' = "reading" /\ UNCHANGED <<proc, calls>>
     \/ /\ "sink" \in Faults
        /\ proc' = "aborted" /\ UNCHANGED <<stage, lossy, streamVars>>
  /\ UNCHANGED <<input, done, taken>>

\* close_cb, or the error it reports.
CatCloseCb ==
  /\ Catting("closing")
  /\ proc' \in {"exited"} \cup (IF "noclose" \in Faults THEN {"aborted"} ELSE {})
  /\ UNCHANGED copyVars

-----------------------------------------------------------------------------
(* libuv, and what is around the programs.                                  *)

SinkTakes(s) ==
  /\ Tee /\ Taken(s)
  /\ UNCHANGED <<proc, input, done, taken, stage, lossy>>

\* A write fails; on a pipe that nobody reads any more SIGPIPE comes first.
SinkFails(s) ==
  /\ Tee /\ "sink" \in Faults
  /\ \/ Refused(s) /\ UNCHANGED proc
     \/ s = "stdout" /\ outq[s] # << >> /\ proc' = "killed" /\ UNCHANGED streamVars
  /\ UNCHANGED <<input, done, taken, stage, lossy>>

\* uv_run returns when nothing is read or written any more.
TeeEnds ==
  /\ Teeing("closing") \/ Teeing("failed")
  /\ \A s \in Sinks : outq[s] = << >> /\ calls[s] = << >>
  /\ proc' = "exited"
  /\ UNCHANGED copyVars

InputGrows ==
  /\ Tee /\ ~done
  /\ \/ input < InputSize /\ input' = input + 1 /\ UNCHANGED done
     \/ done' = TRUE /\ UNCHANGED input
  /\ UNCHANGED <<proc, taken, stage, lossy, streamVars>>

CopyLoop ==
  \/ OpenFile \/ OpenCb \/ ReadCb \/ TeeEnds
  \/ CatOpenCb \/ CatReadCb \/ CatWriteCb \/ CatCloseCb
  \/ \E s \in Sinks : WriteCb(s) \/ SinkTakes(s)

CopyNext == CopyLoop \/ InputGrows \/ \E s \in Sinks : SinkFails(s)

\* The loop runs, and whoever is behind the sinks reads.
CopyFairness == WF_<<proc, copyVars>>(CopyLoop)

-----------------------------------------------------------------------------
(* What is checked.                                                         *)

\* What a sink got and is still to get is what was read, in order and once,
\* unless a write to it failed or the program looked away from an error; a tee
\* that ends after the end of its input, or uvcat, has then copied all of it
\* (write_data copies the buffer, 03-uvtee/main.c:37).
CopiesInOrder ==
  program \in Tees \cup {"uvcat"} =>
    /\ \A s \in IF program = "uvcat" THEN {"stdout"} ELSE Open :
         (\A k \in DOMAIN calls[s] : calls[s][k] = "0") /\ (program = "uvcat" => ~lossy)
           => Written(s) = [k \in 1..taken |-> k]
    /\ proc = "exited" /\ stage = "closing" => AtEnd

\* Without an error of the sinks, the assertion of write_cb (03-uvtee/main.c:45)
\* stops a tee only at the end of the input, and when a sink is behind by then.
StopsOnlyBehind ==
  proc = "write_failed" =>
    \E s \in Sinks :
      /\ calls[s] # << >>
      /\ \/ Head(calls[s]) = "UV_EPIPE"
         \/ AtEnd /\ Head(calls[s]) = "UV_ECANCELED" /\ Len(got[s]) < taken

\* Once its input has ended, a program that copies ends.
CopyEnds == program \in Tees \cup {"uvcat"} => (done ~> ~Running)
=============================================================================
