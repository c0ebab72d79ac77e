------------------------------ MODULE UvStream ------------------------------
(***************************************************************************)
(* libuv's writes (external), as far as the programs of examples/ depend   *)
(* on them: write requests of a stream are queued, are taken by the kernel *)
(* in order and in pieces, and each is called back once.                   *)
(***************************************************************************)
EXTENDS Naturals, SequencesExt

VARIABLES
  outq,     \* [streams -> Seq of Seq], what is left of each queued request
  calls,    \* [streams -> Seq of "0" or an error], callbacks that are due
  got       \* [streams -> Seq], bytes that arrived at the other end

streamVars == <<outq, calls, got>>

StreamsInit(S) ==
  LET none == [s \in S |-> << >>]
  IN  outq = none /\ calls = none /\ got = none

\* uv_write: one request for these bytes on each stream of S.
UvWrite(S, bytes) ==
  /\ outq' = [s \in DOMAIN outq |-> IF s \in S THEN Append(outq[s], bytes) ELSE outq[s]]
  /\ UNCHANGED <<calls, got>>

\* uv_close: the requests still queued are called back with UV_ECANCELED.
UvClose(S) ==
  /\ calls' = [s \in DOMAIN calls |->
                 IF s \in S THEN calls[s] \o [k \in DOMAIN outq[s] |-> "UV_ECANCELED"]
                            ELSE calls[s]]
  /\ outq' = [s \in DOMAIN outq |-> IF s \in S THEN << >> ELSE outq[s]]
  /\ UNCHANGED got

\* The kernel takes part of the oldest request, or what is left of it.
Taken(s) ==
  /\ outq[s] # << >>
  /\ LET oldest == Head(outq[s])
     IN \/ /\ got' = [got EXCEPT ![s] = @ \o oldest]
           /\ outq' = [outq EXCEPT ![s] = Tail(@)]
           /\ calls' = [calls EXCEPT ![s] = Append(@, "0")]
        \/ \E n \in 1..(Len(oldest) - 1) :
             /\ got' = [got EXCEPT ![s] = @ \o SubSeq(oldest, 1, n)]
             /\ outq' = [outq EXCEPT ![s][1] = SubSeq(@, n + 1, Len(@))]
             /\ UNCHANGED calls

\* The other end is gone, or full: the oldest request fails.
Refused(s) ==
  /\ outq[s] # << >>
  /\ outq' = [outq EXCEPT ![s] = Tail(@)]
  /\ calls' = [calls EXCEPT ![s] = Append(@, "UV_EPIPE")]
  /\ UNCHANGED got

\* uv__write_callbacks: the oldest callback that is due is made.
CalledBack(s) ==
  /\ calls' = [calls EXCEPT ![s] = Tail(@)]
  /\ UNCHANGED <<outq, got>>

\* The stream as its writer means it, once all is taken.
Written(s) == got[s] \o FlattenSeq(outq[s])
=============================================================================
