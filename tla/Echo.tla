-------------------------------- MODULE Echo --------------------------------
(***************************************************************************)
(* What an echo server promises the client of a connection: what comes     *)
(* back is a prefix of what was sent, byte for byte, and it only grows.    *)
(***************************************************************************)
EXTENDS Naturals, Sequences

CONSTANT Conns
VARIABLES sent,  \* [Conns -> Nat], bytes 1, 2, ... sent by the client
          got    \* [Conns -> Seq(Nat)], bytes it received

Init == sent = [c \in Conns |-> 0] /\ got = [c \in Conns |-> << >>]

Stream(n) == [k \in 1..n |-> k]

Send(c) == /\ sent' = [sent EXCEPT ![c] = @ + 1]
           /\ UNCHANGED got

Return(c) ==
  /\ \E n \in (Len(got[c]) + 1)..sent[c] : got' = [got EXCEPT ![c] = Stream(n)]
  /\ UNCHANGED sent

Spec == Init /\ [][\E c \in Conns : Send(c) \/ Return(c)]_<<sent, got>>
=============================================================================
