---------------------------- MODULE FileTransfer ----------------------------
(***************************************************************************)
(* What piping a file into a connection promises, whatever the reads and   *)
(* writes it takes: pieces are handed to the connection in file order (so  *)
(* a count says which), a transfer is complete only when exactly the       *)
(* announced length has been handed over, and one that does not complete   *)
(* fails for good.                                                         *)
(***************************************************************************)
EXTENDS Naturals

CONSTANT Conns              \* the connections files are piped into

VARIABLES outcome,          \* [Conns -> {"idle", "sending", "complete", "failed"}]
          length,           \* [Conns -> Nat], the announced length
          sent              \* [Conns -> Nat], the part handed to the connection

ftVars == <<outcome, length, sent>>

Init ==
  /\ outcome = [c \in Conns |-> "idle"]
  /\ length = [c \in Conns |-> 0]
  /\ sent = [c \in Conns |-> 0]

Begin(c) ==
  /\ outcome[c] = "idle"
  /\ outcome' = [outcome EXCEPT ![c] = "sending"]
  /\ length' = [length EXCEPT ![c] = length'[c]]
  /\ UNCHANGED sent

Deliver(c) ==
  /\ outcome[c] = "sending"
  /\ sent'[c] > sent[c]
  /\ sent' = [sent EXCEPT ![c] = sent'[c]]
  /\ UNCHANGED <<outcome, length>>

Complete(c) ==
  /\ outcome[c] = "sending"
  /\ sent[c] = length[c]
  /\ outcome' = [outcome EXCEPT ![c] = "complete"]
  /\ UNCHANGED <<length, sent>>

\* The process stops: whatever is not complete now never will be.
Fail ==
  /\ outcome' = [c \in Conns |-> IF outcome[c] = "complete" THEN "complete" ELSE "failed"]
  /\ UNCHANGED <<length, sent>>

Next == Fail \/ \E c \in Conns : Begin(c) \/ Deliver(c) \/ Complete(c)

Spec == Init /\ [][Next]_ftVars
=============================================================================
