-------------------------------- MODULE Dhcp --------------------------------
(***************************************************************************)
(* examples/06-udp-dhcp: broadcasts a request and prints one offer.        *)
(*                                                                         *)
(* libuv (external): a readable socket is read until nothing is left, the  *)
(* buffer's turn is over or the receiver was stopped; a read that finds    *)
(* nothing calls recv_cb with nread = 0 and no address.                    *)
(***************************************************************************)
EXTENDS Naturals, Example

CONSTANT MaxOffers  \* offers that servers send at most

ASSUME MaxOffersNat == MaxOffers \in Nat

\* "setup": a call of main fails; "send": sending does; "recv": receiving does;
\* "spurious": the socket was readable, and then was not.

VARIABLES
  recv,    \* recv_socket: "none", "on", "stopped", "closed"
  send,    \* send_req: "none", "queued", "sent", "called"
  offers,  \* datagrams in the socket
  sentOffers,
  reading, \* libuv is in its loop over the socket
  seen     \* offers printed

dhcpVars == <<recv, send, offers, sentOffers, reading, seen>>

DhcpInit ==
  /\ recv = "none" /\ send = "none" /\ offers = 0 /\ sentOffers = 0
  /\ reading = FALSE /\ seen = 0

\* start_recv, set_broadcast, send_msg; what uv_udp_send returns is not looked at.
DhcpMain ==
  /\ Runs("udp-dhcp") /\ recv = "none"
  /\ \/ /\ recv' = "on" /\ send' \in {"queued"} \cup (IF "send" \in Faults THEN {"called"} ELSE {})
        /\ UNCHANGED proc
     \/ "setup" \in Faults /\ proc' = "aborted" /\ UNCHANGED <<recv, send>>
  /\ UNCHANGED <<offers, sentOffers, reading, seen>>

\* The datagram leaves, or its sending fails: send_cb only logs that.
Sends ==
  /\ Runs("udp-dhcp") /\ send = "queued" /\ ~reading
  /\ send' \in {"sent"} \cup (IF "send" \in Faults THEN {"called"} ELSE {})
  /\ UNCHANGED <<proc, recv, offers, sentOffers, reading, seen>>

SendCb ==
  /\ Runs("udp-dhcp") /\ send = "sent" /\ ~reading
  /\ send' = "called"
  /\ UNCHANGED <<proc, recv, offers, sentOffers, reading, seen>>

\* Mutant: the receiver is not stopped.
RecvCb_GoesOn ==
  IF offers > 0
  THEN /\ seen' = seen + 1 /\ offers' = offers - 1 /\ UNCHANGED <<proc, recv>>
  ELSE proc' = "undefined" /\ UNCHANGED <<seen, offers, recv>>

\* recv_cb: uv_ip4_name reads through addr, which is NULL when nothing was read.
RecvCb ==
  IF offers > 0
  THEN /\ seen' = seen + 1 /\ offers' = offers - 1
       /\ recv' = "stopped" /\ UNCHANGED proc
  ELSE proc' = "undefined" /\ UNCHANGED <<seen, offers, recv>>

\* nread < 0
RecvFails ==
  /\ "recv" \in Faults
  /\ recv' = "closed" /\ UNCHANGED <<proc, seen, offers>>

HasData == offers > 0 \/ "spurious" \in Faults

\* uv__udp_recvmsg, from the first read to the one after which it gives up.
Receive ==
  /\ Runs("udp-dhcp") /\ recv = "on" /\ (reading \/ HasData)
  /\ RecvCb \/ RecvFails
  /\ reading' = (recv' = "on")
  /\ UNCHANGED <<send, sentOffers>>

\* uv_run returns when neither socket is in use.
DhcpReturn ==
  /\ Runs("udp-dhcp") /\ recv \in {"stopped", "closed"} /\ send = "called"
  /\ proc' = "exited"
  /\ UNCHANGED dhcpVars

ServerOffers ==
  /\ Runs("udp-dhcp") /\ send \in {"sent", "called"} /\ sentOffers < MaxOffers
  /\ sentOffers' = sentOffers + 1 /\ offers' = offers + 1
  /\ UNCHANGED <<proc, recv, send, reading, seen>>

DhcpLoop == DhcpMain \/ Sends \/ SendCb \/ Receive \/ DhcpReturn
DhcpNext == DhcpLoop \/ ServerOffers

\* The loop runs; no server has to answer.
DhcpFairness == WF_<<proc, dhcpVars>>(DhcpLoop)

-----------------------------------------------------------------------------
(* What is checked.                                                         *)

\* Stopping the receiver from its callback (main.c:102) ends libuv's loop over the
\* socket: of several offers one is read, and never what comes after the last.
OneOfferRead == seen <= 1 /\ (seen = 1 => proc # "undefined")

\* One answer ends the program.
DhcpEnds == program = "udp-dhcp" => ((sentOffers > 0) ~> ~Running)
=============================================================================
