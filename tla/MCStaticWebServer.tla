-------------------------- MODULE MCStaticWebServer --------------------------
(* StaticWebServer for TLC. *)
EXTENDS StaticWebServer

CONSTANT Chatty  \* whose client may send a second message

MCMaxReqs == [c \in Conns |-> IF c = Chatty THEN 2 ELSE 1]
=============================================================================
