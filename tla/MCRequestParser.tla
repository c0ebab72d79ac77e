-------------------------- MODULE MCRequestParser ---------------------------
(* Requests for TLC: one url of two pieces, up to two header lines whose     *)
(* names are known, known but capitalized, or end in a known name.           *)
EXTENDS RequestParser

host == <<"ho", "st">>
Host == <<"Ho", "st">>
xHost == <<"x-", "ho", "st">>
accept == <<"accept">>

MCPieces == {"/a", "/b", "/", "ho", "st", "Ho", "x-", "accept", "u", "v", "w"}
MCKnown == {host, accept}
MCLower == [p \in {"Ho"} |-> "ho"]

MCLines == [name : {host, Host, xHost, accept}, value : {<<"v", "w">>, <<"u">>, <<>>}]

\* A request may have no header lines at all.
MCHeaders == UNION {[1..n -> MCLines] : n \in 0..2}
MCRequests == [url : {<<"/a", "/b">>, <<"/">>}, headers : MCHeaders]
=============================================================================
