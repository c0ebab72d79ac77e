--------------------------- MODULE RequestParser ----------------------------
(***************************************************************************)
(* examples/static-web-server/request-parser.c: the callbacks http-parser  *)
(* makes while it goes over what a connection sent, and what they leave in *)
(* the sws_parse_req_t of the connection.                                  *)
(*                                                                         *)
(* Text is a sequence of pieces, the parts no read cuts.  http-parser      *)
(* calls back once for a token (the url, a field, a value), or once for    *)
(* every part of it when reads cut it; if a read ends right behind it, the *)
(* last part is empty, as only the next byte tells that the token is over. *)
(* The request lives in memory that malloc returned, and                   *)
(* sws_req_parser_init sets *only* the parser.                             *)
(***************************************************************************)
EXTENDS Naturals, Sequences, FiniteSetsExt

CONSTANTS
  Pieces,
  Requests,   \* what clients send: [url : Text, headers : Seq([name, value : Text])]
  Known,      \* the (lower case) header names that have a place in the result
  Lower,      \* tolower, on the pieces that have capitals
  Cuts,       \* the kinds of token, of "url", "field", "value", a read may cut
  Malformed,  \* whether what is sent may turn out to be no request
  MaxMsgs     \* messages on a connection

Text == Seq(Pieces)

\* http-parser takes no header line without a name.
HeaderLines == [name : Text \ {<< >>}, value : Text]
ASSUME RequestsKnown == Requests \subseteq [url : Text, headers : Seq(HeaderLines)]
ASSUME CutsKnown == Cuts \subseteq {"url", "field", "value"}
ASSUME MalformedKnown == Malformed \in BOOLEAN
ASSUME MaxMsgsNat == MaxMsgs \in Nat \ {0}

VARIABLES
  sent,       \* the request being parsed
  rest,       \* the tokens of it still to come
  phase,      \* "parsing", "complete", "freed", "assert" or "undefined"
  msgs,       \* messages begun
  url, field, value,    \* pointers of the request
  result,     \* [Known -> Pointers], the arrays the header values are copied to
  cut         \* the cuts reads have made on this connection: [kind |-> , at |-> ]

parserVars == <<sent, rest, phase, msgs, url, field, value, result, cut>>

\* Uninitialized memory, NULL, and a string.
Garbage == [is |-> "garbage", text |-> <<>>]
Null == [is |-> "null", text |-> <<>>]
Str(t) == [is |-> "string", text |-> t]

\* The tokens of a request, in the order http-parser meets them.
Token(k, t) == [kind |-> k, text |-> t]
Tokens(r) ==
  <<Token("url", r.url)>> \o
  [i \in 1..(2 * Len(r.headers)) |->
     LET h == r.headers[(i + 1) \div 2]
     IN  IF i % 2 = 1 THEN Token("field", h.name) ELSE Token("value", h.value)]

ParserInit ==
  /\ sent \in Requests
  /\ rest = Tokens(sent)
  /\ phase = "parsing"
  /\ msgs = 1
  /\ url = Garbage /\ field = Garbage /\ value = Garbage
  /\ result = [k \in Known |-> Garbage]
  /\ cut = {}

\* The length of the next part of the token at hand, and that part.
Parts == 0..Len(Head(rest).text)
Part(n) == SubSeq(Head(rest).text, 1, n)

Cut(k, w) == [kind |-> k, at |-> w]

\* The token is over, or the read is.
Advance(n) ==
  \/ n = Len(Head(rest).text) /\ rest' = Tail(rest) /\ UNCHANGED cut
  \/ /\ n > 0 /\ Head(rest).kind \in Cuts
     /\ rest' = <<[Head(rest) EXCEPT !.text = SubSeq(@, n + 1, Len(@))]>> \o Tail(rest)
     /\ cut' = cut \cup {Cut(Head(rest).kind,
                             IF n < Len(Head(rest).text) THEN "inside" ELSE "end")}

UrlOf_First(t) == IF url.is = "string" THEN url ELSE Str(t)
UrlOf(t) == Str(t)

OnUrl(n) ==
  /\ Head(rest).kind = "url"
  /\ url' = UrlOf(Part(n))
  /\ UNCHANGED <<phase, field, value, result>>

\* strtolower
LowerName_Exact(t) == t
LowerName(t) == [i \in DOMAIN t |-> IF t[i] \in DOMAIN Lower THEN Lower[t[i]] ELSE t[i]]

FieldOf_KnownOnly(t) == IF LowerName(t) \in Known THEN Str(t) ELSE Null
FieldOf(t) == Str(t)

OnHeaderField(n) ==
  /\ Head(rest).kind = "field"
  /\ field' = FieldOf(Part(n))
  /\ UNCHANGED <<phase, url, value, result>>

\* The line is kept if its lower case name is known.
ProcessHeaderLine(f, v) ==
  result' = [k \in Known |-> IF LowerName(f) = k THEN Str(v) ELSE result[k]]

\* The field is consumed with the first part of its value.
OnHeaderValue(n) ==
  /\ Head(rest).kind = "value"
  /\ \/ /\ field.is = "string" /\ Len(field.text) > 0
        /\ value' = Str(Part(n))
        /\ ProcessHeaderLine(field.text, Part(n))
        /\ field' = Null
        /\ UNCHANGED <<phase, url>>
     \/ /\ field.is # "string" \/ Len(field.text) = 0
        /\ phase' = "assert"
        /\ UNCHANGED <<url, field, value, result>>

\* http_parser_execute, one callback of it.
Execute ==
  /\ phase = "parsing" /\ rest # <<>>
  /\ \E n \in Parts :
       /\ Advance(n)
       /\ OnUrl(n) \/ OnHeaderField(n) \/ OnHeaderValue(n)
  /\ UNCHANGED <<sent, msgs>>

OnMessageComplete ==
  /\ phase = "parsing" /\ rest = <<>>
  /\ phase' = "complete"
  /\ UNCHANGED <<sent, rest, msgs, url, field, value, result, cut>>

\* The connection carries another message; nothing of the last is reset.
NextMessage ==
  /\ phase = "complete" /\ msgs < MaxMsgs
  /\ msgs' = msgs + 1
  /\ sent' \in Requests
  /\ rest' = Tokens(sent')
  /\ phase' = "parsing"
  /\ UNCHANGED <<url, field, value, result, cut>>

\* sws_cleanup_parse_req, when on_res_end releases the connection: free() of a
\* pointer nobody set is undefined, unless it happens to be NULL.
Frees == {url, field, value}

\* The connection is released after a message, or after bytes that are none.
CleanupParseReq ==
  /\ phase = "complete" \/ (phase = "parsing" /\ Malformed)
  /\ \/ phase' = "freed"
     \/ (\E p \in Frees : p.is \notin {"null", "string"}) /\ phase' = "undefined"
  /\ UNCHANGED <<sent, rest, msgs, url, field, value, result, cut>>

ParserOver == phase \in {"freed", "assert", "undefined"} /\ UNCHANGED parserVars

ParserNext == Execute \/ OnMessageComplete \/ NextMessage \/ CleanupParseReq \/ ParserOver

ParserSpec == ParserInit /\ [][ParserNext]_parserVars

-----------------------------------------------------------------------------
(* What is checked.                                                         *)

\* What a request says of a known name: the last of its lines counts.
Lines(r, k) == {i \in DOMAIN r.headers : LowerName(r.headers[i].name) = k}
Says(r, k) == Str(r.headers[Max(Lines(r, k))].value)

\* on_parse_complete is given the url and the known headers of its message; of
\* what a message leaves out it is given nothing but what an earlier one said.
ParsedAsSent ==
  phase = "complete" /\ cut = {} =>
    /\ url = Str(sent.url)
    /\ \A k \in Known : IF Lines(sent, k) # {} THEN result[k] = Says(sent, k)
                        ELSE msgs = 1 => result[k] = Garbage

\* The assertions of on_header_value (request-parser.c:132-133), that a value
\* follows a field of its own, fail only if a read ended in a value, or behind it
\* or a field; a read that ends inside a url or a field does not stop the server.
OnlyCutLinesFail ==
  phase = "assert" => cut \cap {Cut("value", "inside"), Cut("value", "end"), Cut("field", "end")} # {}

\* The assertions themselves.
ValueFollowsField == phase # "assert"
=============================================================================
