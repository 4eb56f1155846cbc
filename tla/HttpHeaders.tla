----------------------------- MODULE HttpHeaders -----------------------------
(***************************************************************************)
(* http_client_get up to the body (http_client.c): connecting, sending the  *)
(* request, reading until the headers are there, and parsing them line by   *)
(* line into the framing that HttpBody reads by.                            *)
(***************************************************************************)
EXTENDS HttpFraming

VARIABLES
  message,     \* the response
  wire,        \* what has yet to arrive
  respb,       \* what has
  pc,
  off,         \* where in respb the next line starts
  headers,     \* HttpResponseHeaders
  result       \* an error, but for as long as there is none

vars == <<message, wire, respb, pc, off, headers, result>>

Init ==
  /\ message \in Responses /\ wire = message.wire
  /\ respb = <<>> /\ off = 0 /\ pc = "connect" /\ result = "reading"
  /\ headers = [status |-> "none", transfer_encoding_chunked |-> FALSE,
                has_content_length |-> FALSE, content_length |-> 0]

Return(outcome) ==
  /\ pc' = "returned" /\ result' = outcome
  /\ UNCHANGED <<message, wire, respb, off, headers>>

(***************************************************************************)
(* The connection.                                                          *)
(***************************************************************************)
Connect ==
  /\ pc = "connect" /\ pc' = "send"
  /\ UNCHANGED <<message, wire, respb, off, headers, result>>

SendRequest ==
  /\ pc = "send" /\ pc' = "read"
  /\ UNCHANGED <<message, wire, respb, off, headers, result>>

TransportFails ==
  pc \in {"connect", "send", "read"} /\ Return("transport")

\* Mutant: the end of any line will do.
AnyLineEnd(s) == \E i \in 1 .. Len(s) - 1 : SubSeq(s, i, i + 1) = <<CR, LF>>

\* has_memstr(.., "\r\n\r\n")
HasBlankLine(s) ==
  \E i \in 1 .. Len(s) - 3 : SubSeq(s, i, i + 3) = <<CR, LF, CR, LF>>

\* Mutant: what is in the buffer already is not counted.
WholeRoom == Capacity

Room == Capacity - Len(respb)

Receive ==
  /\ pc = "read" /\ wire # <<>>
  /\ \E n \in 1 .. Min({Len(wire), Room}) :
       /\ respb' = respb \o SubSeq(wire, 1, n)
       /\ wire' = SubSeq(wire, n + 1, Len(wire))
  /\ pc' = IF HasBlankLine(respb') \/ Len(respb') >= Capacity THEN "status" ELSE pc
  /\ UNCHANGED <<message, off, headers, result>>

ConnectionEnds ==
  /\ pc = "read" /\ wire = <<>> /\ EndsCleanly(message) /\ pc' = "status"
  /\ UNCHANGED <<message, wire, respb, off, headers, result>>

(***************************************************************************)
(* Lines: up to the first LF, which a CR must precede.                      *)
(***************************************************************************)
LineFeeds == {i \in off + 1 .. Len(respb) : respb[i] = LF}

LineFeed == Min(LineFeeds)

HasLine ==
  LineFeeds # {} /\ LineFeed > off + 1 /\ respb[LineFeed - 1] = CR

Line == SubSeq(respb, off + 1, LineFeed - 2)

Advance ==
  off' = LineFeed /\ UNCHANGED <<message, wire, respb>>

NoLine == pc \in {"status", "headers"} /\ ~ HasLine /\ Return("malformed")

HasStatus == Len(Line) >= 2 /\ Line[1] = VERSION /\ Line[2] \in Statuses

\* The reason phrase is ignored.
StatusLine ==
  /\ pc = "status" /\ HasLine
  /\ HasStatus
  /\ headers' = [headers EXCEPT !.status = Line[2]]
  /\ pc' = "headers"
  /\ Advance
  /\ UNCHANGED result

StatusMalformed ==
  pc = "status" /\ HasLine /\ ~ HasStatus /\ Return("malformed")

(***************************************************************************)
(* http_client_parse_header_number                                          *)
(***************************************************************************)
\* Mutant: the number may wrap around.
AlwaysFits(out, digit) == TRUE

Fits(out, digit) == out <= (UintMax - digit) \div 10

NumberStep(n, c) ==
  CASE c \in DOMAIN Digit ->
         [n EXCEPT !.ok = @ /\ ~ n.finished /\ Fits(n.out, Digit[c]),
                   !.out = (@ * 10 + Digit[c]) % (UintMax + 1),
                   !.empty = FALSE]
    [] c = SP -> [n EXCEPT !.finished = ~ n.empty]
    [] OTHER -> [n EXCEPT !.ok = FALSE]

Number(s) ==
  FoldLeft(NumberStep, [ok |-> TRUE, out |-> 0, empty |-> TRUE, finished |-> FALSE], s)

ValidNumber(s) == Number(s).ok /\ ~ Number(s).empty

(***************************************************************************)
(* http_client_parse_header_token_list                                      *)
(***************************************************************************)
TokenStep(l, c) ==
  CASE c \in TokenChars /\ l.state = "BEFORE" ->
         [l EXCEPT !.list = Append(@, <<c>>), !.state = "IN"]
    [] c \in TokenChars /\ l.state = "IN" ->
         [l EXCEPT !.list[Len(l.list)] = Append(@, c)]
    [] c = COMMA -> [l EXCEPT !.state = "BEFORE"]
    [] c = SP -> [l EXCEPT !.state = IF @ = "IN" THEN "AFTER" ELSE @]
    [] OTHER -> [l EXCEPT !.ok = FALSE]

TokenList(s) ==
  FoldLeft(TokenStep, [ok |-> TRUE, state |-> "BEFORE", list |-> <<>>], s)

(***************************************************************************)
(* http_client_parse_header                                                 *)
(***************************************************************************)
Colons == {i \in DOMAIN Line : Line[i] = COLON}

Key == SubSeq(Line, 1, Min(Colons) - 1)

Value == SubSeq(Line, Min(Colons) + 1, Len(Line))

ParsingHeader == pc = "headers" /\ HasLine /\ Line # <<>>

Parsing(key) == ParsingHeader /\ Colons # {} /\ Key = <<key>>

ContentLength ==
  /\ Parsing("content-length")
  /\ ~ headers.has_content_length /\ ValidNumber(Value)
  /\ \E n \in 0 .. UintMax :
       /\ n = Number(Value).out
       /\ headers' = [headers EXCEPT !.has_content_length = TRUE, !.content_length = n]
  /\ Advance
  /\ UNCHANGED <<pc, result>>

TransferEncoding ==
  /\ Parsing("transfer-encoding") /\ ~ headers.transfer_encoding_chunked
  /\ TokenList(Value).ok /\ TokenList(Value).list = <<<<"chunked">>>>
  /\ headers' = [headers EXCEPT !.transfer_encoding_chunked = TRUE]
  /\ Advance
  /\ UNCHANGED <<pc, result>>

EncodingUnsupported ==
  /\ Parsing("transfer-encoding") /\ ~ headers.transfer_encoding_chunked
  /\ TokenList(Value).ok /\ TokenList(Value).list # <<<<"chunked">>>>
  /\ Return("unsupported")

OtherHeader ==
  /\ ParsingHeader /\ Colons # {}
  /\ Key \notin {<<"content-length">>, <<"transfer-encoding">>}
  /\ Advance
  /\ UNCHANGED <<pc, headers, result>>

HeaderMalformed ==
  /\ \/ ParsingHeader /\ Colons = {}
     \/ /\ Parsing("content-length")
        /\ headers.has_content_length \/ ~ ValidNumber(Value)
     \/ /\ Parsing("transfer-encoding")
        /\ headers.transfer_encoding_chunked \/ ~ TokenList(Value).ok
  /\ Return("malformed")

(***************************************************************************)
(* The end of the headers.                                                  *)
(***************************************************************************)
\* Mutant: the empty line is left to the body.
HeadersLenShort == off

HeadersLen == LineFeed

\* The body of a response that is not 200 is not read.
HeadersEnd ==
  /\ pc = "headers" /\ HasLine /\ Line = <<>>
  /\ off' = HeadersLen
  /\ IF headers.status = "200" THEN pc' = "body" /\ UNCHANGED result
                               ELSE pc' = "returned" /\ result' = "todo"
  /\ UNCHANGED <<message, wire, respb, headers>>

Next ==
  \/ Connect \/ SendRequest \/ TransportFails \/ Receive \/ ConnectionEnds
  \/ NoLine \/ StatusLine \/ StatusMalformed
  \/ ContentLength \/ TransferEncoding \/ EncodingUnsupported \/ OtherHeader
  \/ HeaderMalformed \/ HeadersEnd

Spec == Init /\ [][Next]_vars

(***************************************************************************)
(* Properties.                                                              *)
(***************************************************************************)
\* The buffer is never overrun and the number is a uint64_t.
TypeOK ==
  /\ message \in Response
  /\ wire \in Seq(Bytes) /\ respb \in Seq(Bytes) /\ Len(respb) <= Capacity
  /\ pc \in {"connect", "send", "read", "status", "headers", "body", "returned"}
  /\ off \in 0 .. Len(respb)
  /\ headers \in Headers
  /\ result \in {"reading", "transport", "malformed", "unsupported", "todo"}

\* A body is read by the framing its headers give, and by no other: a single
\* Content-Length with the very number it spells, or chunks if and only if that
\* is the one coding named (http_client.c:372-412).
FramingMeant ==
  pc = "body" =>
    /\ message.lines[1][2] = "200"
    /\ headers.has_content_length = StatesLength(message.lines)
    /\ StatesLength(message.lines) => SpellsLength(message.lines, headers.content_length)
    /\ headers.transfer_encoding_chunked = StatesCoding(message.lines)
    /\ StatesCoding(message.lines) => IsChunked(message.lines)

\* However the response is cut into pieces, the body starts with what follows
\* the headers: nothing of it is lost in the buffer or taken for a header, and
\* no response whose headers did not come to their end has one.
BodyFollowsHead ==
  pc = "body" => HeadOf(message.lines) \o SubSeq(respb, off + 1, Len(respb)) \o wire
                   = message.wire

\* Headers that are in order and fit the buffer are never refused, however the
\* response is cut into pieces and whatever bytes of the body come with them.
GoodNeverRefused ==
  pc = "returned" /\ result \in {"malformed", "unsupported"} =>
    ~ (Acceptable(message.lines) /\ IsPrefix(HeadOf(message.lines), message.wire))
=============================================================================
