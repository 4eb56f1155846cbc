------------------------------ MODULE HttpWire ------------------------------
(***************************************************************************)
(* What http_client_get (http_client.c) receives: a response, its bytes,    *)
(* and how they end; and the buffers and numbers they are put into.         *)
(*                                                                          *)
(* A byte is a character, but for what is only ever compared as a whole:    *)
(* the names of headers and of codings, in either case, the version and the *)
(* status.  SP stands for the space and the tab.                            *)
(***************************************************************************)
EXTENDS Integers, SequencesExt

CONSTANTS
  Bytes,
  Responses,     \* the responses of the instance
  Hex,           \* Hex[b]: the value of a byte that is a hexadecimal digit
  Digit,         \* Digit[b]: the value of a decimal digit
  TokenChars,    \* the bytes tokens are made of
  Statuses,      \* the bytes that are a status
  SizeMax,       \* SIZE_MAX
  UintMax,       \* UINT64_MAX
  Capacity,      \* sizeof(respb)
  BufSize        \* sizeof(buf), STREAMBUFSIZE

CR == "CR"   LF == "LF"   SP == "SP"
COLON == ":"   COMMA == ","   SEMICOLON == ";"
VERSION == "HTTP/1.1 "

ASSUME DigitsAssumption ==
  /\ DOMAIN Hex \subseteq Bytes /\ \A b \in DOMAIN Hex : Hex[b] \in 0 .. 15
  /\ DOMAIN Digit \subseteq TokenChars /\ \A b \in DOMAIN Digit : Digit[b] \in 0 .. 9

ASSUME SyntaxAssumption ==
  /\ {CR, LF, SP, COLON, COMMA, SEMICOLON} \subseteq Bytes \ (DOMAIN Hex \cup TokenChars)
  /\ TokenChars \cup Statuses \cup {VERSION} \subseteq Bytes

ASSUME SizesAssumption ==
  /\ SizeMax \in Nat /\ SizeMax >= 15
  /\ UintMax \in Nat /\ UintMax >= 9
  /\ Capacity \in Nat /\ BufSize \in Nat \ {0}

\* The lines of the head, without their ends, and the body the server means;
\* the bytes it sends, which are both of them, or fewer, or wrong; whether the
\* body is on the wire as a whole; and whether the connection is under TLS, and
\* is cut rather than closed.
Response ==
  [lines : Seq(Seq(Bytes)), data : Seq(Bytes), wire : Seq(Bytes),
   whole : BOOLEAN, tls : BOOLEAN, cut : BOOLEAN]

ASSUME ResponsesAssumption == Responses \subseteq Response

\* HttpResponseHeaders
Headers ==
  [status : Statuses \cup {"none"}, transfer_encoding_chunked : BOOLEAN,
   has_content_length : BOOLEAN, content_length : 0 .. UintMax]

\* transport_recv of a connection that has ended.  TLS takes the end for a
\* truncation unless a close_notify came before it (convert_tls_failure).
EndsCleanly(response) == ~ (response.tls /\ response.cut)

HeadOf(lines) ==
  FoldLeft(LAMBDA s, l : s \o l \o <<CR, LF>>, <<>>, lines) \o <<CR, LF>>
=============================================================================
