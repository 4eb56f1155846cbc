------------------------------ MODULE HttpGet -------------------------------
(***************************************************************************)
(* http_client_get as a whole: the head of HttpHeaders, which leaves a      *)
(* framing and the first bytes of the body, and the body of HttpBody, which *)
(* is read by the one and begins with the other.                            *)
(***************************************************************************)
EXTENDS HttpBody

VARIABLES
  respb, pc, off          \* of the head, and where http_client_get is

head == <<respb, pc, off>>
body == <<buffer, parser, content_seen, started, delivered>>
getVars == <<vars, head>>

Reply == INSTANCE HttpHeaders

GetInit == Reply!Init /\ ParserStart /\ buffer = <<>>

HeadStep == Reply!Next /\ UNCHANGED body

\* bodystart and bodystartlen; respb is not looked at again.
BodyBegins ==
  /\ pc = "body" /\ pc' = "streaming"
  /\ buffer' = SubSeq(respb, off + 1, Len(respb))
  /\ respb' = <<>> /\ off' = 0
  /\ UNCHANGED <<message, headers, wire, parser, content_seen, started,
                 delivered, result>>

BodyStep == pc = "streaming" /\ Next /\ UNCHANGED head

GetNext == HeadStep \/ BodyBegins \/ BodyStep

GetSpec == GetInit /\ [][GetNext]_getVars

(***************************************************************************)
(* Properties: those of the body, in HttpBody, and those of the head.       *)
(***************************************************************************)
\* The buffer of the head is never overrun, the length it states is a uint64_t,
\* and reading it ends in an error or in a body (http_client.c:810-836).
HeadTypeOK == pc # "streaming" => Reply!TypeOK

\* A body is read by the framing its headers give, and by no other
\* (http_client.c:372-412).
FramingMeant == Reply!FramingMeant

\* The first bytes of a body are those that follow its headers
\* (http_client.c:838-839).
BodyFollowsHead == Reply!BodyFollowsHead

\* Headers that are in order are never refused (http_client.c:434-460).
GoodNeverRefused == Reply!GoodNeverRefused

\* The first empty line of s ends at n.
EmptyLineEnds(s, n) == n >= 3 /\ s[n - 2] = LF /\ s[n - 1] = CR /\ s[n] = LF

HeadEnds(s, n) == EmptyLineEnds(s, n) /\ \A m \in 3 .. n - 1 : ~ EmptyLineEnds(s, m)

\* Of a body that is not in chunks, the callback is given the bytes that follow
\* the first empty line, in order and however they are cut into pieces, and
\* success means all of them: as many as the headers state or, if they state
\* none, all up to an end that is no truncation (http_client.c:684-726).
PlainBodyMeant ==
  pc = "streaming" /\ ~ Chunked =>
    \E n \in DOMAIN message.wire :
      LET sent == SubSeq(message.wire, n + 1, Len(message.wire)) IN
      /\ HeadEnds(message.wire, n)
      /\ IsPrefix(delivered, sent)
      /\ result = "ok" =>
           IF HasLength THEN Len(delivered) = headers.content_length
                        ELSE delivered = sent /\ EndsCleanly(message)
=============================================================================
