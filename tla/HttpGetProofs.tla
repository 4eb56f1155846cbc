---------------------------- MODULE HttpGetProofs ----------------------------
(***************************************************************************)
(* http_client_get, for every response, every size of its buffers and       *)
(* however the response is cut into pieces: the head stays within its       *)
(* buffer, no chunk size wraps around, and a body that is not in chunks is  *)
(* given to the callback as it was sent.                                    *)
(***************************************************************************)
EXTENDS HttpGet, SequenceTheorems, WellFoundedInduction, TLAPS

(***************************************************************************)
(* The parser of the body.  Its invariant is TypeOK with ChunkSizeExact:    *)
(* the remainder it computes with is always that of a number below          *)
(* SizeMax + 1.                                                             *)
(***************************************************************************)
ParserInv == TypeOK /\ ChunkSizeExact

\* The guard of the size line is exact: what it lets through does not wrap.
LEMMA NoWrap ==
  ASSUME NEW n \in 0 .. SizeMax, NEW digit \in 0 .. 15,
         ~ (n > (SizeMax - digit) \div 16)
  PROVE  /\ n * 16 + digit \in 0 .. SizeMax
         /\ (n * 16 + digit) % (SizeMax + 1) = n * 16 + digit
<1>1. SizeMax \in Nat /\ SizeMax - digit \in Nat
  BY SizesAssumption
<1>2. n <= (SizeMax - digit) \div 16
  BY <1>1
<1>3. ((SizeMax - digit) \div 16) * 16 <= SizeMax - digit
  BY <1>1
<1>4. n * 16 + digit \in 0 .. SizeMax
  BY <1>1, <1>2, <1>3
<1>5. \A m \in 0 .. SizeMax : m % (SizeMax + 1) = m
  BY <1>1
<1> QED
  BY <1>4, <1>5

LEMMA GiveKeeps ==
  ASSUME ParserInv, NEW error \in {"ok", "truncated", "malformed", "transport", "callback",
                           "unsupported", "todo"},
         Give(error)
  PROVE  ParserInv'
BY DEF Give, parser, ParserInv, TypeOK, ChunkSizeExact

LEMMA Pieces ==
  ASSUME NEW s \in Seq(Bytes), NEW n \in 0 .. Len(s)
  PROVE  /\ SubSeq(s, 1, n) \in Seq(Bytes)
         /\ Drop(s, n) \in Seq(Bytes)
         /\ Len(SubSeq(s, 1, n)) = n
BY DEF Drop

LEMMA SizeDigitKeeps ==
  ASSUME ParserInv, SizeDigit
  PROVE  ParserInv'
<1>1. Hex[byte] \in 0 .. 15 /\ chunk_size \in 0 .. SizeMax
  BY DigitsAssumption DEF SizeDigit, ParserInv, TypeOK
<1>2. /\ chunk_size * 16 + Hex[byte] \in 0 .. SizeMax
      /\ chunk_size' = chunk_size * 16 + Hex[byte]
  BY <1>1, NoWrap DEF SizeDigit, Overflows
<1>3. declared' = chunk_size'
  BY <1>2 DEF SizeDigit, ParserInv, ChunkSizeExact
<1>4. chunk_size' \in 0 .. SizeMax /\ declared' \in Nat
  BY <1>2, <1>3, SizesAssumption
<1>5. buffer \in Seq(Bytes) /\ buffer # <<>> /\ buffer' = Tail(buffer)
  BY DEF SizeDigit, Parsing, Consume, ParserInv, TypeOK
<1>6. buffer' \in Seq(Bytes)
  BY <1>5
<1> QED
  BY <1>3, <1>4, <1>6 DEF SizeDigit, Consume, ParserInv, TypeOK, ChunkSizeExact

LEMMA SyntaxKeeps ==
  ASSUME ParserInv,
         \/ SizeEnds \/ BeforeExtension \/ Extension \/ SizeLine \/ AfterData
         \/ DataEnds \/ Trailer \/ TrailerEnds \/ AfterBody
  PROVE  ParserInv'
<1>1. /\ buffer # <<>> /\ Consume
  BY DEF SizeEnds, BeforeExtension, Extension, SizeLine, AfterData, DataEnds,
     Trailer, TrailerEnds, AfterBody, Parsing
<1>2. buffer' \in Seq(Bytes)
  BY <1>1 DEF Consume, ParserInv, TypeOK
<1>3. /\ state' \in {"CHUNK_SIZE", "CHUNK_EXT_WS1", "CHUNK_EXT", "CHUNK_SIZE_LF",
                    "CHUNK_DATA", "CHUNK_DATA_CR", "CHUNK_DATA_LF", "TRAILER",
                    "TRAILER_LF", "DONE"}
      /\ remaining_data' \in 0 .. SizeMax
      /\ chunk_size' = declared' /\ chunk_size' \in 0 .. SizeMax /\ declared' \in Nat
  BY SizesAssumption
     DEF SizeEnds, BeforeExtension, Extension, SizeLine, AfterData, DataEnds,
         Trailer, TrailerEnds, AfterBody, parser, ParserInv, TypeOK, ChunkSizeExact
<1>4. line_empty' \in BOOLEAN
  BY DEF SizeEnds, BeforeExtension, Extension, SizeLine, AfterData, DataEnds,
         Trailer, TrailerEnds, AfterBody, parser, ParserInv, TypeOK
<1> QED
  BY <1>1, <1>2, <1>3, <1>4 DEF Consume, ParserInv, TypeOK, ChunkSizeExact

LEMMA DataKeeps ==
  ASSUME ParserInv, Data
  PROVE  ParserInv'
<1>1. /\ remaining_data \in 0 .. SizeMax /\ buffer \in Seq(Bytes)
      /\ delivered \in Seq(Bytes) /\ Len(buffer) \in Nat /\ SizeMax \in Nat
  BY SizesAssumption DEF ParserInv, TypeOK
<1>2. Available \in 0 .. Len(buffer) /\ Available <= remaining_data
  BY <1>1 DEF Available, Least
<1>3. /\ SubSeq(buffer, 1, Available) \in Seq(Bytes)
      /\ Drop(buffer, Available) \in Seq(Bytes)
  BY <1>1, <1>2, Pieces
<1>4. delivered' \in Seq(Bytes) /\ buffer' \in Seq(Bytes)
  BY <1>1, <1>3 DEF Data
<1>5. remaining_data' \in 0 .. SizeMax
  BY <1>1, <1>2 DEF Data
<1> QED
  BY <1>4, <1>5 DEF Data, ParserInv, TypeOK, ChunkSizeExact

LEMMA ChunkedReceiveKeeps ==
  ASSUME ParserInv, ChunkedReceive
  PROVE  ParserInv'
<1>1. wire \in Seq(Bytes) /\ Len(wire) \in Nat
  BY DEF ParserInv, TypeOK
<1>2. PICK n \in 1 .. Least(Len(wire), BufSize) :
        buffer' = SubSeq(wire, 1, n) /\ wire' = Drop(wire, n)
  BY DEF ChunkedReceive
<1>3. n \in 0 .. Len(wire)
  BY <1>1, SizesAssumption DEF Least
<1>4. buffer' \in Seq(Bytes) /\ wire' \in Seq(Bytes)
  BY <1>1, <1>2, <1>3, Pieces
<1> QED
  BY <1>4 DEF ChunkedReceive, parser, ParserInv, TypeOK, ChunkSizeExact

LEMMA PlainKeeps ==
  ASSUME ParserInv, AllAtOnce \/ BodyStart \/ BodyReceive
  PROVE  ParserInv'
<1>1. /\ wire \in Seq(Bytes) /\ Len(wire) \in Nat /\ delivered \in Seq(Bytes)
      /\ buffer \in Seq(Bytes) /\ Len(buffer) \in Nat /\ content_seen \in Nat
      /\ headers.content_length \in Nat
  BY SizesAssumption DEF ParserInv, TypeOK, Headers
<1>2. CASE AllAtOnce
  <2>1. headers.content_length \in 0 .. Len(buffer)
    BY <1>1, <1>2 DEF AllAtOnce
  <2>2. delivered' \in Seq(Bytes)
    BY <1>1, <1>2, <2>1, Pieces DEF AllAtOnce
  <2> QED
    BY <1>2, <2>2 DEF AllAtOnce, parser, ParserInv, TypeOK, ChunkSizeExact
<1>3. CASE BodyStart
  <2>1. delivered' \in Seq(Bytes) /\ content_seen' \in Nat /\ buffer' \in Seq(Bytes)
    BY <1>1, <1>3 DEF BodyStart
  <2>2. started' \in BOOLEAN
    BY <1>3 DEF BodyStart
  <2> QED
    BY <1>3, <2>1, <2>2 DEF BodyStart, parser, ParserInv, TypeOK, ChunkSizeExact
<1>4. CASE BodyReceive
  <2>1. PICK n \in 1 .. Least(Len(wire), BufSize) :
          /\ delivered' = delivered \o SubSeq(wire, 1, n)
          /\ content_seen' = content_seen + n
          /\ wire' = Drop(wire, n)
    BY <1>4 DEF BodyReceive
  <2>2. n \in 0 .. Len(wire)
    BY <1>1, SizesAssumption DEF Least
  <2>3. SubSeq(wire, 1, n) \in Seq(Bytes) /\ wire' \in Seq(Bytes)
    BY <1>1, <2>1, <2>2, Pieces
  <2>4. delivered' \in Seq(Bytes) /\ content_seen' \in Nat
    BY <1>1, <2>1, <2>2, <2>3
  <2> QED
    BY <1>4, <2>3, <2>4 DEF BodyReceive, parser, ParserInv, TypeOK, ChunkSizeExact
<1> QED
  BY <1>2, <1>3, <1>4

LEMMA ParserInit == Init => ParserInv
<1> SUFFICES ASSUME Init PROVE ParserInv
  OBVIOUS
<1>1. message \in Response /\ headers \in Headers
  BY ResponsesAssumption DEF Init
<1>2. <<>> \in Seq(Bytes)
  OBVIOUS
<1>3. line_empty \in BOOLEAN /\ started \in BOOLEAN
  BY DEF Init, ParserStart
<1> QED
  BY <1>1, <1>2, <1>3, SizesAssumption
     DEF Init, ParserStart, ParserInv, TypeOK, ChunkSizeExact

LEMMA ParserNext == ParserInv /\ [Next]_vars => ParserInv'
<1> SUFFICES ASSUME ParserInv, [Next]_vars PROVE ParserInv'
  OBVIOUS
<1>1. ASSUME NEW error \in {"ok", "truncated", "malformed", "transport", "callback",
                           "unsupported", "todo"},
             Give(error)
      PROVE  ParserInv'
  BY <1>1, GiveKeeps
<1>2. CASE ParseChunk
  BY <1>1, <1>2, SizeDigitKeeps, SyntaxKeeps, DataKeeps
     DEF ParseChunk, SizeOverflows, SizeMalformed, Unexpected
<1>3. CASE ChunkedEnds \/ BodyEnds \/ ReceiveFails \/ CallbackFails
  BY <1>1, <1>3 DEF ChunkedEnds, BodyEnds, ReceiveFails, CallbackFails
<1>4. CASE ChunkedReceive \/ AllAtOnce \/ BodyStart \/ BodyReceive
  BY <1>4, ChunkedReceiveKeeps, PlainKeeps
<1>5. CASE UNCHANGED vars
  BY <1>5 DEF vars, parser, ParserInv, TypeOK, ChunkSizeExact
<1> QED
  BY <1>2, <1>3, <1>4, <1>5 DEF Next

\* The parser keeps its type whatever arrives.
THEOREM ParserTypeCorrect == Spec => []TypeOK
<1>1. ParserInv => TypeOK
  BY DEF ParserInv
<1> QED
  BY <1>1, ParserInit, ParserNext, PTL DEF Spec

\* No chunk size wraps around, for every width of size_t and every size line.
THEOREM ChunkSizeExactCorrect == Spec => []ChunkSizeExact
<1>1. ParserInv => ChunkSizeExact
  BY DEF ParserInv
<1> QED
  BY <1>1, ParserInit, ParserNext, PTL DEF Spec

(***************************************************************************)
(* The whole: the head hands the body over in a state the parser can start  *)
(* from.                                                                    *)
(***************************************************************************)
HeadInv ==
  /\ respb \in Seq(Bytes) /\ Len(respb) <= Capacity
  /\ off \in 0 .. Len(respb)
  /\ pc \in {"connect", "send", "read", "status", "headers", "body", "streaming",
             "returned"}
  /\ pc # "streaming" =>
       result \in {"reading", "transport", "malformed", "unsupported", "todo"}

GetInv == ParserInv /\ HeadInv

(***************************************************************************)
(* The least of a set of numbers, which Line and Room are made of.          *)
(***************************************************************************)
Below == {ss \in Nat \X Nat : ss[1] < ss[2]}

LEMMA LeastOf ==
  ASSUME NEW T, T \subseteq Nat, T # {}
  PROVE  Reply!Min(T) \in T /\ \A y \in T : Reply!Min(T) <= y
<1>1. IsWellFoundedOn(Below, Nat)
  BY NatLessThanWellFounded, Zenon DEF OpToRel, Below
<1>2. PICK x \in T : \A y \in T : ~ (<<y, x>> \in Below)
  BY <1>1, WFMin
<1>3. \A y \in T : ~ (y < x)
  BY <1>2 DEF Below
<1>4. \A y \in T : x <= y
  BY <1>3
<1> QED
  BY <1>4 DEF Reply!Min

(***************************************************************************)
(* The head.                                                                *)
(***************************************************************************)
\* A step of the head that leaves the bytes where they are.
LEMMA InPlace ==
  ASSUME GetInv, UNCHANGED <<message, wire, respb, body>>,
         headers' \in Headers, off' \in 0 .. Len(respb),
         pc' \in {"connect", "send", "read", "status", "headers", "body", "returned"},
         result' \in {"reading", "transport", "malformed", "unsupported", "todo"}
  PROVE  GetInv'
BY DEF GetInv, HeadInv, ParserInv, TypeOK, ChunkSizeExact, body, parser

LEMMA LineEnds ==
  ASSUME GetInv, Reply!HasLine
  PROVE  Reply!LineFeed \in 0 .. Len(respb)
<1>1. off \in Nat /\ Len(respb) \in Nat
  BY DEF GetInv, HeadInv
<1>2. Reply!LineFeeds \subseteq Nat /\ Reply!LineFeeds # {}
  BY <1>1 DEF Reply!HasLine, Reply!LineFeeds
<1>3. Reply!LineFeed \in Reply!LineFeeds
  BY <1>2, LeastOf DEF Reply!LineFeed
<1> QED
  BY <1>1, <1>3 DEF Reply!LineFeeds

LEMMA HeadStarts ==
  ASSUME GetInv, UNCHANGED body,
         Reply!Connect \/ Reply!SendRequest \/ Reply!ConnectionEnds
  PROVE  GetInv'
<1>1. headers \in Headers /\ off \in 0 .. Len(respb) /\ pc # "streaming"
  BY DEF GetInv, HeadInv, ParserInv, TypeOK, Reply!Connect, Reply!SendRequest,
         Reply!ConnectionEnds
<1> QED
  BY <1>1, InPlace
     DEF Reply!Connect, Reply!SendRequest, Reply!ConnectionEnds, GetInv, HeadInv

LEMMA HeadReturns ==
  ASSUME GetInv, UNCHANGED body,
         NEW outcome \in {"transport", "malformed", "unsupported"},
         Reply!Return(outcome)
  PROVE  GetInv'
<1>1. headers \in Headers /\ off \in 0 .. Len(respb)
  BY DEF GetInv, HeadInv, ParserInv, TypeOK
<1> QED
  BY <1>1, InPlace DEF Reply!Return

LEMMA HeadReceives ==
  ASSUME GetInv, UNCHANGED body, Reply!Receive
  PROVE  GetInv'
<1>1. /\ wire \in Seq(Bytes) /\ respb \in Seq(Bytes) /\ Len(wire) \in Nat
      /\ Len(respb) \in Nat /\ off \in 0 .. Len(respb) /\ Capacity - Len(respb) \in Nat
  BY SizesAssumption DEF GetInv, HeadInv, ParserInv, TypeOK
<1>2. PICK n \in 1 .. Reply!Min({Len(wire), Reply!Room}) :
        /\ respb' = respb \o SubSeq(wire, 1, n)
        /\ wire' = SubSeq(wire, n + 1, Len(wire))
  BY DEF Reply!Receive
<1>3. n \in 0 .. Len(wire) /\ n <= Capacity - Len(respb)
  <2>1. Reply!Min({Len(wire), Reply!Room}) \in {Len(wire), Reply!Room}
        /\ \A m \in {Len(wire), Reply!Room} : Reply!Min({Len(wire), Reply!Room}) <= m
    BY <1>1, LeastOf DEF Reply!Room
  <2> QED
    BY <1>1, <2>1 DEF Reply!Room
<1>4. SubSeq(wire, 1, n) \in Seq(Bytes) /\ Len(SubSeq(wire, 1, n)) = n
      /\ wire' \in Seq(Bytes)
  BY <1>1, <1>2, <1>3, Pieces DEF Drop
<1>5. /\ respb' \in Seq(Bytes) /\ Len(respb') <= Capacity
      /\ off' \in 0 .. Len(respb')
  <2>1. respb' \in Seq(Bytes) /\ Len(respb') = Len(respb) + n
    BY <1>1, <1>2, <1>4
  <2>2. off' = off /\ n \in Nat
    BY <1>3 DEF Reply!Receive
  <2> QED
    BY <1>1, <1>3, <2>1, <2>2, SizesAssumption
<1>6. pc' \in {"read", "status"} /\ pc # "streaming"
  BY DEF Reply!Receive
<1> QED
  BY <1>4, <1>5, <1>6
     DEF Reply!Receive, GetInv, HeadInv, ParserInv, TypeOK, ChunkSizeExact, body, parser

LEMMA HeadParses ==
  ASSUME GetInv, UNCHANGED body,
         \/ Reply!StatusLine \/ Reply!ContentLength \/ Reply!TransferEncoding
         \/ Reply!OtherHeader \/ Reply!HeadersEnd
  PROVE  GetInv'
<1>1. /\ Reply!HasLine /\ off' = Reply!LineFeed
      /\ UNCHANGED <<message, wire, respb>>
  BY DEF Reply!StatusLine, Reply!ContentLength, Reply!TransferEncoding, Reply!OtherHeader,
         Reply!HeadersEnd, Reply!HeadersLen, Reply!Advance, Reply!Parsing,
         Reply!ParsingHeader
<1>2. off' \in 0 .. Len(respb)
  BY <1>1, LineEnds
<1>3. pc \in {"status", "headers"}
      /\ result \in {"reading", "transport", "malformed", "unsupported", "todo"}
  BY DEF Reply!StatusLine, Reply!ContentLength, Reply!TransferEncoding, Reply!OtherHeader,
         Reply!HeadersEnd, Reply!Parsing, Reply!ParsingHeader, GetInv, HeadInv
<1>4. pc' \in {"status", "headers", "body", "returned"}
      /\ result' \in {"reading", "transport", "malformed", "unsupported", "todo"}
  BY <1>3
     DEF Reply!StatusLine, Reply!ContentLength, Reply!TransferEncoding, Reply!OtherHeader,
         Reply!HeadersEnd
<1>5. headers \in Headers
  BY DEF GetInv, ParserInv, TypeOK
<1>6. headers' \in Headers
  <2>1. CASE Reply!StatusLine
    BY <1>5, <2>1 DEF Reply!StatusLine, Reply!HasStatus, Headers
  <2>2. CASE Reply!ContentLength
    BY <1>5, <2>2 DEF Reply!ContentLength, Headers
  <2>3. CASE Reply!TransferEncoding
    BY <1>5, <2>3 DEF Reply!TransferEncoding, Headers
  <2>4. CASE Reply!OtherHeader \/ Reply!HeadersEnd
    BY <1>5, <2>4 DEF Reply!OtherHeader, Reply!HeadersEnd
  <2> QED
    BY <2>1, <2>2, <2>3, <2>4
<1> QED
  BY <1>1, <1>2, <1>4, <1>6, InPlace

LEMMA HeadStepKeeps ==
  ASSUME GetInv, HeadStep
  PROVE  GetInv'
<1>1. UNCHANGED body
  BY DEF HeadStep
<1>2. CASE Reply!Connect \/ Reply!SendRequest \/ Reply!ConnectionEnds
  BY <1>1, <1>2, HeadStarts
<1>3. CASE Reply!TransportFails \/ Reply!NoLine \/ Reply!StatusMalformed
           \/ Reply!EncodingUnsupported \/ Reply!HeaderMalformed
  BY <1>1, <1>3, HeadReturns
     DEF Reply!TransportFails, Reply!NoLine, Reply!StatusMalformed,
         Reply!EncodingUnsupported, Reply!HeaderMalformed
<1>4. CASE Reply!Receive
  BY <1>1, <1>4, HeadReceives
<1>5. CASE \/ Reply!StatusLine \/ Reply!ContentLength \/ Reply!TransferEncoding
           \/ Reply!OtherHeader \/ Reply!HeadersEnd
  BY <1>1, <1>5, HeadParses
<1> QED
  BY <1>2, <1>3, <1>4, <1>5 DEF HeadStep, Reply!Next

(***************************************************************************)
(* The body.                                                                *)
(***************************************************************************)
LEMMA BodyBeginsKeeps ==
  ASSUME GetInv, BodyBegins
  PROVE  GetInv'
<1>1. /\ respb \in Seq(Bytes) /\ Len(respb) \in Nat /\ off \in 0 .. Len(respb)
      /\ Capacity \in Nat
  BY SizesAssumption DEF GetInv, HeadInv
<1>2. buffer' \in Seq(Bytes)
  BY <1>1, Pieces DEF BodyBegins, Drop
<1>3. respb' \in Seq(Bytes) /\ Len(respb') = 0 /\ off' = 0 /\ pc' = "streaming"
  BY DEF BodyBegins
<1> QED
  BY <1>1, <1>2, <1>3
     DEF BodyBegins, GetInv, HeadInv, ParserInv, TypeOK, ChunkSizeExact, parser

LEMMA GetNextKeeps == GetInv /\ [GetNext]_getVars => GetInv'
<1> SUFFICES ASSUME GetInv, [GetNext]_getVars PROVE GetInv'
  OBVIOUS
<1>1. CASE HeadStep
  BY <1>1, HeadStepKeeps
<1>2. CASE BodyBegins
  BY <1>2, BodyBeginsKeeps
<1>3. CASE BodyStep
  <2>1. ParserInv'
    BY <1>3, ParserNext DEF BodyStep, GetInv
  <2> QED
    BY <1>3, <2>1 DEF BodyStep, GetInv, HeadInv, head
<1>4. CASE UNCHANGED getVars
  BY <1>4 DEF getVars, vars, head, parser, GetInv, HeadInv, ParserInv, TypeOK,
              ChunkSizeExact
<1> QED
  BY <1>1, <1>2, <1>3, <1>4 DEF GetNext

LEMMA GetInitHolds == GetInit => GetInv
<1> SUFFICES ASSUME GetInit PROVE GetInv
  OBVIOUS
<1>1. message \in Response /\ message.wire \in Seq(Bytes)
  BY ResponsesAssumption DEF GetInit, Reply!Init, Response
<1>2. headers \in Headers
  BY SizesAssumption DEF GetInit, Reply!Init, Headers
<1>3. <<>> \in Seq(Bytes) /\ Len(<<>>) = 0
  OBVIOUS
<1>4. line_empty \in BOOLEAN /\ started \in BOOLEAN
  BY DEF GetInit, ParserStart
<1> QED
  BY <1>1, <1>2, <1>3, <1>4, SizesAssumption
     DEF GetInit, Reply!Init, ParserStart, GetInv, HeadInv, ParserInv, TypeOK,
         ChunkSizeExact

\* The head keeps within its buffer, for any size of it, and the length it
\* states within a uint64_t.
THEOREM HeadTypeCorrect == GetSpec => []HeadTypeOK
<1>1. GetInv => HeadTypeOK
  BY DEF GetInv, HeadInv, ParserInv, TypeOK, HeadTypeOK, Reply!TypeOK,
         Response, Reply!Response, Headers, Reply!Headers
<1> QED
  BY <1>1, GetInitHolds, GetNextKeeps, PTL DEF GetSpec

\* The body parser keeps its type, whatever the head has left to it.
THEOREM BodyTypeCorrect == GetSpec => []TypeOK
<1>1. GetInv => TypeOK
  BY DEF GetInv, ParserInv
<1> QED
  BY <1>1, GetInitHolds, GetNextKeeps, PTL DEF GetSpec

\* No chunk size of any response wraps around.
THEOREM GetChunkSizeExact == GetSpec => []ChunkSizeExact
<1>1. GetInv => ChunkSizeExact
  BY DEF GetInv, ParserInv
<1> QED
  BY <1>1, GetInitHolds, GetNextKeeps, PTL DEF GetSpec

(***************************************************************************)
(* No byte is lost between the two: what has been received and what has yet *)
(* to arrive are the response, and the lines parsed so far hold no empty    *)
(* one.  So the head ends where the bytes of the response say, and not      *)
(* where the pieces they came in do.                                        *)
(***************************************************************************)
BytesKept ==
  pc # "streaming" => respb \o wire = message.wire /\ delivered = <<>> /\ ~ started

LinesRead ==
  /\ pc \in {"connect", "send", "read", "status"} => off = 0
  /\ pc = "headers" =>
       off >= 1 /\ respb[off] = LF /\ \A m \in 3 .. off : ~ EmptyLineEnds(respb, m)
  /\ pc = "body" => HeadEnds(respb, off)
  /\ pc \notin {"returned", "streaming"} => result = "reading"

\* How far the parser is in a body that is not in chunks, of which `sent` is
\* what follows the head.
PlainAt(sent) ==
  /\ IsPrefix(delivered, sent)
  /\ result = "reading" =>
       /\ sent = (delivered \o buffer) \o wire
       /\ started => /\ buffer = <<>> /\ content_seen = Len(delivered)
                     /\ HasLength => content_seen <= headers.content_length
       /\ ~ started => delivered = <<>>
  /\ result = "ok" =>
       IF HasLength THEN Len(delivered) = headers.content_length
                    ELSE delivered = sent /\ EndsCleanly(message)

PlainRead ==
  pc = "streaming" /\ ~ Chunked =>
    \E n \in DOMAIN message.wire :
      /\ HeadEnds(message.wire, n)
      /\ PlainAt(SubSeq(message.wire, n + 1, Len(message.wire)))

BodyInv == GetInv /\ BytesKept /\ LinesRead /\ PlainRead

LEMMA CutAnywhere ==
  ASSUME NEW s \in Seq(Bytes), NEW n \in 0 .. Len(s)
  PROVE  s = SubSeq(s, 1, n) \o SubSeq(s, n + 1, Len(s))
<1>1. 1 \in 1 .. Len(s) + 1 /\ n \in 1 - 1 .. Len(s) /\ Len(s) \in n .. Len(s)
  OBVIOUS
<1>2. SubSeq(s, 1, n) \o SubSeq(s, n + 1, Len(s)) = SubSeq(s, 1, Len(s))
  BY <1>1, ConcatAdjacentSubSeq
<1> QED
  BY <1>2, SubSeqFull

LEMMA Regroup ==
  ASSUME NEW r \in Seq(Bytes), NEW s \in Seq(Bytes), NEW t \in Seq(Bytes)
  PROVE  (r \o s) \o t = r \o (s \o t) /\ r \o s \in Seq(Bytes)
BY ConcatAssociative, ConcatProperties

\* The first part of a concatenation is a prefix of it.
LEMMA PrefixOfConcat ==
  ASSUME NEW s \in Seq(Bytes), NEW t \in Seq(Bytes)
  PROVE  /\ IsPrefix(s, s \o t)
         /\ SubSeq(s \o t, 1, Len(s)) = s
         /\ SubSeq(s \o t, Len(s) + 1, Len(s \o t)) = t
<1> DEFINE u == s \o t
<1>1. /\ u \in Seq(Bytes) /\ Len(u) = Len(s) + Len(t)
      /\ \A i \in 1 .. Len(s) : u[i] = s[i]
      /\ \A i \in 1 .. Len(t) : u[Len(s) + i] = t[i]
  OBVIOUS
<1> HIDE DEF u
<1>2. SubSeq(u, 1, Len(s)) = s
  <2>1. /\ SubSeq(u, 1, Len(s)) \in Seq(Bytes) /\ Len(SubSeq(u, 1, Len(s))) = Len(s)
        /\ \A i \in 1 .. Len(s) : SubSeq(u, 1, Len(s))[i] = s[i]
    BY <1>1
  <2> QED
    BY <2>1, SeqEqual
<1>3. SubSeq(u, Len(s) + 1, Len(u)) = t
  <2> DEFINE v == SubSeq(u, Len(s) + 1, Len(u))
  <2>1. /\ v \in Seq(Bytes) /\ Len(v) = Len(t)
        /\ \A i \in 1 .. Len(t) : v[i] = t[i]
    BY <1>1
  <2> HIDE DEF v
  <2>2. v = t
    BY <2>1, SeqEqual
  <2> QED
    BY <2>2 DEF v
<1>4. IsPrefix(s, u)
  BY <1>1, <1>2, SubSeqFull DEF IsPrefix
<1> QED
  BY <1>2, <1>3, <1>4 DEF u

\* Where the head ends does not depend on what comes after it.
LEMMA HeadEndsEarly ==
  ASSUME NEW s \in Seq(Bytes), NEW t \in Seq(Bytes), NEW n \in 0 .. Len(s), HeadEnds(s, n)
  PROVE  HeadEnds(s \o t, n) /\ n \in DOMAIN (s \o t)
<1>1. \A i \in 1 .. n : (s \o t)[i] = s[i]
  OBVIOUS
<1>2. n >= 3 /\ Len(s \o t) = Len(s) + Len(t) /\ s \o t \in Seq(Bytes)
  BY DEF HeadEnds, EmptyLineEnds
<1>3. \A m \in 3 .. n : EmptyLineEnds(s \o t, m) <=> EmptyLineEnds(s, m)
  BY <1>1 DEF EmptyLineEnds
<1>4. n \in 3 .. n /\ n \in 1 .. Len(s \o t)
  BY <1>2
<1> QED
  BY <1>2, <1>3, <1>4 DEF HeadEnds

LEMMA FirstLineFeed ==
  ASSUME GetInv, Reply!HasLine
  PROVE  /\ Reply!LineFeed \in off + 2 .. Len(respb)
         /\ respb[Reply!LineFeed] = LF /\ respb[Reply!LineFeed - 1] = CR
         /\ \A i \in off + 1 .. Reply!LineFeed - 1 : respb[i] # LF
<1>1. off \in Nat /\ Len(respb) \in Nat
  BY DEF GetInv, HeadInv
<1>2. Reply!LineFeeds \subseteq Nat /\ Reply!LineFeeds # {}
  BY <1>1 DEF Reply!HasLine, Reply!LineFeeds
<1>3. /\ Reply!LineFeed \in Reply!LineFeeds
      /\ \A i \in Reply!LineFeeds : Reply!LineFeed <= i
  BY <1>2, LeastOf DEF Reply!LineFeed
<1>4. /\ Reply!LineFeed \in off + 1 .. Len(respb) /\ respb[Reply!LineFeed] = LF
      /\ Reply!LineFeed > off + 1 /\ respb[Reply!LineFeed - 1] = CR
  BY <1>3 DEF Reply!LineFeeds, Reply!HasLine, Reply!LF, LF, Reply!CR, CR
<1>5. ASSUME NEW i \in off + 1 .. Reply!LineFeed - 1 PROVE respb[i] # LF
  <2>1. i \in off + 1 .. Len(respb) /\ ~ (Reply!LineFeed <= i)
    BY <1>1, <1>4
  <2> QED
    BY <1>3, <2>1 DEF Reply!LineFeeds, Reply!LF, LF
<1> QED
  BY <1>1, <1>4, <1>5

\* A line is empty when its end is two bytes after the end of the last.
LEMMA EmptyLines ==
  ASSUME GetInv, Reply!HasLine
  PROVE  Reply!Line = <<>> <=> Reply!LineFeed = off + 2
<1>1. /\ respb \in Seq(Bytes) /\ off \in Nat /\ Len(respb) \in Nat
      /\ Reply!LineFeed \in off + 2 .. Len(respb)
  BY FirstLineFeed DEF GetInv, HeadInv
<1>2. PICK end \in off + 2 .. Len(respb) : end = Reply!LineFeed
  BY <1>1
<1>3. Len(SubSeq(respb, off + 1, end - 2)) = IF off + 1 <= end - 2 THEN end - 2 - off ELSE 0
  BY <1>1
<1>4. SubSeq(respb, off + 1, end - 2) \in Seq(Bytes)
  BY <1>1
<1>5. SubSeq(respb, off + 1, end - 2) = <<>> <=> end = off + 2
  BY <1>1, <1>3, <1>4
<1> QED
  BY <1>2, <1>5 DEF Reply!Line

\* A line that is parsed leaves no empty line behind, unless it is one.
LEMMA LineLeaves ==
  ASSUME GetInv, LinesRead, Reply!HasLine, pc \in {"status", "headers"}
  PROVE  LET end == Reply!LineFeed IN
         /\ end >= 1 /\ respb[end] = LF
         /\ pc = "status" \/ Reply!Line # <<>> =>
              \A m \in 3 .. end : ~ EmptyLineEnds(respb, m)
         /\ pc = "headers" /\ Reply!Line = <<>> => HeadEnds(respb, end)
<1>1. off \in Nat /\ Len(respb) \in Nat
  BY DEF GetInv, HeadInv
<1>2. PICK end \in off + 2 .. Len(respb) :
        /\ end = Reply!LineFeed
        /\ respb[end] = LF /\ respb[end - 1] = CR
        /\ \A i \in off + 1 .. end - 1 : respb[i] # LF
  BY FirstLineFeed
<1>3. \A m \in 3 .. off : ~ EmptyLineEnds(respb, m)
  BY <1>1 DEF LinesRead
<1>4. ASSUME NEW m \in 3 .. end, EmptyLineEnds(respb, m), m > off
      PROVE  m = end /\ end - 2 <= off
  <2>1. m = end
    BY <1>1, <1>2, <1>4 DEF EmptyLineEnds
  <2>2. respb[end - 2] = LF
    BY <1>4, <2>1 DEF EmptyLineEnds
  <2> QED
    BY <1>1, <1>2, <2>1, <2>2
<1>5. ASSUME pc = "status" \/ Reply!Line # <<>>, NEW m \in 3 .. end
      PROVE  ~ EmptyLineEnds(respb, m)
  <2> SUFFICES ASSUME EmptyLineEnds(respb, m) PROVE FALSE
    OBVIOUS
  <2>1. m > off
    BY <1>1, <1>3
  <2>2. m = end /\ end = off + 2
    BY <1>1, <1>2, <1>4, <2>1
  <2>3. pc = "status"
    BY <1>2, <1>5, <2>2, EmptyLines
  <2>4. off = 0
    BY <2>3 DEF LinesRead
  <2> QED
    BY <2>2, <2>4
<1>6. ASSUME pc = "headers", Reply!Line = <<>>
      PROVE  HeadEnds(respb, end)
  <2>1. end = off + 2 /\ off >= 1 /\ respb[off] = LF
    BY <1>2, <1>6, EmptyLines DEF LinesRead
  <2>2. EmptyLineEnds(respb, end)
    <3>1. end >= 3 /\ end - 2 = off
      BY <1>1, <2>1
    <3> QED
      BY <1>2, <2>1, <3>1 DEF EmptyLineEnds
  <2>3. ASSUME NEW m \in 3 .. end - 1 PROVE ~ EmptyLineEnds(respb, m)
    <3>1. CASE m <= off
      BY <1>1, <1>3, <3>1
    <3>2. CASE m = end - 1
      BY <1>1, <1>4, <2>1, <3>2
    <3> QED
      BY <1>1, <2>1, <3>1, <3>2
  <2> QED
    BY <2>2, <2>3 DEF HeadEnds
<1>7. end >= 1
  BY <1>1
<1> QED
  BY <1>2, <1>5, <1>6, <1>7

\* Only a receive changes what has arrived, and it moves bytes from the wire.
LEMMA HeadStepBytes ==
  ASSUME BodyInv, HeadStep
  PROVE  /\ respb' \o wire' = message.wire
         /\ Reply!Receive \/ UNCHANGED <<wire, respb>>
<1>1. /\ wire \in Seq(Bytes) /\ respb \in Seq(Bytes) /\ Len(wire) \in Nat
      /\ Len(respb) \in Nat /\ Capacity - Len(respb) \in Nat
  BY SizesAssumption DEF BodyInv, GetInv, HeadInv, ParserInv, TypeOK
<1>2. Reply!Receive \/ UNCHANGED <<wire, respb>>
  BY DEF HeadStep, Reply!Next, Reply!Connect, Reply!SendRequest, Reply!TransportFails,
     Reply!ConnectionEnds, Reply!NoLine, Reply!StatusLine,
     Reply!StatusMalformed, Reply!ContentLength, Reply!TransferEncoding,
     Reply!EncodingUnsupported, Reply!OtherHeader, Reply!HeaderMalformed,
     Reply!HeadersEnd, Reply!Return, Reply!Advance
<1>3. pc # "streaming"
  BY DEF HeadStep, Reply!Next, Reply!Connect, Reply!SendRequest, Reply!TransportFails,
     Reply!Receive, Reply!ConnectionEnds, Reply!NoLine, Reply!StatusLine,
     Reply!StatusMalformed, Reply!ContentLength, Reply!TransferEncoding,
     Reply!EncodingUnsupported, Reply!OtherHeader, Reply!HeaderMalformed,
     Reply!HeadersEnd, Reply!Parsing, Reply!ParsingHeader
<1>4. respb \o wire = message.wire
  BY <1>3 DEF BodyInv, BytesKept
<1>5. CASE Reply!Receive
  <2>1. PICK n \in 1 .. Reply!Min({Len(wire), Reply!Room}) :
          /\ respb' = respb \o SubSeq(wire, 1, n)
          /\ wire' = SubSeq(wire, n + 1, Len(wire))
    BY <1>5 DEF Reply!Receive
  <2>2. n \in 0 .. Len(wire)
    <3>1. Reply!Min({Len(wire), Reply!Room}) \in {Len(wire), Reply!Room}
          /\ \A m \in {Len(wire), Reply!Room} : Reply!Min({Len(wire), Reply!Room}) <= m
      BY <1>1, LeastOf DEF Reply!Room
    <3> QED
      BY <1>1, <3>1 DEF Reply!Room
  <2>3. PICK w : w = wire'
    OBVIOUS
  <2>4. PICK piece : piece = SubSeq(wire, 1, n)
    OBVIOUS
  <2>5. wire = piece \o w /\ piece \in Seq(Bytes) /\ w \in Seq(Bytes)
    BY <1>1, <2>1, <2>2, <2>3, <2>4, CutAnywhere, Pieces DEF Drop
  <2>6. (respb \o piece) \o w = respb \o (piece \o w)
    BY <1>1, <2>5, Regroup
  <2>7. respb' \o wire' = (respb \o piece) \o w
    BY <2>1, <2>3, <2>4
  <2>8. respb \o (piece \o w) = message.wire
    BY <1>4, <2>5
  <2> QED
    BY <1>5, <2>6, <2>7, <2>8
<1> QED
  BY <1>2, <1>4, <1>5

LEMMA HeadStepLines ==
  ASSUME BodyInv, HeadStep
  PROVE  LinesRead'
<1>1. CASE Reply!Receive
  <2>1. pc = "read" /\ pc' \in {"read", "status"} /\ UNCHANGED <<off, result>>
    BY <1>1 DEF Reply!Receive
  <2> QED
    BY <2>1 DEF BodyInv, LinesRead
<1>2. CASE Reply!Connect \/ Reply!SendRequest \/ Reply!ConnectionEnds
  <2>1. /\ pc \in {"connect", "send", "read"} /\ pc' \in {"send", "read", "status"}
        /\ UNCHANGED <<off, result>>
    BY <1>2 DEF Reply!Connect, Reply!SendRequest, Reply!ConnectionEnds
  <2> QED
    BY <2>1 DEF BodyInv, LinesRead
<1>3. CASE pc' = "returned"
  BY <1>3 DEF LinesRead
<1>4. CASE \/ Reply!StatusLine \/ Reply!ContentLength \/ Reply!TransferEncoding
           \/ Reply!OtherHeader
  <2>1. /\ Reply!HasLine /\ pc' = "headers" /\ off' = Reply!LineFeed
        /\ UNCHANGED <<result, respb>>
    BY <1>4 DEF Reply!StatusLine, Reply!ContentLength, Reply!TransferEncoding,
       Reply!OtherHeader, Reply!Advance, Reply!Parsing, Reply!ParsingHeader
  <2>2. pc = "status" \/ (pc = "headers" /\ Reply!Line # <<>>)
    BY <1>4 DEF Reply!StatusLine, Reply!ContentLength, Reply!TransferEncoding,
       Reply!OtherHeader, Reply!Parsing, Reply!ParsingHeader
  <2>3. PICK end : end = Reply!LineFeed
    OBVIOUS
  <2>4. end >= 1 /\ respb[end] = LF /\ \A m \in 3 .. end : ~ EmptyLineEnds(respb, m)
    <3>1. GetInv /\ LinesRead /\ pc \in {"status", "headers"}
      BY <2>2 DEF BodyInv
    <3>2. pc = "status" \/ Reply!Line # <<>>
      BY <2>2
    <3> QED
      BY <2>1, <2>3, <3>1, <3>2, LineLeaves
  <2>5. result = "reading"
    BY <2>2 DEF BodyInv, LinesRead
  <2> QED
    BY <2>1, <2>3, <2>4, <2>5 DEF LinesRead, EmptyLineEnds
<1>5. CASE Reply!HeadersEnd
  <2>1. /\ pc = "headers" /\ Reply!HasLine /\ Reply!Line = <<>>
        /\ off' = Reply!LineFeed /\ UNCHANGED respb
        /\ pc' = "returned" \/ (pc' = "body" /\ UNCHANGED result)
    BY <1>5 DEF Reply!HeadersEnd, Reply!HeadersLen
  <2>2. HeadEnds(respb, Reply!LineFeed) /\ result = "reading"
    BY <2>1, LineLeaves DEF BodyInv, LinesRead
  <2> QED
    BY <1>3, <2>1, <2>2 DEF LinesRead, HeadEnds, EmptyLineEnds
<1>6. CASE \/ Reply!TransportFails \/ Reply!NoLine \/ Reply!StatusMalformed
           \/ Reply!EncodingUnsupported \/ Reply!HeaderMalformed
  BY <1>3, <1>6 DEF Reply!TransportFails, Reply!NoLine, Reply!StatusMalformed,
     Reply!EncodingUnsupported, Reply!HeaderMalformed, Reply!Return
<1> QED
  BY <1>1, <1>2, <1>3, <1>4, <1>5, <1>6 DEF HeadStep, Reply!Next

LEMMA HeadStepReads ==
  ASSUME BodyInv, HeadStep
  PROVE  BodyInv'
<1>1. GetInv'
  BY HeadStepKeeps DEF BodyInv
<1>2. /\ UNCHANGED <<delivered, started>> /\ UNCHANGED message
      /\ pc # "streaming" /\ pc' # "streaming"
  BY DEF HeadStep, body, Reply!Next, Reply!Connect, Reply!SendRequest, Reply!TransportFails,
     Reply!Receive, Reply!ConnectionEnds, Reply!NoLine, Reply!StatusLine,
     Reply!StatusMalformed, Reply!ContentLength, Reply!TransferEncoding,
     Reply!EncodingUnsupported, Reply!OtherHeader, Reply!HeaderMalformed,
     Reply!HeadersEnd, Reply!Return, Reply!Advance, Reply!Parsing, Reply!ParsingHeader
<1>3. delivered' = <<>> /\ ~ started'
  BY <1>2 DEF BodyInv, BytesKept
<1>4. BytesKept'
  BY <1>2, <1>3, HeadStepBytes DEF BytesKept
<1>5. PlainRead'
  BY <1>2 DEF PlainRead
<1> QED
  BY <1>1, <1>4, <1>5, HeadStepLines DEF BodyInv

LEMMA BodyStartsAfterHead ==
  ASSUME BodyInv, BodyBegins
  PROVE  BodyInv'
<1>1. GetInv'
  BY BodyBeginsKeeps DEF BodyInv
<1>2. /\ pc = "body" /\ pc' = "streaming"
      /\ buffer' = SubSeq(respb, off + 1, Len(respb))
      /\ UNCHANGED <<message, wire, delivered, result>> /\ UNCHANGED started
  BY DEF BodyBegins
<1>3. /\ respb \o wire = message.wire /\ delivered = <<>> /\ ~ started
      /\ result = "reading" /\ HeadEnds(respb, off)
      /\ respb \in Seq(Bytes) /\ wire \in Seq(Bytes) /\ off \in 0 .. Len(respb)
  BY <1>2 DEF BodyInv, BytesKept, LinesRead, GetInv, HeadInv, ParserInv, TypeOK
<1>4. PICK n \in 0 .. Len(respb) : n = off
  BY <1>3
<1>5. HeadEnds(message.wire, n) /\ n \in DOMAIN message.wire
  BY <1>3, <1>4, HeadEndsEarly
<1>6. PICK first, rest, all :
        /\ first = SubSeq(respb, 1, n) /\ rest = SubSeq(respb, n + 1, Len(respb))
        /\ all = rest \o wire
  OBVIOUS
<1>7. /\ first \in Seq(Bytes) /\ Len(first) = n /\ rest \in Seq(Bytes)
      /\ respb = first \o rest
  BY <1>3, <1>4, <1>6, CutAnywhere, Pieces DEF Drop
<1>8. all \in Seq(Bytes) /\ message.wire = first \o all
  <2>1. (first \o rest) \o wire = first \o (rest \o wire) /\ rest \o wire \in Seq(Bytes)
    BY <1>3, <1>7, Regroup
  <2> QED
    BY <1>3, <1>6, <1>7, <2>1
<1>9. SubSeq(message.wire, n + 1, Len(message.wire)) = all
  BY <1>7, <1>8, PrefixOfConcat
<1>10. PlainAt(all)'
  <2>1. delivered' = <<>> /\ result' = "reading" /\ ~ started'
    BY <1>2, <1>3
  <2>2. buffer' = rest /\ wire' = wire
    BY <1>2, <1>4, <1>6
  <2>3. <<>> \o rest = rest /\ <<>> \o all = all /\ <<>> \in Seq(Bytes)
    BY <1>7, <1>8, ConcatEmptySeq
  <2>4. IsPrefix(<<>>, all)
    BY <1>8, <2>3, PrefixOfConcat
  <2>5. all = (delivered' \o buffer') \o wire'
    BY <1>6, <2>1, <2>2, <2>3
  <2> QED
    BY <2>1, <2>4, <2>5 DEF PlainAt
<1>11. PlainRead'
  BY <1>2, <1>5, <1>9, <1>10 DEF PlainRead
<1> QED
  BY <1>1, <1>2, <1>11 DEF BodyInv, BytesKept, LinesRead

LEMMA PlainStep ==
  ASSUME GetInv, ~ Chunked, NEW sent \in Seq(Bytes), PlainAt(sent), Next
  PROVE  PlainAt(sent)'
<1>1. /\ UNCHANGED <<message, headers>> /\ result = "reading"
      /\ AllAtOnce \/ BodyStart \/ BodyReceive \/ BodyEnds \/ ReceiveFails \/ CallbackFails
  BY DEF Next, ParseChunk, SizeDigit, SizeOverflows, SizeEnds, SizeMalformed, BeforeExtension,
     Extension, SizeLine, Data, AfterData, DataEnds, Trailer, TrailerEnds, AfterBody,
     Unexpected, ChunkedReceive, ChunkedEnds, AllAtOnce, BodyStart, BodyReceive, BodyEnds,
     ReceiveFails, CallbackFails, Parsing, BetweenPieces, Plain, Give
<1>2. /\ delivered \in Seq(Bytes) /\ buffer \in Seq(Bytes) /\ wire \in Seq(Bytes)
      /\ Len(delivered) \in Nat /\ Len(buffer) \in Nat /\ Len(wire) \in Nat
      /\ headers.content_length \in Nat /\ content_seen \in Nat
      /\ delivered \o buffer \in Seq(Bytes)
  BY SizesAssumption, ConcatProperties DEF GetInv, ParserInv, TypeOK, Headers
<1>3. /\ sent = (delivered \o buffer) \o wire /\ IsPrefix(delivered, sent)
      /\ started => /\ buffer = <<>> /\ content_seen = Len(delivered)
                    /\ HasLength => content_seen <= headers.content_length
      /\ ~ started => delivered = <<>>
  BY <1>1 DEF PlainAt
<1>4. UNCHANGED HasLength
  BY <1>1 DEF HasLength
<1>5. CASE AllAtOnce
  <2>1. /\ HasLength /\ headers.content_length \in 0 .. Len(buffer) /\ result' = "ok"
        /\ delivered' = SubSeq(buffer, 1, headers.content_length) /\ ~ started
    BY <1>2, <1>5 DEF AllAtOnce
  <2>2. Len(delivered') = headers.content_length /\ delivered' \in Seq(Bytes)
    BY <1>2, <2>1, Pieces
  <2>3. IsPrefix(delivered', sent)
    <3> DEFINE rest == Drop(buffer, headers.content_length)
    <3>1. rest \in Seq(Bytes) /\ rest \o wire \in Seq(Bytes)
      BY <1>2, <2>1, Pieces, ConcatProperties
    <3>2. buffer = delivered' \o rest
      BY <1>2, <2>1, CutAnywhere DEF Drop
    <3>3. delivered \o buffer = buffer
      BY <1>2, <1>3, <2>1, ConcatEmptySeq
    <3> HIDE DEF rest
    <3>4. PICK d \in Seq(Bytes) : d = delivered'
      BY <2>2
    <3>5. (d \o rest) \o wire = d \o (rest \o wire)
      BY <1>2, <3>1, Regroup
    <3>6. sent = d \o (rest \o wire)
      BY <1>3, <3>2, <3>3, <3>4, <3>5
    <3> QED
      BY <3>1, <3>4, <3>6, PrefixOfConcat
  <2> QED
    BY <1>1, <1>4, <2>1, <2>2, <2>3 DEF PlainAt
<1>6. CASE BodyStart
  <2>1. /\ delivered' = buffer /\ content_seen' = Len(buffer) /\ started' = TRUE
        /\ buffer' = <<>> /\ UNCHANGED <<wire, result>> /\ ~ started
        /\ HasLength => Len(buffer) < headers.content_length
    BY <1>6 DEF BodyStart
  <2>2. delivered \o buffer = buffer /\ buffer \o <<>> = buffer
    BY <1>2, <1>3, <2>1, ConcatEmptySeq
  <2>3. IsPrefix(buffer, sent)
    BY <1>2, <1>3, <2>2, PrefixOfConcat
  <2> QED
    BY <1>1, <1>2, <1>3, <1>4, <2>1, <2>2, <2>3 DEF PlainAt
<1>7. CASE BodyReceive
  <2>1. PICK n \in 1 .. Least(Len(wire), BufSize) :
          /\ HasLength => n <= headers.content_length - content_seen
          /\ delivered' = delivered \o SubSeq(wire, 1, n)
          /\ content_seen' = content_seen + n
          /\ wire' = Drop(wire, n)
    BY <1>7 DEF BodyReceive
  <2>2. started /\ started' = TRUE /\ UNCHANGED <<buffer, result>>
    BY <1>7 DEF BodyReceive, GetInv, ParserInv, TypeOK
  <2>3. n \in 0 .. Len(wire)
    BY <1>2, SizesAssumption DEF Least
  <2> DEFINE piece == SubSeq(wire, 1, n)
  <2>4. /\ piece \in Seq(Bytes) /\ wire' \in Seq(Bytes) /\ Len(piece) = n
        /\ wire = piece \o wire'
    BY <1>2, <2>1, <2>3, Pieces, CutAnywhere DEF Drop
  <2> HIDE DEF piece
  <2>5. delivered' = delivered \o piece
    BY <2>1 DEF piece
  <2>6. delivered' \in Seq(Bytes) /\ Len(delivered') = content_seen + n
    <3>1. /\ delivered \o piece \in Seq(Bytes)
          /\ Len(delivered \o piece) = Len(delivered) + Len(piece)
      BY <1>2, <2>4, ConcatProperties
    <3> QED
      BY <1>3, <2>2, <2>4, <2>5, <3>1
  <2>7. sent = (delivered' \o buffer') \o wire'
    <3>1. delivered \o buffer = delivered /\ delivered' \o buffer' = delivered'
      BY <1>2, <1>3, <2>2, <2>6, ConcatEmptySeq
    <3>2. PICK w \in Seq(Bytes) : w = wire'
      BY <2>4
    <3>3. delivered \in Seq(Bytes) /\ piece \in Seq(Bytes)
      BY <1>2, <2>4
    <3>4. (delivered \o piece) \o w = delivered \o (piece \o w)
      BY <3>3, Regroup
    <3> QED
      BY <1>3, <2>4, <2>5, <3>1, <3>2, <3>4
  <2>8. IsPrefix(delivered', sent)
    <3>1. delivered' \o buffer' = delivered'
      BY <1>3, <2>2, <2>6, ConcatEmptySeq
    <3> QED
      BY <2>4, <2>6, <2>7, <3>1, PrefixOfConcat
  <2>9. HasLength => content_seen' <= headers.content_length
    BY <1>2, <2>1, <2>3
  <2> QED
    BY <1>1, <1>3, <1>4, <2>1, <2>2, <2>6, <2>7, <2>8, <2>9 DEF PlainAt
<1>8. CASE BodyEnds \/ ReceiveFails \/ CallbackFails
  <2>1. /\ UNCHANGED delivered /\ result' # "reading"
        /\ result' = "ok" =>
             /\ started
             /\ ~ Missing \/ (wire = <<>> /\ EndsCleanly(message) /\ ~ HasLength)
    BY <1>8 DEF BodyEnds, ReceiveFails, CallbackFails, Give
  <2>2. ASSUME result' = "ok", HasLength
        PROVE  Len(delivered) = headers.content_length
    BY <1>2, <1>3, <2>1, <2>2 DEF Missing
  <2>3. ASSUME result' = "ok", ~ HasLength
        PROVE  delivered = sent /\ EndsCleanly(message)
    <3>1. wire = <<>> /\ buffer = <<>> /\ EndsCleanly(message)
      BY <1>3, <2>1, <2>3 DEF Missing
    <3> QED
      BY <1>2, <1>3, <3>1, ConcatEmptySeq
  <2>4. UNCHANGED <<message, headers>>
    BY <1>1
  <2> QED
    BY <1>3, <1>4, <2>1, <2>2, <2>3, <2>4 DEF PlainAt
<1> QED
  BY <1>1, <1>5, <1>6, <1>7, <1>8

LEMMA BodyStepReads ==
  ASSUME BodyInv, BodyStep
  PROVE  BodyInv'
<1>1. /\ GetInv' /\ pc = "streaming" /\ Next /\ UNCHANGED <<respb, pc, off>>
  <2>1. ParserInv'
    BY ParserNext DEF BodyStep, BodyInv, GetInv
  <2> QED
    BY <2>1 DEF BodyStep, BodyInv, GetInv, HeadInv, head
<1>2. UNCHANGED <<message, headers>>
  BY <1>1
  DEF Next, ParseChunk, SizeDigit, SizeOverflows, SizeEnds, SizeMalformed, BeforeExtension,
     Extension, SizeLine, Data, AfterData, DataEnds, Trailer, TrailerEnds, AfterBody,
     Unexpected, ChunkedReceive, ChunkedEnds, AllAtOnce, BodyStart, BodyReceive, BodyEnds,
     ReceiveFails, CallbackFails, Consume, Give
<1>3. ASSUME ~ Chunked
      PROVE  \E n \in DOMAIN message'.wire :
               /\ HeadEnds(message'.wire, n)
               /\ PlainAt(SubSeq(message.wire, n + 1, Len(message.wire)))'
  <2>1. PICK n \in DOMAIN message.wire :
          /\ HeadEnds(message.wire, n)
          /\ PlainAt(SubSeq(message.wire, n + 1, Len(message.wire)))
    BY <1>1, <1>3 DEF BodyInv, PlainRead
  <2>2. message.wire \in Seq(Bytes)
    BY DEF BodyInv, GetInv, ParserInv, TypeOK, Response
  <2>3. PICK sent \in Seq(Bytes) : sent = SubSeq(message.wire, n + 1, Len(message.wire))
    <3>1. PICK s \in Seq(Bytes) : s = message.wire
      BY <2>2
    <3>2. n \in 0 .. Len(s)
      BY <2>1, <3>1
    <3> QED
      BY <3>1, <3>2, Pieces DEF Drop
  <2>4. PlainAt(sent)'
    BY <1>1, <1>3, <2>1, <2>3, PlainStep DEF BodyInv
  <2>5. SubSeq(message'.wire, n + 1, Len(message'.wire)) = sent
    BY <1>2, <2>3
  <2> QED
    BY <1>2, <2>1, <2>4, <2>5
<1>4. PlainRead'
  BY <1>2, <1>3 DEF PlainRead, Chunked
<1> QED
  BY <1>1, <1>4 DEF BodyInv, BytesKept, LinesRead

LEMMA BodyNext == BodyInv /\ [GetNext]_getVars => BodyInv'
<1> SUFFICES ASSUME BodyInv, [GetNext]_getVars PROVE BodyInv'
  OBVIOUS
<1>1. CASE GetNext
  BY <1>1, HeadStepReads, BodyStartsAfterHead, BodyStepReads DEF GetNext
<1>2. CASE UNCHANGED getVars
  <2>1. GetInv'
    BY <1>2, GetNextKeeps DEF BodyInv
  <2> QED
    BY <1>2, <2>1 DEF getVars, vars, head, parser, BodyInv, BytesKept, LinesRead, PlainRead,
       PlainAt, HeadEnds, EmptyLineEnds, Chunked, HasLength
<1> QED
  BY <1>1, <1>2

LEMMA BodyInit == GetInit => BodyInv
<1> SUFFICES ASSUME GetInit PROVE BodyInv
  OBVIOUS
<1>1. /\ pc = "connect" /\ off = 0 /\ respb = <<>> /\ wire = message.wire
      /\ delivered = <<>> /\ started = FALSE /\ result = "reading"
  BY DEF GetInit, Reply!Init, ParserStart
<1>2. GetInv
  BY GetInitHolds
<1>3. respb \o wire = message.wire
  <2>1. wire \in Seq(Bytes)
    BY <1>2 DEF GetInv, ParserInv, TypeOK
  <2> QED
    BY <1>1, <2>1, ConcatEmptySeq
<1> QED
  BY <1>1, <1>2, <1>3 DEF BodyInv, BytesKept, LinesRead, PlainRead

\* A body that is not in chunks reaches the callback as it was sent, whatever
\* the response, and however it is cut into pieces.
THEOREM PlainBodyMeantCorrect == GetSpec => []PlainBodyMeant
<1>1. BodyInv => PlainBodyMeant
  BY DEF BodyInv, PlainRead, PlainAt, PlainBodyMeant
<1> QED
  BY <1>1, BodyInit, BodyNext, PTL DEF GetSpec
=============================================================================
