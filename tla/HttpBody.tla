------------------------------ MODULE HttpBody ------------------------------
(***************************************************************************)
(* Reading the body of an HTTP response (http_client.c), chunked, of a      *)
(* stated length, or up to the end of the connection.                       *)
(*                                                                          *)
(* Bytes come in pieces of any size: the first piece is what the reading of *)
(* the headers has left, each other one what one transport_recv returns.    *)
(* The connection ends when the server closes it or when it is cut, which   *)
(* TLS can tell apart and TCP can not, and may fail at any time.            *)
(***************************************************************************)
EXTENDS HttpWire

VARIABLES
  message,                \* the response
  headers,                \* what its head has been taken to say
  wire,                   \* bytes that have yet to arrive
  buffer,                 \* bytes that have, and are yet to be parsed
  state, chunk_size, remaining_data, line_empty,     \* ChunkParser
  content_seen, started,  \* of a body that is not chunked
  delivered,              \* what the callback was given
  result,
  declared                \* the number the digits of the size line stand for

parser == <<state, chunk_size, remaining_data, line_empty, declared>>
vars == <<message, headers, wire, buffer, parser,
          content_seen, started, delivered, result>>

Least(i, j) == IF i < j THEN i ELSE j

Drop(s, n) == SubSeq(s, n + 1, Len(s))

\* The parsers as they are called.
ParserStart ==
  /\ state = "CHUNK_SIZE" /\ line_empty = TRUE
  /\ chunk_size = 0 /\ remaining_data = 0 /\ declared = 0
  /\ content_seen = 0 /\ started = FALSE
  /\ delivered = <<>> /\ result = "reading"

\* Whatever the head has been taken for, and whatever of the body came with it.
Init ==
  /\ message \in Responses /\ headers \in Headers
  /\ buffer \in Seq(Bytes) /\ wire \in Seq(Bytes)
  /\ ParserStart

Give(error) ==
  /\ result' = error
  /\ UNCHANGED <<message, headers, wire, buffer, parser, content_seen, started,
                 delivered>>

(***************************************************************************)
(* parse_chunk, one byte at a time but for the data.                        *)
(***************************************************************************)
Chunked == headers.transfer_encoding_chunked

Parsing(s) ==
  /\ Chunked /\ result = "reading"
  /\ buffer # <<>> /\ state = s

byte == Head(buffer)

Consume ==
  /\ buffer' = Tail(buffer)
  /\ UNCHANGED <<message, headers, wire, content_seen, started, delivered, result>>

\* Mutant: the size is not checked.
NeverOverflows(digit) == FALSE

\* size_t arithmetic: would one more digit wrap around?
Overflows(digit) == chunk_size > (SizeMax - digit) \div 16

SizeDigit ==
  /\ Parsing("CHUNK_SIZE") /\ byte \in DOMAIN Hex
  /\ ~ Overflows(Hex[byte])
  /\ chunk_size' = (chunk_size * 16 + Hex[byte]) % (SizeMax + 1)
  /\ declared' = declared * 16 + Hex[byte]
  /\ line_empty' = FALSE
  /\ Consume
  /\ UNCHANGED <<state, remaining_data>>

SizeOverflows ==
  /\ Parsing("CHUNK_SIZE") /\ byte \in DOMAIN Hex /\ Overflows(Hex[byte])
  /\ Give("malformed")

SizeEnds ==
  /\ Parsing("CHUNK_SIZE") /\ byte \in {CR, SP, SEMICOLON} /\ ~ line_empty
  /\ state' = CASE byte = CR -> "CHUNK_SIZE_LF"
                [] byte = SP -> "CHUNK_EXT_WS1"
                [] byte = SEMICOLON -> "CHUNK_EXT"
  /\ Consume
  /\ UNCHANGED <<chunk_size, remaining_data, line_empty, declared>>

SizeMalformed ==
  /\ Parsing("CHUNK_SIZE")
  /\ byte \notin DOMAIN Hex
  /\ byte \in {CR, SP, SEMICOLON} => line_empty
  /\ Give("malformed")

\* Blanks stand for both the space and the tab.
BeforeExtension ==
  /\ Parsing("CHUNK_EXT_WS1") /\ byte \in {SP, SEMICOLON}
  /\ state' = IF byte = SEMICOLON THEN "CHUNK_EXT" ELSE state
  /\ Consume
  /\ UNCHANGED <<chunk_size, remaining_data, line_empty, declared>>

Extension ==
  /\ Parsing("CHUNK_EXT") /\ byte # LF
  /\ state' = IF byte = CR THEN "CHUNK_SIZE_LF" ELSE state
  /\ Consume
  /\ UNCHANGED <<chunk_size, remaining_data, line_empty, declared>>

SizeLine ==
  /\ Parsing("CHUNK_SIZE_LF") /\ byte = LF
  /\ IF chunk_size = 0
       THEN state' = "TRAILER" /\ line_empty' = TRUE /\ UNCHANGED remaining_data
       ELSE /\ state' = "CHUNK_DATA" /\ remaining_data' = chunk_size
            /\ UNCHANGED line_empty
  /\ Consume
  /\ UNCHANGED <<chunk_size, declared>>

\* Mutant: the size of the buffer is not looked at twice.
WholeBuffer == Len(buffer)

\* As much of the chunk as is there.
Available == Least(remaining_data, Len(buffer))

Data ==
  /\ Parsing("CHUNK_DATA")
  /\ delivered' = delivered \o SubSeq(buffer, 1, Available)
  /\ buffer' = Drop(buffer, Available)
  /\ remaining_data' = remaining_data - Available
  /\ state' = IF remaining_data' = 0 THEN "CHUNK_DATA_CR" ELSE state
  /\ UNCHANGED <<message, headers, wire, chunk_size, line_empty, content_seen,
                 started, result, declared>>

AfterData ==
  /\ Parsing("CHUNK_DATA_CR") /\ byte = CR
  /\ state' = "CHUNK_DATA_LF"
  /\ Consume
  /\ UNCHANGED <<chunk_size, remaining_data, line_empty, declared>>

\* Mutant: the size of the last chunk is still there.
DataEndsKeeping ==
  /\ Parsing("CHUNK_DATA_LF") /\ byte = LF
  /\ state' = "CHUNK_SIZE" /\ line_empty' = TRUE
  /\ Consume
  /\ UNCHANGED <<chunk_size, remaining_data, declared>>

DataEnds ==
  /\ Parsing("CHUNK_DATA_LF") /\ byte = LF
  /\ state' = "CHUNK_SIZE" /\ line_empty' = TRUE
  /\ chunk_size' = 0 /\ declared' = 0
  /\ Consume
  /\ UNCHANGED remaining_data

Trailer ==
  /\ Parsing("TRAILER")
  /\ IF byte = CR THEN state' = "TRAILER_LF" /\ UNCHANGED line_empty
                  ELSE line_empty' = FALSE /\ UNCHANGED state
  /\ Consume
  /\ UNCHANGED <<chunk_size, remaining_data, declared>>

TrailerEnds ==
  /\ Parsing("TRAILER_LF") /\ byte = LF
  /\ IF line_empty THEN state' = "DONE" /\ UNCHANGED line_empty
                   ELSE state' = "TRAILER" /\ line_empty' = TRUE
  /\ Consume
  /\ UNCHANGED <<chunk_size, remaining_data, declared>>

\* Whatever comes after the body is dropped.
AfterBody ==
  Parsing("DONE") /\ Consume /\ UNCHANGED parser

Unexpected ==
  /\ \/ Parsing("CHUNK_EXT_WS1") /\ byte \notin {SP, SEMICOLON}
     \/ Parsing("CHUNK_EXT") /\ byte = LF
     \/ Parsing("CHUNK_DATA_CR") /\ byte # CR
     \/ \E s \in {"CHUNK_SIZE_LF", "CHUNK_DATA_LF", "TRAILER_LF"} :
          Parsing(s) /\ byte # LF
  /\ Give("malformed")

ParseChunk ==
  \/ SizeDigit \/ SizeOverflows \/ SizeEnds \/ SizeMalformed
  \/ BeforeExtension \/ Extension \/ SizeLine
  \/ Data \/ AfterData \/ DataEnds \/ Trailer \/ TrailerEnds \/ AfterBody
  \/ Unexpected

(***************************************************************************)
(* http_client_parse_body_chunked_encoding: what is between two calls of    *)
(* parse_chunk.                                                             *)
(***************************************************************************)
BetweenPieces ==
  Chunked /\ result = "reading" /\ buffer = <<>>

ChunkedReceive ==
  /\ BetweenPieces /\ state # "DONE" /\ wire # <<>>
  /\ \E n \in 1 .. Least(Len(wire), BufSize) :
       buffer' = SubSeq(wire, 1, n) /\ wire' = Drop(wire, n)
  /\ UNCHANGED <<message, headers, parser, content_seen, started, delivered, result>>

\* Mutant: the end of the connection is the end of the body.
ChunkedEndsAnyway ==
  /\ BetweenPieces /\ (state = "DONE" \/ wire = <<>>)
  /\ Give("ok")

ChunkedEnds ==
  /\ BetweenPieces
  /\ \/ state = "DONE" /\ Give("ok")
     \/ state # "DONE" /\ wire = <<>>
        /\ Give(IF EndsCleanly(message) THEN "truncated" ELSE "transport")

(***************************************************************************)
(* http_client_parse_body_content_length, when the header gives a length    *)
(* and when it does not.                                                    *)
(***************************************************************************)
Plain == ~ Chunked /\ result = "reading"

HasLength == headers.has_content_length

AllAtOnce ==
  /\ Plain /\ ~ started /\ HasLength /\ Len(buffer) >= headers.content_length
  /\ delivered' = SubSeq(buffer, 1, headers.content_length)
  /\ result' = "ok"
  /\ UNCHANGED <<message, headers, wire, buffer, parser, content_seen, started>>

\* Mutant: what came with the head is not counted.
BodyStartUncounted ==
  /\ Plain /\ ~ started
  /\ HasLength => Len(buffer) < headers.content_length
  /\ delivered' = buffer /\ content_seen' = 0
  /\ started' = TRUE /\ buffer' = <<>>
  /\ UNCHANGED <<message, headers, wire, parser, result>>

BodyStart ==
  /\ Plain /\ ~ started
  /\ HasLength => Len(buffer) < headers.content_length
  /\ delivered' = buffer /\ content_seen' = Len(buffer)
  /\ started' = TRUE /\ buffer' = <<>>
  /\ UNCHANGED <<message, headers, wire, parser, result>>

Missing == HasLength => content_seen < headers.content_length

BodyReceive ==
  /\ Plain /\ started /\ Missing /\ wire # <<>>
  /\ \E n \in 1 .. Least(Len(wire), BufSize) :
       /\ HasLength => n <= headers.content_length - content_seen
       /\ delivered' = delivered \o SubSeq(wire, 1, n)
       /\ content_seen' = content_seen + n
       /\ wire' = Drop(wire, n)
  /\ UNCHANGED <<message, headers, buffer, parser, started, result>>

BodyEnds ==
  /\ Plain /\ started
  /\ \/ ~ Missing /\ Give("ok")
     \/ /\ Missing /\ wire = <<>>
        /\ Give(CASE ~ EndsCleanly(message) -> "transport"
                  [] EndsCleanly(message) /\ HasLength -> "truncated"
                  [] EndsCleanly(message) /\ ~ HasLength -> "ok")

(***************************************************************************)
(* What may fail: any receive, and any call of the callback.                *)
(***************************************************************************)
ReceiveFails ==
  /\ \/ BetweenPieces /\ state # "DONE"
     \/ Plain /\ started /\ Missing
  /\ Give("transport")

\* A body that is not chunked is also called back with the nothing that comes at
\* the end of the connection.
CallbackFails ==
  /\ \/ Parsing("CHUNK_DATA")
     \/ Plain /\ (started => Missing /\ (wire # <<>> \/ EndsCleanly(message)))
  /\ Give("callback")

Next ==
  \/ ParseChunk \/ ChunkedReceive \/ ChunkedEnds
  \/ AllAtOnce \/ BodyStart \/ BodyReceive \/ BodyEnds
  \/ ReceiveFails \/ CallbackFails

Spec == Init /\ [][Next]_vars

(***************************************************************************)
(* Properties.                                                              *)
(***************************************************************************)
\* The parser is in one of its states, its sizes are size_t, and a body of a
\* stated length is never read past it.
TypeOK ==
  /\ message \in Response /\ headers \in Headers
  /\ wire \in Seq(Bytes) /\ buffer \in Seq(Bytes) /\ delivered \in Seq(Bytes)
  /\ state \in {"CHUNK_SIZE", "CHUNK_EXT_WS1", "CHUNK_EXT", "CHUNK_SIZE_LF",
               "CHUNK_DATA", "CHUNK_DATA_CR", "CHUNK_DATA_LF", "TRAILER",
               "TRAILER_LF", "DONE"}
  /\ chunk_size \in 0 .. SizeMax /\ remaining_data \in 0 .. SizeMax
  /\ declared \in Nat /\ content_seen \in Nat
  /\ line_empty \in BOOLEAN /\ started \in BOOLEAN
  /\ result \in {"reading", "ok", "truncated", "malformed", "transport", "callback",
                "unsupported", "todo"}

\* The size of a chunk is the number its digits stand for: no size line, of any
\* number of digits, wraps around (http_client.c:520).
ChunkSizeExact == chunk_size = declared

\* However the body is cut into pieces, the callback gets its bytes in order,
\* and success is reported only of a body that came whole: a connection that
\* ends early is an error (http_client.c:678-680, 724-726, transport.c:72-75).
Outcome ==
  IF result \in {"reading", "ok"} THEN result ELSE "error"

Stream == INSTANCE BodyStream
  WITH data <- message.data, whole <- message.whole, result <- Outcome

Promised == Stream!Spec

\* A response in order, whose body came whole, is never refused as malformed or
\* truncated or as one zpk does not support, however it is cut into pieces.
WholeNeverRefused ==
  result \in {"malformed", "truncated", "unsupported", "todo"} => ~ message.whole
=============================================================================
