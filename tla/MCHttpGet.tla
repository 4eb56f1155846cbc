------------------------------ MODULE MCHttpGet ------------------------------
(***************************************************************************)
(* Bodies in each framing under one plain head each: of up to two chunks,   *)
(* with extensions, leading zeros, trailers and bytes after the end, all of *)
(* them also cut anywhere; of chunks that are malformed; of a stated length *)
(* and of none.  And heads of up to two headers, right and wrong, over a    *)
(* few bodies; those of one header also cut anywhere or with a bare LF.     *)
(* Sizes are four bits wide, and the buffer of the head holds a             *)
(* Content-Length and a Transfer-Encoding.                                  *)
(***************************************************************************)
EXTENDS HttpGet, HttpFraming

MCHex == [b \in {"0", "1", "2", "f"} |->
            CASE b = "0" -> 0 [] b = "1" -> 1 [] b = "2" -> 2 [] b = "f" -> 15]

MCDigit == [b \in {"0", "1", "3", "5", "6"} |->
              CASE b = "0" -> 0 [] b = "1" -> 1 [] b = "3" -> 3 [] b = "5" -> 5 [] b = "6" -> 6]

MCTokenChars == DOMAIN MCDigit \cup {"chunked", "gzip", "content-length",
                                     "transfer-encoding", "x"}

MCStatuses == {"200", "404"}

MCBytes == DOMAIN MCHex \cup MCTokenChars \cup MCStatuses
             \cup {CR, LF, SP, COLON, COMMA, SEMICOLON, VERSION, "("}

OK == <<VERSION, "200">>

(***************************************************************************)
(* Many bodies.                                                             *)
(***************************************************************************)
Chunk(style, d) ==
  style.zeros \o <<<<"0", "1", "2">>[Len(d) + 1]>> \o style.extension \o <<CR, LF>>
    \o d \o <<CR, LF>>

Styles ==
  {[zeros |-> <<>>, extension |-> <<>>],
   [zeros |-> <<"0", "0">>, extension |-> <<SEMICOLON, "x">>],
   [zeros |-> <<>>, extension |-> <<SP, SEMICOLON, SP>>]}

Datas == {<<"x">>, <<CR, LF>>, <<"0", "x">>}

Chunks == {[wire |-> Chunk(style, d), data |-> d] : style \in Styles, d \in Datas}

NoChunk == [wire |-> <<>>, data |-> <<>>]

Joined(c1, c2) == [wire |-> c1.wire \o c2.wire, data |-> c1.data \o c2.data]

ChunkLists ==
  {NoChunk} \cup Chunks \cup {Joined(c1, c2) : c1 \in Chunks, c2 \in Chunks}

Ends == {<<"0", CR, LF, CR, LF>>, <<"0", "0", CR, LF, "x", CR, LF, CR, LF>>}

Reading(lines, tls, cut, bytes, data, whole) ==
  [lines |-> lines, tls |-> tls, cut |-> cut, wire |-> HeadOf(lines) \o bytes,
   data |-> data, whole |-> whole]

InChunks(tls, cut, bytes, data, whole) ==
  Reading(<<OK, <<"transfer-encoding", COLON, "chunked">>>>, tls, cut, bytes, data, whole)

WholeChunked ==
  {InChunks(tls, TRUE, l.wire \o end \o after, l.data, TRUE) :
     l \in ChunkLists, end \in Ends, after \in {<<>>, <<"x">>}, tls \in BOOLEAN}

CutChunked ==
  UNION {{InChunks(tls, cut, SubSeq(l.wire \o end, 1, n), l.data, FALSE) :
            n \in 0 .. Len(l.wire \o end) - 1, tls \in BOOLEAN, cut \in BOOLEAN} :
           l \in {NoChunk} \cup Chunks, end \in Ends}

\* A chunk that is not one, and the part of it that can be delivered.
MalformedChunks ==
  {[wire |-> w, data |-> <<>>] :
     w \in {<<CR, LF>>, <<"x">>, <<"1", LF>>, <<"1", CR, "x">>, <<"1", SP, "x">>,
            <<"1", SEMICOLON, LF>>, <<"1", "0", CR, LF, CR, LF>>,
            <<"f", "f", CR, LF>>, <<"1", "0", "0", CR, LF, CR, LF>>,
            <<"0", CR, LF, CR, CR>>}}
  \cup {[wire |-> <<"1", CR, LF, "x", "x", CR, LF>>, data |-> <<"x">>],
        [wire |-> <<"1", CR, LF, "x", CR, "x">>, data |-> <<"x">>],
        [wire |-> <<"f", CR, LF, "x", CR, LF>>, data |-> <<"x", CR, LF>>]}

Malformed ==
  {InChunks(FALSE, FALSE, l.wire, l.data, FALSE) :
     l \in {Joined(c, bad) : c \in {NoChunk} \cup Chunks, bad \in MalformedChunks}}

Plains == {<<>>, <<"x">>, <<"x", "0", CR>>, <<"x", "0", CR, LF, "1">>}

OfLength(d, tls, cut, bytes, whole) ==
  Reading(<<OK, <<"content-length", COLON, <<"0", "1", "2", "3", "4", "5">>[Len(d) + 1]>>>>,
          tls, cut, bytes, d, whole)

WithLength ==
  {OfLength(d, tls, cut, d \o after, TRUE) :
     d \in Plains, after \in {<<>>, <<"x", "x">>}, tls \in BOOLEAN, cut \in BOOLEAN}
  \cup UNION {{OfLength(d, tls, cut, SubSeq(d, 1, n), FALSE) :
                 n \in 0 .. Len(d) - 1, tls \in BOOLEAN, cut \in BOOLEAN} :
                d \in Plains}

\* Only TLS can tell that a body without a length was cut, even after its end.
WithoutLength ==
  {Reading(<<OK>>, FALSE, cut, d, d, TRUE) : d \in Plains, cut \in BOOLEAN}
  \cup {Reading(<<OK>>, TRUE, FALSE, d, d, TRUE) : d \in Plains}
  \cup UNION {{Reading(<<OK>>, TRUE, TRUE, SubSeq(d, 1, n), d, FALSE) :
                 n \in 0 .. Len(d)} : d \in Plains}

(***************************************************************************)
(* Many heads.                                                              *)
(***************************************************************************)
Numbers ==
  {<<"1">>, <<"1", "5">>, <<SP, "5", SP>>, <<"1", "6">>, <<"1", "1", "1">>,
   <<"1", SP, "5">>, <<>>, <<SP>>, <<"x">>}

Codings ==
  {<<"chunked">>, <<SP, "chunked", COMMA>>, <<COMMA, "chunked", SP>>,
   <<"gzip">>, <<"gzip", COMMA, "chunked">>, <<"chunked", SP, COMMA, "chunked">>,
   <<"chunked", SP, "gzip">>, <<"chunked", "x">>, <<"(">>, <<>>}

HeaderLines ==
  {<<"content-length", COLON>> \o n : n \in Numbers}
  \cup {<<"transfer-encoding", COLON>> \o c : c \in Codings}
  \cup {<<"x", COLON, COLON>>, <<"x">>, <<"content-length", SP, COLON, "1">>}

StatusLines == {OK, <<VERSION, "404", SP, "x">>, <<VERSION, "x">>, <<"x">>}

Heads ==
  {<<s>> : s \in StatusLines} \cup {<<s, l>> : s \in StatusLines, l \in HeaderLines}
  \cup {<<OK, l1, l2>> : l1 \in HeaderLines, l2 \in HeaderLines}

OneChunk == <<"1", CR, LF, "x", CR, LF, "0", CR, LF, CR, LF>>

Tails == {<<>>, <<"x">>, <<CR, LF, CR, LF>>, OneChunk}

\* What a head and the bytes after it stand for.
Stands(lines, bytes) ==
  IF ~ (Acceptable(lines) /\ lines[1] = OK) THEN [data |-> <<>>, whole |-> FALSE]
  ELSE IF StatesCoding(lines)
  THEN [data |-> IF bytes = OneChunk THEN <<"x">> ELSE <<>>, whole |-> bytes = OneChunk]
  ELSE IF StatesLength(lines)
  THEN LET n == CHOOSE m \in 0 .. UintMax : SpellsLength(lines, m)
       IN  [data |-> SubSeq(bytes, 1, Min({n, Len(bytes)})), whole |-> Len(bytes) >= n]
  ELSE [data |-> bytes, whole |-> TRUE]

WholeHeads ==
  {LET s == Stands(ls, b) IN Reading(ls, FALSE, FALSE, b, s.data, s.whole) :
     ls \in Heads, b \in Tails}

OneHeader == {ls \in Heads : Len(ls) <= 2 /\ ls[1] = OK}

Spoilt(lines, tls, bytes) ==
  [Reading(lines, tls, tls, <<>>, <<>>, FALSE) EXCEPT !.wire = bytes]

CutHeads ==
  UNION {{Spoilt(ls, tls, SubSeq(HeadOf(ls), 1, n)) :
            n \in 0 .. Len(HeadOf(ls)) - 1, tls \in BOOLEAN} : ls \in OneHeader}

\* The CR before one of the line feeds is missing.
BareLF ==
  UNION {{Spoilt(ls, FALSE, RemoveAt(HeadOf(ls), i)) :
            i \in {j \in DOMAIN HeadOf(ls) : HeadOf(ls)[j] = CR}} : ls \in OneHeader}

MCResponses ==
  WholeChunked \cup CutChunked \cup Malformed \cup WithLength \cup WithoutLength
    \cup WholeHeads \cup CutHeads \cup BareLF
=============================================================================
