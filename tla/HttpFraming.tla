---------------------------- MODULE HttpFraming ----------------------------
(***************************************************************************)
(* What the lines of a head mean for the body after it, as a whole: what    *)
(* the parser of HttpHeaders is held to.                                    *)
(***************************************************************************)
EXTENDS HttpWire

\* The lines of a response with a given name.
Named(lines, key) ==
  {i \in 2 .. Len(lines) : Len(lines[i]) >= 2 /\ SubSeq(lines[i], 1, 2) = <<key, COLON>>}

ValueOf(line) == SubSeq(line, 3, Len(line))

\* s is the decimal number n between blanks, of any size.
IsDecimal(s, n) ==
  \E i, j \in DOMAIN s :
    /\ i <= j
    /\ \A k \in DOMAIN s : IF k \in i .. j THEN s[k] \in DOMAIN Digit ELSE s[k] = SP
    /\ n = FoldLeft(LAMBDA m, c : 10 * m + Digit[c], 0, SubSeq(s, i, j))

\* s is a list whose one entry is "chunked".
OnlyChunked(s) ==
  \E i \in DOMAIN s :
    s[i] = "chunked" /\ \A k \in DOMAIN s \ {i} : s[k] \in {SP, COMMA}

\* What the headers say of the body, of what length and whether in chunks.
StatesLength(lines) == Named(lines, "content-length") # {}

SpellsLength(lines, n) ==
  \E i \in Named(lines, "content-length") :
    Named(lines, "content-length") = {i} /\ IsDecimal(ValueOf(lines[i]), n)

StatesCoding(lines) == Named(lines, "transfer-encoding") # {}

IsChunked(lines) ==
  \E i \in Named(lines, "transfer-encoding") :
    Named(lines, "transfer-encoding") = {i} /\ OnlyChunked(ValueOf(lines[i]))

\* A head that a client may not refuse.
Acceptable(lines) ==
  /\ Len(HeadOf(lines)) <= Capacity
  /\ Len(lines) >= 1 /\ Len(lines[1]) >= 2
  /\ lines[1][1] = VERSION /\ lines[1][2] \in Statuses
  /\ \A i \in 2 .. Len(lines) : \E j \in DOMAIN lines[i] : lines[i][j] = COLON
  /\ StatesLength(lines) => \E n \in 0 .. UintMax : SpellsLength(lines, n)
  /\ StatesCoding(lines) => IsChunked(lines)
=============================================================================
