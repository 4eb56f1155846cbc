-------------------------------- MODULE Uri --------------------------------
(***************************************************************************)
(* decode_uri (uri.c).  A uri is a sequence of symbols: the characters that *)
(* delimit its parts, decimal digits, and one symbol for a run of letters.  *)
(***************************************************************************)
EXTENDS PathNames

CONSTANTS
  Lower,          \* runs of small letters
  HexLetters,     \* runs of letters that are hexadecimal digits
  Letters,        \* all runs of letters
  PortMax         \* UINT16_MAX

ASSUME LettersAssumption == Lower \cup HexLetters \subseteq Letters

ASSUME PortMaxAssumption == PortMax \in Nat

Colon == ":"

DigitNames == <<"0", "1", "2", "3", "4", "5", "6", "7", "8", "9">>
Decimals == Range(DigitNames)
DigitOf(c) == SelectInSeq(DigitNames, LAMBDA d : d = c) - 1

Ipv4Symbols == Decimals \cup {Dot}
Ipv6Symbols == Decimals \cup HexLetters \cup {Colon, Dot}
HostSymbols == Decimals \cup Letters \cup {"-", Dot}
Blanks == {" ", "TAB", "LF"}

Uri(scheme, host, digits, path) ==
  [scheme |-> scheme, host |-> host, digits |-> digits, path |-> path]

NotUri == Uri(<<>>, <<>>, <<>>, <<>>)

\* Where the run of symbols of S that begins at i ends: the index after it.
RunEnd(u, i, S) ==
  LET k == SelectInSubSeq(u, i, Len(u), LAMBDA c : c \notin S) IN
  IF i > Len(u) \/ k = 0 THEN Len(u) + 1 ELSE k

IsAt(u, i, c) == i <= Len(u) /\ u[i] = c

(***************************************************************************)
(* parse_host: digits and dots first, then an address in brackets, then a   *)
(* name.  `next` is 0 when none of them is there.                           *)
(***************************************************************************)
Upto(u, i, end) ==
  [text |-> SubSeq(u, i, end - 1), next |-> IF end = i THEN 0 ELSE end]

RunAt(u, i, S) == Upto(u, i, RunEnd(u, i, S))

Bracketed(u, i, end) ==
  [text |-> SubSeq(u, i + 1, end - 1),
   next |-> IF IsAt(u, i, "[") /\ IsAt(u, end, "]") THEN end + 1 ELSE 0]

BracketedAt(u, i) == Bracketed(u, i, RunEnd(u, i + 1, Ipv6Symbols))

FirstThere(a, b, c) == IF a.next # 0 THEN a ELSE IF b.next # 0 THEN b ELSE c

HostAt(u, i) ==
  FirstThere(RunAt(u, i, Ipv4Symbols), BracketedAt(u, i), RunAt(u, i, HostSymbols))

\* Mutant: the digit is not in the bound.
AddDigitLate(port, c) ==
  IF port < 0 \/ port > PortMax \div 10 THEN -1 ELSE 10 * port + DigitOf(c)

\* parse_port: -1 once the number does not fit.
AddDigit(port, c) ==
  IF port < 0 \/ port > (PortMax - DigitOf(c)) \div 10 THEN -1
  ELSE 10 * port + DigitOf(c)

PortOf(digits) == IF digits = <<>> THEN -1 ELSE FoldLeft(AddDigit, 0, digits)

(***************************************************************************)
(* parse_uri                                                                *)
(***************************************************************************)
PathAt(u, i) == SubSeq(u, i, RunEnd(u, i, Range(u) \ Blanks) - 1)

AfterHost(u, scheme, host) ==
  LET digits == RunAt(u, host.next + 1, Decimals).text IN
  IF host.next = 0 THEN NotUri
  ELSE IF ~ IsAt(u, host.next, Colon)
     THEN Uri(scheme, host.text, <<>>, PathAt(u, host.next))
  ELSE IF PortOf(digits) = -1 THEN NotUri
  ELSE Uri(scheme, host.text, digits, PathAt(u, host.next + 1 + Len(digits)))

AfterScheme(u, scheme) ==
  LET colon == scheme.next IN
  IF \/ colon = 0 \/ ~ IsAt(u, colon, Colon)
     \/ ~ IsAt(u, colon + 1, Slash) \/ ~ IsAt(u, colon + 2, Slash)
     THEN NotUri
     ELSE AfterHost(u, scheme.text, HostAt(u, colon + 3))

Decode(u) == AfterScheme(u, RunAt(u, 1, Lower))
=============================================================================
