---------------------------- MODULE TrustAnchors ----------------------------
(***************************************************************************)
(* Reading the certificate files before the first connection:               *)
(* read_trust_anchors (read_trust_anchor.c) of each of them, as             *)
(* resolve_and_fetch_package_paths_repositories calls it.                   *)
(*                                                                          *)
(* A file that starts with the byte TAG is its bytes; another one is text,  *)
(* its lines as br_pem_decoder of BearSSL takes them: the banners "begin"   *)
(* and "end", the "data" of Base64, and other "text".  Whether the last     *)
(* line ends with a line feed is told apart.                                *)
(***************************************************************************)
EXTENDS Integers, SequencesExt

CONSTANTS
  Base,          \* 256; a byte is a number below it
  TAG,           \* 0x30
  SizeBytes,     \* sizeof(size_t)
  KeyOf(_),      \* the kind of the key br_x509_decoder finds, "none" if none
  Supported,     \* the kinds of keys zpk takes
  Configured     \* the lists of files of the instance

VARIABLES
  cacerts,       \* the files, one of Configured
  phase,         \* "open" a file, "pem", or the outcome: "ready" or "failed"
  file,          \* the file being read
  lines,         \* of it, that the decoder has yet to be given
  ended,         \* whether the last of them ends with a line feed
  extra_newline, in_object, certificate, object, initial_count,
  anchors,       \* the certificates they were made of
  error

decoding == <<lines, ended, extra_newline, in_object, certificate, object, initial_count>>

trust == <<cacerts, phase, file, decoding, anchors, error>>

TrustInit ==
  /\ cacerts \in Configured
  /\ phase = "open" /\ file = 1
  /\ lines = <<>> /\ ended = FALSE /\ extra_newline = FALSE
  /\ in_object = FALSE /\ certificate = FALSE /\ object = <<>> /\ initial_count = 0
  /\ anchors = <<>> /\ error = "none"

(***************************************************************************)
(* looks_like_der: one SEQUENCE and nothing after it.  From Half on, its    *)
(* length takes bytes of its own, as few as can be.                         *)
(***************************************************************************)
Half == Base \div 2

SIZE_MAX == Base ^ SizeBytes - 1

\* -1 once it would wrap around
AddByte(content_len, byte) ==
  IF content_len = -1 \/ content_len > (SIZE_MAX - byte) \div Base
    THEN -1 ELSE content_len * Base + byte

\* Mutant: a length that needs no byte of its own may take one.
LooksLikeDerLoosely(bytes) ==
  /\ Len(bytes) >= 2 /\ bytes[1] = TAG
  /\ LET length_bytes == bytes[2] - Half
         rest == SubSeq(bytes, 3, Len(bytes))
     IN \/ bytes[2] < Half /\ bytes[2] = Len(rest)
        \/ /\ length_bytes \in 1 .. Len(rest) /\ length_bytes <= SizeBytes /\ rest[1] # 0
           /\ FoldLeft(AddByte, 0, SubSeq(rest, 1, length_bytes)) = Len(rest) - length_bytes

LooksLikeDer(bytes) ==
  /\ Len(bytes) >= 2 /\ bytes[1] = TAG
  /\ LET length_bytes == bytes[2] - Half
         rest == SubSeq(bytes, 3, Len(bytes))
         content_len == FoldLeft(AddByte, 0, SubSeq(rest, 1, length_bytes))
     IN \/ bytes[2] < Half /\ bytes[2] = Len(rest)
        \/ /\ length_bytes \in 1 .. Len(rest) /\ length_bytes <= SizeBytes /\ rest[1] # 0
           /\ content_len >= Half /\ content_len = Len(rest) - length_bytes

\* certificate_to_trust_anchor takes it.
IsAnchor(der) == LooksLikeDer(der) /\ KeyOf(der) \in Supported

(***************************************************************************)
(* read_trust_anchors, and the loop over the files.                         *)
(***************************************************************************)
Fail(e) ==
  /\ phase' = "failed" /\ error' = e
  /\ UNCHANGED <<cacerts, file, decoding, anchors>>

NextFile ==
  /\ phase' = "open" /\ file' = file + 1
  /\ UNCHANGED <<cacerts, decoding, error>>

Opening(kind) == phase = "open" /\ file <= Len(cacerts) /\ cacerts[file].kind = kind

\* "no file is ok"
Missing == Opening("missing") /\ NextFile /\ UNCHANGED anchors

Unreadable == Opening("unreadable") /\ Fail("io")

\* append_certificate of all of it
ReadDer ==
  /\ Opening("der")
  /\ IF IsAnchor(cacerts[file].bytes)
       THEN NextFile /\ anchors' = Append(anchors, cacerts[file].bytes)
       ELSE Fail("certificate")

OutOfMemory ==
  /\ phase = "pem" \/ Opening("der") \/ Opening("pem")
  /\ Fail("memory")

Ready ==
  /\ phase = "open" /\ file > Len(cacerts)
  /\ phase' = "ready"
  /\ UNCHANGED <<cacerts, file, decoding, anchors, error>>

(***************************************************************************)
(* decode_pem.  The decoder takes a line when it ends.                      *)
(***************************************************************************)
OpenPem ==
  /\ Opening("pem")
  /\ phase' = "pem" /\ lines' = cacerts[file].lines /\ ended' = cacerts[file].ended
  /\ extra_newline' = TRUE
  /\ in_object' = FALSE /\ certificate' = FALSE /\ object' = <<>>
  /\ initial_count' = Len(anchors)
  /\ UNCHANGED <<cacerts, file, anchors, error>>

\* The next line of this type is taken, inside an object or between two.
Taken(type, inside) ==
  /\ phase = "pem" /\ lines # <<>> /\ Head(lines).type = type /\ in_object = inside
  /\ ended \/ Len(lines) > 1
  /\ lines' = Tail(lines)
  /\ UNCHANGED <<cacerts, phase, file, ended, extra_newline, initial_count, error>>

CertificateNames == {"CERTIFICATE", "X509 CERTIFICATE"}

BeginObject ==
  /\ Taken("begin", FALSE)
  /\ certificate' = (Head(lines).name \in CertificateNames)
  /\ in_object' = TRUE /\ object' = <<>>
  /\ UNCHANGED anchors

Data ==
  /\ Taken("data", TRUE)
  /\ object' = IF certificate THEN object \o Head(lines).bytes ELSE object
  /\ UNCHANGED <<in_object, certificate, anchors>>

EndObject ==
  /\ certificate => IsAnchor(object)
  /\ Taken("end", TRUE)
  /\ anchors' = IF certificate THEN Append(anchors, object) ELSE anchors
  /\ in_object' = FALSE
  /\ UNCHANGED <<certificate, object>>

EndRefused ==
  /\ certificate /\ ~ IsAnchor(object)
  /\ phase = "pem" /\ in_object /\ lines # <<>> /\ Head(lines).type = "end"
  /\ ended \/ Len(lines) > 1
  /\ Fail("certificate")

\* Between two objects the decoder looks for "begin" only.
PassOver ==
  /\ \E type \in {"text", "data", "end"} : Taken(type, FALSE)
  /\ UNCHANGED <<in_object, certificate, object, anchors>>

PemError ==
  /\ phase = "pem" /\ in_object /\ lines # <<>> /\ Head(lines).type \in {"text", "begin"}
  /\ ended \/ Len(lines) > 1
  /\ Fail("pem")

\* Mutant: no line feed is added.
NoNewline ==
  /\ phase = "pem" /\ extra_newline /\ Len(lines) = (IF ended THEN 0 ELSE 1)
  /\ extra_newline' = FALSE /\ lines' = <<>>
  /\ UNCHANGED <<cacerts, phase, file, ended, in_object, certificate, object, initial_count,
                 anchors, error>>

\* All has been pushed: a line feed ends the last line.
ExtraNewline ==
  /\ phase = "pem" /\ extra_newline /\ Len(lines) = (IF ended THEN 0 ELSE 1)
  /\ extra_newline' = FALSE /\ ended' = TRUE
  /\ UNCHANGED <<cacerts, phase, file, lines, in_object, certificate, object, initial_count,
                 anchors, error>>

EndOfPem ==
  /\ phase = "pem" /\ lines = <<>> /\ ~ extra_newline
  /\ IF in_object THEN Fail("pem")
     ELSE IF Len(anchors) = initial_count THEN Fail("no certificates")
     ELSE NextFile /\ UNCHANGED anchors

TrustNext ==
  \/ Missing \/ Unreadable \/ ReadDer \/ OutOfMemory \/ Ready
  \/ OpenPem \/ BeginObject \/ Data \/ EndObject \/ EndRefused \/ PassOver \/ PemError
  \/ ExtraNewline \/ EndOfPem

(***************************************************************************)
(* What a file means, by the places of its lines.                           *)
(***************************************************************************)
\* The fewest bytes that write n.
Octets(n) ==
  LET k == CHOOSE i \in 1 .. SizeBytes + 1 :
             Base ^ i > n /\ \A j \in 1 .. i - 1 : Base ^ j <= n
  IN [i \in 1 .. k |-> (n \div Base ^ (k - i)) % Base]

IsDerSequence(bytes) ==
  \E n \in 0 .. Len(bytes) :
    LET head == <<TAG>> \o (IF n < Half THEN <<n>>
                            ELSE <<Half + Len(Octets(n))>> \o Octets(n))
    IN Len(bytes) = Len(head) + n /\ SubSeq(bytes, 1, Len(head)) = head

IsGood(der) == IsDerSequence(der) /\ KeyOf(der) \in Supported

\* Line i comes after a "begin" that no "end" has followed.
IsInside(ls, i) ==
  \E b \in 1 .. i - 1 : ls[b].type = "begin" /\ \A k \in b .. i - 1 : ls[k].type # "end"

IsMalformed(ls) ==
  \/ IsInside(ls, Len(ls) + 1)
  \/ \E i \in 1 .. Len(ls) : IsInside(ls, i) /\ ls[i].type \in {"begin", "text"}

\* The data between the "end" at j and the "begin" before it.
Body(ls, j) ==
  LET b == Max({i \in 1 .. j : ls[i].type = "begin"})
  IN FlattenSeq([i \in 1 .. j - b - 1 |-> ls[b + i].bytes])

CertificatesOf(ls) ==
  LET Closes(j) ==
        /\ ls[j].type = "end" /\ IsInside(ls, j)
        /\ ls[Max({i \in 1 .. j : ls[i].type = "begin"})].name \in CertificateNames
      places == SelectSeq([j \in 1 .. Len(ls) |-> j], Closes)
  IN [k \in 1 .. Len(places) |-> Body(ls, places[k])]

Meant(f) ==
  CASE f.kind = "der" -> <<f.bytes>>
    [] f.kind = "pem" -> CertificatesOf(f.lines)
    [] OTHER -> <<>>

\* When all files were read, the anchors are the certificates of all of them,
\* in order, and each is one well-formed DER SEQUENCE with a key zpk takes
\* ("Recognize one complete DER SEQUENCE", read_trust_anchor.c:42).
TrustedAsMeant ==
  phase = "ready" =>
    /\ anchors = FlattenSeq([i \in 1 .. Len(cacerts) |-> Meant(cacerts[i])])
    /\ \A i \in 1 .. Len(anchors) : IsGood(anchors[i])

\* A file is refused for what it is: a file with good certificates and nothing
\* misplaced never stops zpk, whether or not its last line ends
\* (read_trust_anchor.c:173) and whatever was read before it.
RefusedForCause ==
  phase = "failed" =>
    LET f == cacerts[file] IN
    CASE error = "io" -> f.kind = "unreadable"
      [] error = "pem" -> f.kind = "pem" /\ IsMalformed(f.lines)
      [] error = "no certificates" -> f.kind = "pem" /\ Meant(f) = <<>>
      [] error = "certificate" ->
           IF f.kind = "der" THEN ~ IsGood(f.bytes)
           ELSE f.kind = "pem" /\ \E i \in 1 .. Len(f.lines) :
                  f.lines[i].type = "end" /\ IsInside(f.lines, i) /\ ~ IsGood(Body(f.lines, i))
      [] OTHER -> error = "memory"
=============================================================================
