------------------------------ MODULE MCLookup ------------------------------
(***************************************************************************)
(* Without certificates, all repositories and directories; and many lists   *)
(* of certificate files, over one directory and one repository each.        *)
(***************************************************************************)
EXTENDS Lookup

Seqs == INSTANCE SequencesExt    \* it has a Zip of its own

\* A key is found in whatever has the tag; what a second byte of 2 is in has
\* one of a kind zpk does not take.
MCKeyOf(der) ==
  IF der = <<>> \/ der[1] # TAG THEN "none"
  ELSE IF Len(der) >= 3 /\ der[Len(der)] = 2 THEN "other" ELSE "rsa"

Zeros(n) == [i \in 1 .. n |-> 0]

Der(bytes) == [kind |-> "der", bytes |-> bytes]

\* Every first three bytes of a length, and contents of every length.
DerFiles ==
  {Der(<<TAG>>)}
    \cup {Der(<<TAG, b>> \o Zeros(n)) : b \in 0 .. Base - 1, n \in 0 .. Base}
    \cup {Der(<<TAG, b, c>> \o Zeros(n)) : b \in 0 .. Base - 1, c \in 1 .. Base - 1, n \in 0 .. 2 * Base}
    \cup {Der(<<TAG, b, 1, c>> \o Zeros(n)) :
            b \in 0 .. Base - 1, c \in 0 .. 2, n \in Base .. Base + 3}
    \cup {Der(<<TAG, 1, 2>>)}

Line(type) == [type |-> type]
Begin(name) == [type |-> "begin", name |-> name]
Data(bytes) == [type |-> "data", bytes |-> bytes]

LineSet ==
  {Begin("CERTIFICATE"), Begin("X509 CERTIFICATE"), Begin("KEY"),
   Data(<<TAG, 0>>), Data(<<TAG>>), Line("end"), Line("text")}

Pem(ls, newline) == [kind |-> "pem", lines |-> ls, ended |-> newline]

Objects ==
  {<<Begin(name)>> \o d \o <<Line("end")>> :
     name \in {"CERTIFICATE", "KEY"},
     d \in {<<>>, <<Data(<<TAG, 0>>)>>, <<Data(<<TAG>>), Data(<<1, 0>>)>>, <<Data(<<TAG, 1>>)>>}}

PemFiles ==
  {Pem(ls, newline) : ls \in Seqs!BoundedSeq(LineSet, 4), newline \in BOOLEAN}
    \cup {Pem(o1 \o between \o o2, newline) :
            o1 \in Objects, o2 \in Objects, newline \in BOOLEAN,
            between \in {<<>>, <<Line("text")>>}}

Certificate(b) ==
  Pem(<<Begin("CERTIFICATE"), Data(<<TAG, 1, b>>), Line("end")>>, TRUE)

FewFiles ==
  {[kind |-> "missing"], [kind |-> "unreadable"], Certificate(0), Certificate(1),
   Certificate(2), Der(<<TAG, 1, 3>>), Pem(<<>>, TRUE),
   Pem(<<Begin("CERTIFICATE"), Data(<<TAG, 1, 4>>), Line("end")>>, FALSE)}

MCConfigured ==
  {<<>>} \cup {<<f>> : f \in DerFiles \cup PemFiles} \cup Seqs!BoundedSeq(FewFiles, 3)

OneOfEach ==
  /\ command = "add" /\ mode = "fetch" /\ targets = {"a"} /\ count = 1
  /\ contents = [r \in Repositories |-> IF r = 1 THEN {[name |-> "a", version |-> 1]} ELSE {}]
  /\ kind = [r \in Repositories |-> "file"]

MCInit == (cacerts = <<>> \/ OneOfEach) /\ LookupInit

MCSpec == MCInit /\ [][LookupNext]_lookupVars
=============================================================================
