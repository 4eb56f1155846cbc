-------------------------- MODULE MCConfiguration --------------------------
(***************************************************************************)
(* Small instances of Configuration: many command lines over one tree, many *)
(* configurations with a few command lines, and each way to go wrong.       *)
(***************************************************************************)
EXTENDS Configuration

MCLower == {"file", "http", "a"}
MCLetters == MCLower \cup {"Z"}

H == <<Slash, "h">>             \* the home directory
W == <<Slash, "h", Slash, "w">> \* the working directory, below it

Ini(dir) == dir \o <<Slash, IniName>>
Conf == <<"sub", Slash, "conf">>

Address == <<"http", Colon, Slash, Slash, "1", Dot, "2", Colon, "8", "0">>
Relative == <<"file", Colon, Slash, Slash, "a", Slash, Dot, Dot, Slash, "r">>
HomeUri == <<"file", Colon, Slash, Slash, "[", Colon, "a", "]", Slash, Dot, Slash, "r">>

Source(set, extra) == [parses |-> TRUE, set |-> set, extra |-> extra]

Good ==
  {Source("sysroot" :> <<<<Dot, Dot, Slash, "alt">>>>
            @@ "cacert-paths" :> <<<<"~", Slash, "ca">>>>,
          "repositories" :> <<Relative>>),
   Source("repositories" :> <<Address>> @@ "cached-pkgs-path" :> <<<<Slash, "c">>>>,
          "cacert-paths" :> <<<<"ca">>>>),
   Source("repositories" :> <<>> @@ "installed-pkgs-path" :> <<<<"p">>>>,
          "repositories" :> <<HomeUri, Address>>)}

Protecting ==
  Source("protected-paths" :> <<<<"+", "etc">>>>, "protected-paths" :> <<<<"+", "x">>>>)

Bad ==
  {[Source(<<>>, <<>>) EXCEPT !.parses = FALSE],
   Source("sysroot" :> <<<<>>>>, <<>>),
   Source("repositories" :> <<WrongType>>, <<>>),
   Source("protected-paths" :> <<<<"+">>>>, <<>>),
   Source(<<>>, "repositories" :> <<<<"http", Colon, Slash, "a">>>>)}

Absent == Source(<<>>, <<>>)

\* Files that set nothing are not there.
Present(files) ==
  [path \in {q \in DOMAIN files : files[q] # Absent} |-> files[path]]

Start(line, cwd, files, environment) ==
  [argv |-> line, home |-> H, cwd |-> cwd, files |-> Present(files),
   environment |-> environment]

Del == <<<<"del">>, <<"pkg">>>>
ByRoot == Del \o <<Short("p"), <<"r">>>>
ByExtra == Del \o <<Short("X") \o <<"=">> \o Relative>>
ByFile == <<Long("config")>> \o <<Conf>> \o Del

Arguments ==
  {<<"del">>, <<"list">>, <<"fetch">>, <<"info">>, <<"-">>, Separator,
   Short("p"), Short("p") \o <<"=">> \o H, Long("config"), Short("o"),
   Short("s") \o <<"=", "no">>, Short("I"), Short("W"), Short("h"),
   <<"-", "v", "v">>}

FewArguments ==
  {<<"fetch">>, <<"list">>, Separator, Short("p"), Short("p") \o <<"=">> \o H, Short("o")}

OddArguments ==
  {Short("z"), Short("s"), Short("s") \o <<"=", "z">>, Long("check-certificate"),
   Short("X"), Long("verbose"), Long("orphaned")}

CommandLines ==
  {Start(line, W, Ini(W) :> Protecting, NoSource) :
     line \in BoundedSeq(Arguments, 3) \cup BoundedSeq(FewArguments, 5)
               \cup {s \o t : s \in BoundedSeq(OddArguments, 2),
                             t \in {Del, <<<<"list">>>>}}}
    \cup {[Start(Del, W, Ini(W) :> Protecting, NoSource) EXCEPT !.home = Null]}

Layers ==
  {Start(line, cwd,
         SystemConfig :> f1 @@ Ini(H) :> f2 @@ Ini(<<>>) :> f3 @@ Ini(W) :> f4, environment) :
     line \in {Del, ByRoot, ByExtra}, cwd \in {W, Root},
     f1 \in Good \cup {Absent}, f2 \in Good \cup {Absent}, f3 \in {Absent, Protecting},
     f4 \in Good \cup {Absent, Protecting}, environment \in Good \cup {NoSource}}

OneFile ==
  {Start(ByFile, W, Conf :> f @@ Ini(W) :> Protecting, environment) :
     f \in Good \cup Bad \cup {Absent}, environment \in Good \cup {NoSource}}

Wrong ==
  {Start(Del, W, Ini(W) :> f, NoSource) : f \in Bad}
    \cup {Start(Del, W, Ini(W) :> Protecting, f) : f \in {g \in Bad : g.parses}}
    \cup {Start(Del \o <<Short("X"), <<"a">>>>, W, Ini(W) :> Protecting, NoSource)}

MCInputs == CommandLines \cup Layers \cup OneFile \cup Wrong

\* What encode_uri writes stands for what it was given.
MCEncodeUri(parsed) == <<parsed>>

(***************************************************************************)
(* uris put together from parts, looked at once.                            *)
(***************************************************************************)
\* How a host is written, and what it is.
Hosts ==
  {[written |-> h, is |-> h] :
     h \in {<<"1", Dot, "2">>, <<"a">>, <<"a", "-", "Z", Dot, "1">>}}
    \cup {[written |-> <<"[", Colon, "a", "]">>, is |-> <<Colon, "a">>]}

Tails == {<<>>, <<Slash>>, <<Slash, "a", Colon>>}

SomePorts == {<<>>, <<Colon, "8", "0">>, <<Colon, "6", "5", "5", "3", "6">>, <<Colon>>}

EveryPort == {<<Colon>> \o d : d \in BoundedSeq({"0", "3", "5", "6"}, 6)}

Number(digits) == FoldLeft(LAMBDA n, c : 10 * n + DigitOf(c), 0, digits)

DecodesTo(host, port, path, rest) ==
  Decode(<<"http", Colon, Slash, Slash>> \o host.written \o port \o path \o rest)
    = IF port = <<Colon>> \/ (port # <<>> /\ Number(Tail(port)) > PortMax) THEN NotUri
      ELSE Uri(<<"http">>, host.is, IF port = <<>> THEN <<>> ELSE Tail(port), path)

\* A uri with a host is taken apart into the parts it was put together from, up
\* to the first blank, and refused exactly if its port is missing or above
\* 65535, whatever the number of digits (uri.c:122-175).
UrisDecode ==
  pc = "home" /\ argv = <<>> =>
    /\ \A host \in Hosts, port \in SomePorts, path \in Tails, rest \in {<<>>, <<" ", "a">>} :
         DecodesTo(host, port, path, rest)
    /\ \A host \in Hosts, port \in EveryPort : DecodesTo(host, port, <<Slash>>, <<>>)
=============================================================================
