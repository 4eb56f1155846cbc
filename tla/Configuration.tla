--------------------------- MODULE Configuration ---------------------------
(***************************************************************************)
(* parse_args and resolve_configuration (configuration.c): the command line *)
(* argument by argument, then the configuration source by source, the later *)
(* one over the earlier:                                                    *)
(*                                                                          *)
(*   /etc/zpk.ini, ~/.zpk.ini, .zpk.ini from the root down to the working   *)
(*   directory, or instead of these the file of --config; the environment;  *)
(*   the options                                                            *)
(*                                                                          *)
(* Everything that is wrong ends the process.                               *)
(***************************************************************************)
EXTENDS Uri

CONSTANTS
  EncodeUri(_),   \* encode_uri: declared (uri.h:17), used, and defined nowhere
  Inputs          \* what a process may be started with: argv, home, cwd, the
                  \* configuration files there are, and the environment

\* A file or the environment sets some keys and has extras for some; the values
\* of a key that holds one path are a sequence of one.
WrongType == <<"not a string">>

SinglePaths == {"sysroot", "installed-pkgs-path", "cached-pkgs-path"}
Lists == {"repositories", "protected-paths", "cacert-paths"}
Settings == SinglePaths \cup Lists

NoSource == [parses |-> TRUE, set |-> <<>>, extra |-> <<>>]

VARIABLES
  input,          \* what this process was started with
  pc,
  position,       \* the argument, or the configuration file, it is at
  cli,            \* what parse_args has seen
  config          \* ZpkConfiguration: setting -> values; none is NULL

vars == <<input, pc, position, cli, config>>

argv == input.argv

\* An option that may be missing is a sequence of at most one value.
NoOptions == [root |-> <<>>, config |-> <<>>, output |-> <<>>, extras |-> <<>>,
              simulate |-> <<>>, certificate |-> <<>>,
              kind |-> "none", targets |-> <<>>, listed |-> {}, noMore |-> FALSE]

Init ==
  /\ input \in Inputs
  /\ pc = "home" /\ position = 1
  /\ cli = NoOptions
  /\ config = [s \in Settings |-> <<>>]

Stop(how) == pc' = how /\ UNCHANGED <<input, position, cli, config>>

Refuse == Stop("refused")       \* the command line,
Die == Stop("dead")             \* and a source of the configuration

(***************************************************************************)
(* The command line.                                                        *)
(***************************************************************************)
\* getenv_home_portable copies what getenv returns, NULL when HOME is not set.
FindHome ==
  /\ pc = "home"
  /\ Stop(IF input.home = Null THEN "crashed" ELSE "args")

arg == argv[position]

IsWord(a) == a = <<>> \/ a[1] # "-" \/ Len(a) = 1

AtArg == pc = "args" /\ position <= Len(argv)

AtOption == AtArg /\ ~ cli.noMore /\ ~ IsWord(arg)

Proceed(count, newCli) ==
  /\ cli' = newCli
  /\ position' = position + count
  /\ UNCHANGED <<input, pc, config>>

Commands == {"add", "fetch", "del", "upgrade", "fix", "list", "info"}

Word ==
  /\ AtArg /\ (cli.noMore \/ IsWord(arg))
  /\ IF cli.kind # "none"
       THEN Proceed(1, [cli EXCEPT !.targets = Append(@, arg)])
     ELSE IF \E c \in Commands : arg = <<c>>
       THEN Proceed(1, [cli EXCEPT !.kind = arg[1]])
     ELSE Refuse

Separator == <<"-", "-">>

\* Mutant: it is only skipped.
EndOptionsIgnored == AtOption /\ arg = Separator /\ Proceed(1, cli)

EndOptions == AtOption /\ arg = Separator /\ Proceed(1, [cli EXCEPT !.noMore = TRUE])

Short(o) == <<"-", o>>
Long(o) == <<"-", "-", o>>

Help ==
  /\ AtOption /\ arg \in {Short("h"), Long("help")}
  /\ Stop("help")

\* match_value_flag, match_bool_flag: the name alone, or with "=" and a value
Named(a, names) ==
  \E n \in names : IsPrefix(n, a) /\ (Len(a) > Len(n) => a[Len(n) + 1] = "=")

Inline(a) == SubSeq(a, SelectInSeq(a, LAMBDA c : c = "=") + 1, Len(a))

RootNames == {Short("p"), Long("root")}
RepositoryNames == {Short("X"), Long("repository")}
ConfigNames == {Long("config")}
OutputNames == {Short("o"), Long("output")}
SimulateNames == {Short("s"), Long("simulate")}
CertificateNames == {Long("check-certificate")}

\* -X adds a repository, any other option replaces what came before it.
Given(field, v) ==
  [cli EXCEPT ![field] = IF field = "extras" THEN Append(@, v) ELSE <<v>>]

ValueOption(names, field) ==
  /\ AtOption /\ Named(arg, names)
  /\ IF arg \notin names THEN Proceed(1, Given(field, Inline(arg)))
     ELSE IF position = Len(argv) THEN Refuse
     ELSE Proceed(2, Given(field, argv[position + 1]))

BoolOption(names, field) ==
  /\ AtOption /\ Named(arg, names)
  /\ IF arg \in names \/ Inline(arg) = <<"yes">> THEN Proceed(1, Given(field, TRUE))
     ELSE IF Inline(arg) = <<"no">> THEN Proceed(1, Given(field, FALSE))
     ELSE Refuse

ConfigurationOption ==
  \/ ValueOption(RootNames, "root")
  \/ ValueOption(RepositoryNames, "extras")
  \/ ValueOption(ConfigNames, "config")
  \/ BoolOption(SimulateNames, "simulate")
  \/ BoolOption(CertificateNames, "certificate")

IsVerbose(a) == a = Long("verbose") \/ Range(Tail(a)) = {"v"}

Verbose == AtOption /\ IsVerbose(arg) /\ Proceed(1, cli)

\* The options of one command, once it is known.
Output ==
  /\ cli.kind = "fetch"
  /\ ValueOption(OutputNames, "output")

Flags(kind) ==
  CASE kind = "list" -> ("I" :> "installed" @@ "u" :> "upgradable"
                          @@ "a" :> "available" @@ "O" :> "orphaned")
    [] kind = "info" -> "W" :> "who-owns"
    [] OTHER         -> <<>>

Flag ==
  /\ AtOption
  /\ \E o \in DOMAIN Flags(cli.kind) :
       /\ arg \in {Short(o), Long(Flags(cli.kind)[o])}
       /\ Proceed(1, [cli EXCEPT !.listed = @ \cup {Flags(cli.kind)[o]}])

Unrecognized ==
  /\ AtOption
  /\ arg \notin {Separator, Short("h"), Long("help")} /\ ~ IsVerbose(arg)
  /\ ~ Named(arg, RootNames \cup RepositoryNames \cup ConfigNames \cup SimulateNames
                    \cup CertificateNames)
  /\ ~ (cli.kind = "fetch" /\ Named(arg, OutputNames))
  /\ \A o \in DOMAIN Flags(cli.kind) : arg \notin {Short(o), Long(Flags(cli.kind)[o])}
  /\ Refuse

\* "args are fully validated; only now touch the filesystem"
Acceptable ==
  CASE cli.kind = "none"                   -> FALSE
    [] cli.kind \in {"add", "del", "fetch"} -> cli.targets # <<>>
    [] cli.kind = "info" -> "who-owns" \in cli.listed /\ Len(cli.targets) = 1
    [] cli.kind = "list" -> cli.targets = <<>>
    [] OTHER             -> TRUE

Validate ==
  /\ pc = "args" /\ position > Len(argv)
  /\ IF Acceptable THEN pc' = "files" /\ position' = 1 /\ UNCHANGED <<input, cli, config>>
     ELSE Refuse

(***************************************************************************)
(* Values.  Null stands for a value that ends the process.                  *)
(***************************************************************************)
ExpandsTilde(s) == s = <<"~">> \/ (Len(s) > 1 /\ s[1] = "~" /\ s[2] = Slash)

AbsPath(name) ==
  CleanPath(IF IsAbsolute(name) THEN name ELSE input.cwd \o <<Slash>> \o name)

\* The values of a file and of the environment have their tilde expanded, those
\* of options have not: the shell has done that.
ResolvePath(dir, s, expandTilde) ==
  IF expandTilde /\ s = <<>> THEN Null
  ELSE AbsPath(IF expandTilde /\ ExpandsTilde(s) THEN JoinPathSlice(input.home, Tail(s))
               ELSE IF IsAbsolute(s) THEN s
               ELSE JoinPathSlice(dir, s))

\* Encoded again with another path; Null when that is fatal.
WithPath(parsed, path) ==
  IF path = Null THEN Null ELSE EncodeUri([parsed EXCEPT !.path = path])

ResolveParsed(parsed, dir, s, expandTilde) ==
  IF parsed = NotUri THEN Null
  ELSE IF parsed.scheme # <<"file">> THEN s
  ELSE WithPath(parsed, ResolvePath(dir, parsed.path, expandTilde))

ResolvePathUri(dir, s, expandTilde) == ResolveParsed(Decode(s), dir, s, expandTilde)

ProtectedPath(rule) == IF Len(rule) > 1 /\ rule[1] = "+" THEN rule ELSE Null

Value(setting, dir, s) ==
  CASE s = WrongType               -> Null
    [] setting = "repositories"    -> ResolvePathUri(dir, s, TRUE)
    [] setting = "protected-paths" -> ProtectedPath(s)
    [] OTHER                       -> ResolvePath(dir, s, TRUE)

ValuesIn(assigned, setting, dir) ==
  IF setting \in DOMAIN assigned
    THEN [i \in DOMAIN assigned[setting] |-> Value(setting, dir, assigned[setting][i])]
    ELSE <<>>

\* Mutant: the extras are not looked at.
IsFatalIfSet(source, dir) ==
  \/ ~ source.parses
  \/ \E s \in Settings : Null \in Range(ValuesIn(source.set, s, dir))

IsFatal(source, dir) ==
  \/ ~ source.parses
  \/ \E s \in Settings : Null \in Range(ValuesIn(source.set, s, dir))
                                    \cup Range(ValuesIn(source.extra, s, dir))

\* Mutant: a list that is set does not replace the one that is there.
KeptAlways(source, setting) == config[setting]

\* What a source leaves of a setting.
KeptBy(source, setting) ==
  IF setting \in DOMAIN source.set THEN <<>> ELSE config[setting]

Apply(source, dir) ==
  config' = [s \in Settings |-> KeptBy(source, s) \o ValuesIn(source.set, s, dir)
                                                  \o ValuesIn(source.extra, s, dir)]

(***************************************************************************)
(* The sources.                                                             *)
(***************************************************************************)
IniName == ".zpk.ini"
SystemConfig == <<Slash, "etc", Slash, "zpk.ini">>
UserConfig == input.home \o <<Slash, IniName>>

\* The prefixes of the working directory that end before a slash, and itself.
Walk ==
  LET cuts == {i \in DOMAIN input.cwd : input.cwd[i] = Slash}
      ends == {i - 1 : i \in cuts}
                \cup IF Last(input.cwd) = Slash THEN {} ELSE {Len(input.cwd)}
  IN [k \in 1..Cardinality(ends) |->
        SubSeq(input.cwd, 1, SetToSortSeq(ends, <)[k]) \o <<Slash, IniName>>]

Candidates ==
  IF cli.config # <<>> THEN cli.config ELSE <<SystemConfig, UserConfig>> \o Walk

ConfigDir(path) ==
  IF LastSlash(path) = 0 THEN input.cwd ELSE SubSeq(path, 1, LastSlash(path) - 1)

\* maybe_apply_config_file: only the file of --config has to be there.
ApplyFile ==
  /\ pc = "files" /\ position <= Len(Candidates)
  /\ LET path == Candidates[position] IN
       IF path \notin DOMAIN input.files
         THEN IF cli.config # <<>> THEN Die
              ELSE position' = position + 1 /\ UNCHANGED <<input, pc, cli, config>>
       ELSE IF IsFatal(input.files[path], ConfigDir(path)) THEN Die
       ELSE /\ Apply(input.files[path], ConfigDir(path))
            /\ position' = position + 1
            /\ UNCHANGED <<input, pc, cli>>

\* strtok returns no empty piece of a list.
Environment ==
  LET Pieces(assigned) ==
        [s \in DOMAIN assigned |->
           IF s \in Lists THEN SelectSeq(assigned[s], LAMBDA v : v # <<>>) ELSE assigned[s]]
  IN [input.environment EXCEPT !.set = Pieces(@), !.extra = Pieces(@)]

ApplyEnvironment ==
  /\ pc = "files" /\ position > Len(Candidates)
  /\ IF IsFatal(Environment, input.cwd) THEN Die
     ELSE /\ Apply(Environment, input.cwd)
          /\ pc' = "options"
          /\ UNCHANGED <<input, position, cli>>

Root == <<Slash>>

Default(sysroot, setting, name) ==
  IF config[setting] # <<>> THEN config[setting] ELSE <<JoinPathSlice(sysroot, <<name>>)>>

ApplyOptions ==
  LET sysroot ==
        IF cli.root # <<>> THEN ResolvePath(input.cwd, cli.root[1], FALSE)
        ELSE (config["sysroot"] \o <<Root>>)[1]
      extras == [i \in DOMAIN cli.extras |-> ResolvePathUri(input.cwd, cli.extras[i], FALSE)]
  IN
  /\ pc = "options"
  /\ IF Null \in Range(extras) THEN Die
     ELSE /\ config' = [config EXCEPT
               !["sysroot"] = <<sysroot>>,
               !["installed-pkgs-path"] = Default(sysroot, "installed-pkgs-path", "pkg"),
               !["cached-pkgs-path"] = Default(sysroot, "cached-pkgs-path", "pkgcache"),
               !["repositories"] = @ \o extras]
          /\ pc' = "ready"
          /\ UNCHANGED <<input, position, cli>>

Next ==
  \/ FindHome \/ Word \/ EndOptions \/ Help \/ ConfigurationOption \/ Verbose
  \/ Output \/ Flag \/ Unrecognized \/ Validate
  \/ ApplyFile \/ ApplyEnvironment \/ ApplyOptions

Spec == Init /\ [][Next]_vars

(***************************************************************************)
(* Properties.                                                              *)
(***************************************************************************)
TypeOK ==
  /\ pc \in {"home", "args", "files", "options", "ready",
              "help", "refused", "dead", "crashed"}
  /\ position \in 1..(Len(argv) + Len(input.cwd) + 4)
  /\ cli.kind \in Commands \cup {"none"}
  /\ Len(cli.root) <= 1 /\ Len(cli.config) <= 1 /\ Len(cli.output) <= 1
  /\ DOMAIN config = Settings
  /\ \A s \in SinglePaths : Len(config[s]) <= 1
  /\ \A s \in Settings : Null \notin Range(config[s])

\* The command is the first word and its targets are all the words after it, in
\* order, wherever options stand between them: the value of an option is no
\* word, whatever it looks like, and all that follows "--" is (configuration.c
\* :726-790, "usage: zpk [options] <command> [args]").
TakesNext(a) ==
  a \in RootNames \cup RepositoryNames \cup ConfigNames
         \cup IF cli.kind = "fetch" THEN OutputNames ELSE {}

IsOptionValue[i \in 1..Len(argv)] ==
  i > 1 /\ ~ IsOptionValue[i - 1] /\ TakesNext(argv[i - 1])
    /\ \A j \in 1..(i - 2) : argv[j] = Separator => IsOptionValue[j]

Ends(i) == argv[i] = Separator /\ ~ IsOptionValue[i]

IsOneOfTheWords(i) ==
  /\ ~ IsOptionValue[i]
  /\ IsWord(argv[i]) \/ \E j \in 1..(i - 1) : Ends(j)

WordPositions == SetToSortSeq({i \in DOMAIN argv : IsOneOfTheWords(i)}, <)

WordsInOrder ==
  pc \in {"files", "options", "ready"} =>
    <<<<cli.kind>>>> \o cli.targets
      = [k \in DOMAIN WordPositions |-> argv[WordPositions[k]]]

(***************************************************************************)
(* Each setting is that of the highest source that sets it, with the extras *)
(* of that one and of the higher ones behind it, and the package            *)
(* directories, when nobody sets them, are below the sysroot that was chosen *)
(* last (configuration.c:468-549).  The environment is above the file of    *)
(* --config, which ConfigOptionWins is about.                               *)
(***************************************************************************)
Below(path) == Append(SubSeq(path, 1, LastSlash(path) - 1), Slash)

Walked ==
  {path \in DOMAIN input.files :
     Last(path) = IniName /\ IsPrefix(Below(path), Append(input.cwd, Slash))}

FilesApplied ==
  IF cli.config # <<>> THEN cli.config
  ELSE SelectSeq(<<SystemConfig, UserConfig>>, LAMBDA path : path \in DOMAIN input.files)
         \o SetToSortSeq(Walked, LAMBDA p, q : Len(p) < Len(q))

Sources ==
  [k \in DOMAIN FilesApplied |->
     [from |-> input.files[FilesApplied[k]], dir |-> ConfigDir(FilesApplied[k])]]
    \o <<[from |-> Environment, dir |-> input.cwd]>>

Configured(setting) ==
  LET n == Len(Sources)
      first == SelectLastInSeq(Sources, LAMBDA source : setting \in DOMAIN source.from.set)
      Extras(from) ==
        FlattenSeq([k \in 1..(n - from + 1) |->
          ValuesIn(Sources[from + k - 1].from.extra, setting, Sources[from + k - 1].dir)])
  IN IF first = 0 THEN Extras(1)
     ELSE ValuesIn(Sources[first].from.set, setting, Sources[first].dir) \o Extras(first)

FinalSysroot ==
  IF cli.root # <<>> THEN ResolvePath(input.cwd, cli.root[1], FALSE)
  ELSE (Configured("sysroot") \o <<Root>>)[1]

HighestSourceWins ==
  pc = "ready" =>
    /\ config["sysroot"] = <<FinalSysroot>>
    /\ config["installed-pkgs-path"]
         = <<(Configured("installed-pkgs-path") \o <<JoinPathSlice(FinalSysroot, <<"pkg">>)>>)[1]>>
    /\ config["cached-pkgs-path"]
         = <<(Configured("cached-pkgs-path") \o <<JoinPathSlice(FinalSysroot, <<"pkgcache">>)>>)[1]>>
    /\ config["protected-paths"] = Configured("protected-paths")
    /\ config["cacert-paths"] = Configured("cacert-paths")
    /\ config["repositories"] = Configured("repositories")
         \o [i \in DOMAIN cli.extras |-> ResolvePathUri(input.cwd, cli.extras[i], FALSE)]

\* "command-line options (-p/--root, -X/--repository, --config)" are above
\* "environment variables" (configuration.h:76-80): what the file of --config
\* sets is what is used, but for a sysroot that --root gives.
ConfigOptionWins ==
  pc = "ready" =>
    \A path \in Range(cli.config) :
      LET file == input.files[path] IN
      \A s \in DOMAIN file.set :
        \/ s = "sysroot" /\ cli.root # <<>>
        \/ IsPrefix(ValuesIn(file.set, s, ConfigDir(path)), config[s])
=============================================================================
