# zpk in TLA+

A model of zpk, the zip-based package manager of this repository: TLA+ modules
translated from the C source, TLC runs over small instances, and TLAPS proofs
for instances of any size. Source paths below are relative to the repository
root.

    tlc -config Fix.cfg MCTransaction.tla      # a run, see "Runs"
    tlapm TransactionProofs.tla                # proofs, see "What is proved"

## The system

A zpk process reads its configuration, carries out one command and exits. It
keeps no database: the state of a system is the tree below the *sysroot*, plus
the directory of *installed* packages, one zip for each. Everything else is
computed from the zips' central directories each time.

    main.c      del, fix, list, add, ...   one command of one process
      |- configuration.c  the command line, .zpk.ini files, the environment
      |     '- pathutils.c, uri.c
      |- repository.c   names -> newest zips: in the installed directory, or in
      |     |           the configured repositories (file:, http:, https:)
      |     |- read_trust_anchor.c   the certificates servers are checked with
      |     '- http_client.c -> transport.c -> tcpcompatlayer.c
      |- index.c        zips -> claims -> FileIndex: who claims a path, and the
      |                 simulated status of each path looked at
      |- fsops.c        plans file system operations into a list, simulating
      |                 each in the index; then executes the list
      '- oscompatlayer.c   the calls of the operating system

| Component | State it keeps | Operations | What is hard | What makes it correct |
|---|---|---|---|---|
| file system layer (`platsrc/posix/oscompatlayer.c`) | the tree | mkdir, rmdir, rename, remove, extract, stat | calls fail, and the failure is only logged | (environment of the others) |
| claims (`src/index.c`, `fileclaims_collect`) | path -> claim | one insertion per parent directory and per entry | entries in any order, files where others need directories | the claims form a tree; a file is the first entry's that could have it; nothing is claimed for an entry that is left out |
| file index (`src/index.c`) | path -> package -> claim; path -> status | build, merge, remove, ensure_actual | a status is read once and simulated afterwards: it goes stale | it says what is on disk, or will be |
| transactions (`src/main.c`, `src/fsops.c`) | index, planned operations, flags | plan each target, gate, execute | crash at any step, operations that fail, packages that share paths, plans that see each other only through the index | del and fix take nothing from other packages or the user; fix repairs; a refusal touches nothing; what is removed leaves nothing; commands end |
| resolution (`src/repository.c`) | package -> entry, version, repository, path | list, consider an entry, filter, join | any order of entries, several repositories | the newest version, of the zip it belongs to; not found only if it is not there |
| trust anchors (`src/read_trust_anchor.c`) | anchors, the object being collected | open a file, take a line, append a certificate | lengths with bytes of their own, several objects in a file, a last line that does not end | the anchors are the certificates of the files, in order; a file is refused for what it is |
| list, add (`src/main.c`) | two maps of resolved packages | resolve twice, join, filter by flags | two resolutions made apart | what is printed is what the flags describe |
| HTTP head (`src/http_client.c`) | buffer, parsed headers | receive, status line, header, choose framing | received in any pieces, bounded buffer, wrong or doubled headers | the framing the headers give; the body starts where they end |
| HTTP body (`src/http_client.c`) | chunk parser, counters | receive, parse, deliver | received in any pieces, cut off, sizes that overflow | all of the body, in order, or an error |
| configuration (`src/configuration.c`) | the options seen, the settings | one argument; one file, the environment, the options | words and options in any order; layers that replace or append, paths relative to where they were read | what ranks highest is used; words keep their order |
| URIs (`src/uri.c`) | none | decode | ports of any length, hosts in three forms | the parts it was put together from |
| path names (`src/pathutils.c`, `oscompatlayer.c`) | none | normalize, clean, join | `..`, `.`, repeated slashes at either end | equal to a definition by components |
| info, fetch, upgrade (`src/main.c`) | none | info looks a path up in the index; fetch and upgrade return | | |

Sequential code runs each command; what interleaves with it is another zpk
process on the same tree, which nothing locks out, the end of the process, calls
that fail, what an earlier command left behind, the order in which directories,
zips and servers present their entries, and the cutting of a byte stream into
pieces. `PROJECT.json` lists the hazards with their lines.

## Modules

**FileTree** - the tree. A path is the sequence of its names below the sysroot,
a node is missing, a directory or a file known by its crc32, all zpk compares.
`MakeDir`, `RemoveDir`, `RemovePath`, `Rename`, `WriteFile` take a tree to the
tree after the call; a call that cannot succeed returns the tree as it was.

**PackageIndex** (extends FileTree) - `FileIndex`. `Claims[p]` is what
`fileclaims_collect` returns for the zip of `p`; since it never changes while
zpk runs, the two maps of the index that hold packages and claims are known from
the *set* of packages merged (`ContainsPackage`, `MergeClaims`, `RemoveClaims`).
`EnsureActual` reads a path once and returns the simulated status from then on;
`IsMatch`, `MatchesUs`, `MatchesOther` are `compute_match_status`.

**Transaction** (extends PackageIndex) - processes that run `del` and `fix`, one
after the other, on a disk that outlives them. One action per step of the code:

| action | code |
|---|---|
| `Start`, `BuildIndex`, `PrepareSysroot`, `SysrootUnreadable` | `do_del`, `do_fix` up to the loop; `fileindex_build`; `fsops_emit_mkdir_p` |
| `RefusePackage`, `BeginPackage` | the start of `fsops_emit_install_package` / `..._uninstall_package` |
| `InstallMissing`, `InstallKept`, `InstallConflict`, `InstallDivert`, `InstallDivertFails` | one claim of an install: the branches of fsops.c:605-674, with `fsops_emit_rm_rf`, `..._mv`, `..._install` within them |
| `Uninstall`, `UninstallLeaves` | one claim of an uninstall, fsops.c:758-806 |
| `FinishInstall`, `FinishUninstall` | the end of the two functions, and do_del's move of the zip |
| `Gate` | `should_proceed` |
| `ExecuteOp`, `OpFails`, `FreedPathFails`, `FreedPathAborts`, `FinishExecution` | one turn of `execute_fsops` |
| `Exit`, `Crash` | the end of the process |

`start`, `failed` and `left` are history: the disk when the command was issued,
what has failed since, and what the bounds leave.

**MCTransaction** - the instances: packages `a` and `b` share a directory and a
file, `c` claims another content for that file, `e` claims the directory's path
as a file, `b2` shares all it has with `a`.

**TwoProcesses / MCTwoProcesses** (extends Transaction) - two processes on one tree.
The second one is an instance of Transaction that shares `disk` and `installed`
and has a memory of its own (`pc2`, `index2`, `fsops2`, ...); a step of the pair
is a step of either. `first`, `named` and `overlapped` are history.

**FileClaims / MCFileClaims** (extends FileTree) - `fileclaims_collect` over a zip
that is chosen entry by entry: `ReadEntry`, then `ClaimParent` or
`ParentConflict` for each directory on the way, then `ClaimEntry`. What
Transaction assumes of `Claims` (`ClaimsAssumption`) is what `ClaimsAreTree`
shows here.

**PathNames / MCPathNames** - `normalize` and `cleanpath` as folds over the symbols
and components of a name, `joinpath`, `basename_m`. MCPathNames defines the same
by components; MCFileClaims compares the two.

**Uri** (extends PathNames) - `decode_uri`: scheme, authority, host in its three
forms, port, path.

**Configuration / MCConfiguration** (extends Uri) - `parse_args`, an action for each
case of its loop (`Word`, `EndOptions`, `Help`, `ConfigurationOption`, `Verbose`,
`Output`, `Flag`, `Unrecognized`, then `Validate`), and `resolve_configuration`:
the candidates are found, each is applied (`ApplyFile`), then the environment
(`ApplyEnvironment`) and the options (`ApplyOptions`). `cli` is what parse_args
has seen, `config` the ZpkConfiguration.

**Repository** - the resolver: the listing of the repositories one after the
other (`Listed`, `ListingHangs`, `ListingFails`), `resolve_newest_packages`
entry by entry (`Consider`), `Filter`, and what the callers do next
(`JoinPaths`, `Download`, `ReturnAvailable`).

**TrustAnchors** - `read_trust_anchors` and the loop over the certificate files:
`ReadDer` for a file that is one certificate; `OpenPem`, `BeginObject`, `Data`,
`EndObject`, `EndRefused`, `PassOver`, `PemError`, `ExtraNewline`, `EndOfPem` for one
of PEM objects, a line at a time; `Missing`, `Unreadable`, `OutOfMemory`.

**Lookup / MCLookup** (extends Repository, instantiates TrustAnchors) - main.c's use
of both. `add` and the second half of `list` read the certificates and then
resolve; `del`, `fix` and the first half of `list` resolve only. `PrintInstalled`
and `PrintList` are the end of `do_list`, `AddDies` is where `do_add` stops,
`Change` is where Transaction goes on.

**HttpWire** - what head and body share: the response, the parsed headers, the
bytes still on the wire, and how the connection ends.

**HttpHeaders** (extends HttpWire, HttpFraming) - `http_client_get` up to the choice
of the body's framing. Characters are symbols; a header name, a coding, the
version and a status code are one symbol each.

**HttpFraming** - what headers mean, as predicates on whole lines: the reference the
head is checked against.

**HttpBody** (extends HttpWire) - the body in its three framings. `SizeDigit` ...
`AfterBody` are the cases of `parse_chunk`, a byte at a time; `ChunkedReceive`,
`BodyReceive` cut the stream as they like.

**BodyStream** - what the callers expect of a body: a growing prefix of the data,
and success only with all of it. HttpBody implements it under the mapping
`Stream` (every error maps to `error`).

**HttpGet / MCHttpGet** (extends HttpBody, instantiates HttpHeaders) - the whole of
`http_client_get`: `HeadStep` until the framing is known, `BodyBegins` hands what
was read beyond the empty line over, `BodyStep` reads the body. `Promised` is
checked of this composition, from the first byte of the response on.
`PlainBodyMeant` says the same of a body that is not in chunks without reference to
what the response is made of: what follows its first empty line is what is
delivered. That makes it provable for every response.

**FileTreeProofs** - lemmas about trees and paths that the proofs below share.
**TransactionProofs** - types, what `del` and `fix` spare, when `fix` refuses and when
it has nothing to do; **OrphanProofs** (extends it) - what a removed package leaves, alone
and while another process removes things;
**RepairProofs** (extends OrphanProofs) - what a `fix` leads to;
**TwoProcessesProofs** (extends OrphanProofs) - two processes; **FileClaimsProofs**;
**HttpGetProofs** - head, body and their composition; **RepositoryProofs** (extends
Lookup) - the resolver, alone and as the commands use it.

## Runs

| run | module | instance | shows |
|---|---|---|---|
| `Fix` | MCTransaction | packages a, c, e; disks with something of any kind where it installs and where it saves; two commands, one failed read, one failed write, one crash | `DelSparesOthers`, `NoOrphans`, `FixSparesOthers`, `FixRepairsOne`, `UserFilesKept`, `ConflictRefusesAll`, `FixIsIdempotent`, `TypeOK` |
| `TwoProcesses` | MCTwoProcesses | packages a, b, e; two processes with one command each, naming two packages together, one crash | `BystandersKept`, `OrphansAreShared`, `Termination` |
| `FileClaims` | MCFileClaims | zips of up to four entries over five paths; names of up to six symbols | `ClaimsAreTree`, `NoStrayDirectories`, `LeftOutForAnother`, `FirstEntryWins`, `NormalizesByComponents`, `CleansByComponents`, `TypeOK` |
| `HttpGet` | MCHttpGet | heads of up to two headers, bodies of up to two chunks; buffers of 18 and of 3, numbers of 4 bits | `FramingMeant`, `BodyFollowsHead`, `GoodNeverRefused`, `ChunkSizeExact`, `WholeNeverRefused`, `PlainBodyMeant`, `Promised` (refinement), `HeadTypeOK`, `TypeOK` |
| `Resolve` | MCLookup | none to two repositories, two packages, two versions; ten thousand certificate files, and three files in a row | `ResolvesNewest`, `ResolvesAsked`, `ListMeant`, `TrustedAsMeant`, `RefusedForCause`, `TypeOK` |
| `Configuration` | MCConfiguration | command lines of up to three arguments, and of up to five of some; files in four places, the environment, a --config file | `HighestSourceWins`, `WordsInOrder`, `UrisDecode`, `TypeOK` |
| `FixAll` | MCTransaction | packages a, b2, one command, no directory where they save, nothing fails | violates `FixRepairs` |
| `FixUnreadable` | MCTransaction | packages a, c, e, one failed read | violates `FixTakesFromNoOther` |
| `FixFreed` | MCTransaction | packages a, c, e, one command, nothing fails | violates `UserFilesSaved` |
| `DelFails` | MCTransaction | packages a, b, c, one failed write | violates `RemovedLeavesNothing` |
| `ResolveTwo` | Repository | two repositories | violates `NotFoundIsTrue` |
| `ConfigOption` | MCConfiguration | a --config file, good, wrong or absent, with and without the environment | violates `ConfigOptionWins` |

Why the bounds are enough. Two commands are the first number at which a command
starts from what another one, finished or crashed, left behind. Packages meet in
three ways: they share a path with the same content, they claim a path with
different contents, one needs a directory where the other has a file; the
packages of the instances do all of them. The disks hold, at each path that
matters, nothing, the packages' own content, the other package's, the user's,
and a directory. Two processes that name two packages together leave a third as
the bystander. No read and no write fails in that instance, so the premises of its
two invariants hold throughout; the theorems cover instances with failures. A zip of
four entries holds two conflicts, or a conflict and a repetition; six symbols hold two `..` and what is around them. A size of four
bits overflows with its second digit, so `00f`, `ff` and longer are all seen; a
buffer of three bytes ends within the size, within CR LF and within the data.
Two headers are what it takes to state the framing twice, and a buffer of 18 is
filled by them to its last byte and beyond. With two versions in a directory and
two repositories the newest comes first and last, in the same repository or the
other; three versions are in `ResolveTwo`. With bytes below 8
and a size_t of two of them, lengths of one, two and three bytes of their own
are short, long, not minimal and too large; three certificate files hold a good
one before and after a bad one. Ports of up to six digits pass 65535.

CHECK_DEADLOCK is off because the processes end: no command is left to issue, a
zip has been read, a response or a resolution has been returned, the
configuration is complete or was refused.

### Violations

The six runs that are expected to fail show where the code differs from what
its own text says; `PROJECT.json` quotes the lines under "findings".

- `FixAll`: the status `fsops_emit_mkdir` simulates is not that of a directory
  (fsops.c:248), so the second of two packages to be fixed diverts the directory
  the first has just planned.
- `FixUnreadable`: do_fix ignores that the index could not be built (main.c:213,
  index.c:258), or lacks a zip that could not be opened (index.c:270). In the run's
  trace the index is empty, and a fix of one package renames a directory of another
  installed one away. A path that cannot be read is taken for missing
  (fsops.c:605), with the same end.
- `FixFreed`: the directory that is in the way at `.zpksave` is removed by way of a
  freed path (fsops.c:488). The rmdir fails, and so does the rename onto the directory
  that stayed; both failures are only logged, and the extraction overwrites the
  user's file that was to be saved. Nothing has failed by itself (`failed = {}`).
- `DelFails`: after a removal that failed, the zip is moved all the same
  (fsops.c:108): the file has no package any more.
- `ResolveTwo`: each repository listed empties the first one's entries
  (repository.c:519).
- `ConfigOption`: the environment is applied over the file of `--config`
  (configuration.c:512), which configuration.h:76-80 ranks above it.

`FixRepairsOne`, `FixSparesOthers`, `UserFilesKept` and `NoOrphans` are what does hold
in their place: of one package at a time, when all reads succeed, when no directory is
where the package saves, when nothing fails. `HighestSourceWins` is stated of the
order the code has.

What two processes do to each other is not promised anywhere, so no run calls it
a violation. `BystandersKept` and `OrphansAreShared` are what holds. What does
not: two `del`s at once of packages that share a path may both leave it, each
taking the other's package for one that stays; a `del` and a `fix` of the same
package leave files nobody owns; two `fix`es of one path may replace the copy
the first one saved.

## Fairness

`FairSpec` is `Spec` with weak fairness of `Run`, the steps a started process
takes by itself; `PairSpec` has it for each of the two processes, whatever the
other does. `Start` and `Crash` are not fair. A process is sequential code
without waits on others, no lock among them: the operating system keeps running
it. `Termination` follows if every step brings it closer to its end, which is
what is checked, for two processes on one tree.
The resolver's loop in a vector that was not initialised (`ListingHangs`) is in
Repository, which states no liveness; Transaction takes the resolution of the
installed packages, which lists one directory, as one step. The network modules
state safety only: no receive has a timeout, so nothing makes a server answer.
Reading certificates, arguments and configuration files is a loop over a list
that is given; no liveness is stated of it.

## What is proved

TLAPS proves, for every value of the constants that meets the named assumptions:

| theorem | property | argument |
|---|---|---|
| `TransactionProofs!TypeCorrect` | `TypeOK` | inductive as it stands, with lemmas on what each operator of FileTree and PackageIndex returns |
| `TransactionProofs!DelSparesOthersCorrect` | `DelSparesOthers` | `DelInv`, below |
| `TransactionProofs!FixSparesOthersCorrect` | `FixSparesOthers` | `FixInv` and `IndexIsWhole` of `ConflictInv`, below |
| `TransactionProofs!ConflictRefusesAllCorrect` | `ConflictRefusesAll` | `ConflictInv`, below |
| `TransactionProofs!FixIsIdempotentCorrect` | `FixIsIdempotent` | `IdleInv`: while everything asked for is on disk, every status simulated so far is that of the disk, so each claim matches and plans nothing |
| `OrphanProofs!NoOrphansCorrect` | `NoOrphans` | `OrphanInv`, below |
| `RepairProofs!FixRepairsOneCorrect`, `UserFilesKeptCorrect` | `FixRepairsOne`, `UserFilesKept` | `RepairInv`, below |
| `TwoProcessesProofs!BystandersKeptCorrect` | `BystandersKept` | the invariants of `del` and `fix` for each process, below |
| `TwoProcessesProofs!OrphansAreSharedCorrect` | `OrphansAreShared` | `SharedInv`: what each process owes the claims that only one package has, and `OrphanInv`'s terms until the two first overlap, below |
| `FileClaimsProofs!ClaimsTypeCorrect` | `TypeOK` | inductive with `ClaimsAreTree` |
| `FileClaimsProofs!ClaimsAreTreeCorrect` | `ClaimsAreTree` | needs `ParentsClaimed`: the part of the current entry's path dealt with is claimed as directories |
| `FileClaimsProofs!FirstEntryWinsCorrect` | `FirstEntryWins` | `FirstInv`, below |
| `FileClaimsProofs!NoStrayDirectoriesCorrect`, `LeftOutForAnotherCorrect` | `NoStrayDirectories`, `LeftOutForAnother` | `EntriesInv`: what is claimed on behalf of the entry in progress is owed to it, and an entry that stops has met a claim that contradicts it |
| `HttpGetProofs!HeadTypeCorrect` | `HeadTypeOK` | `GetInv`: the head stays within its buffer, `off` within what was read, the length within a uint64_t |
| `HttpGetProofs!BodyTypeCorrect`, `GetChunkSizeExact` | `TypeOK`, `ChunkSizeExact` | `ParserInv`, which each step of the parser keeps, whatever it was handed (`ParserTypeCorrect`, `ChunkSizeExactCorrect` say so of HttpBody alone); lemma `NoWrap`: a size not above (SIZE_MAX - digit) / 16 stays within SIZE_MAX with one more digit |
| `HttpGetProofs!PlainBodyMeantCorrect` | `PlainBodyMeant` | `BodyInv`, below |
| `RepositoryProofs!ResolverTypeCorrect` | `TypeOK` | inductive with `NoneForgotten` |
| `RepositoryProofs!ResolvesNewestCorrect` | `ResolvesNewest` | needs `NoneForgotten`: until the filter, every name gone through is resolved, so that no version is lost before it could be compared |
| `RepositoryProofs!ResolvesAskedCorrect` | `ResolvesAsked` | `AskedInv`: also `GoneThrough`, where the resolver stands in what a single repository holds, and `Answered`, what it has kept once it is past the filter |
| `RepositoryProofs!EachLookupResolves` | the three above | a lookup starts as the resolver does and takes its steps, so `AskedInv` holds of every lookup of every command, the second one of `list` included |
| `RepositoryProofs!ListMeantCorrect` | `ListMeant` | `LookupInv`: an installed lookup has listed all of its directory (`DirectoryListed`), and what is kept of it through the second lookup is the newest version of each of its packages (`FirstKept`) |

`DelSparesOthers` is not inductive: it speaks of the disk, and the disk changes
by operations planned earlier, when the index was another one. `DelInv` adds that
nothing is planned before a package is chosen (`NothingPlanned`), and that while
`del` plans or executes (`DelPlan`) no planned operation touches what a package
still in the index had on disk when the command was issued. A claim keeps this
when it is planned, because what another package of the index matches is left,
and the index can only lose packages afterwards; executing keeps it because
`rmdir` and `remove` change only the path they are given, and a crash or a failed
call changes no more than the call would have.

`fix` writes, renames and removes whole directories, so `FixInv` has more to say. It
holds the set of paths that others have on disk (`Held`, less the saved copies), that
nothing on it has changed so far, and that no planned operation will change it
(`SparesHeld`): an extraction is planned only at a path that is not held, an
operation of `rm_rf` only at a saved copy or below it, and a rename only from a
path at or below which nothing is held. The last is why the claims of a package
have to form a tree and why every node has to lie in a directory
(`TreesWellFormed`): a file of another package below a path that is moved would make
the path a directory that package claims, and so a path that matches another and
is left. The statuses the plan simulates agree with the disk where it matters,
since an operation simulates only the path it is planned for. `FixSparesOthers` speaks
of what is installed, whether it was indexed or not; that as long as no read fails
nothing installed is missing from the index, or else nothing was changed, is
`IndexIsWhole`, a part of `ConflictInv`.

`ConflictInv` says of a path at which one target clashes with a package that is not
named: before the plan has come to it, it is still to come (`WillRefuse`), and its
status has not been simulated in the meantime by what was planned at other paths;
once it has come to it, `shouldProceed` is false and stays so. Nothing is executed
before all of it is planned, so nothing is changed either way.

`NoOrphans` speaks of the packages whose zips are gone, and is kept by what is
planned for those whose zips will go. `OrphanInv` says of each zip a plan of `del`
moves, and each claim of its package (`AllCome`, over `Comes`): by then what is there
will be gone, because a removal of it comes first and nothing below it is removed
later - the order of strcmp, in which the claims are visited from the last - or
another package has it that stays installed so long and whose claim no removal before
touches, or it is a directory that stays in use. While `del` plans, the index is all
that is installed, and what the plan has simulated away was nobody's but the current
package's (`DelPlanning`); that is why an absent status can be taken for an absent
file. A `rmdir` of another package may empty a directory a removed package has left:
then the package it is planned for claims it too and is still installed, for its zip
moves after its removals (`Owned`). `fix` empties directories as well, when it clears
a `.zpksave` name or diverts what is in its way, but only above a claim of an
installed package, which is a claim of that package (`FixOp`, `Covered`). All of it is
about runs in which no read and no write has failed: `DelFails` shows what is left
otherwise.

`FixRepairsOne` speaks of the end of a command and of no step before it, and
`UserFilesKept` of every step. `RepairInv` reads the plan for both: `Leads(K, t, ops, s)`
says that executing `ops` from `t` makes `s` of it and goes over trees of `K` only. While
one package is planned and nothing has failed, what is planned so far leads from the
disk, over trees that keep the user's files (`Keeping`), to a tree that has every claim
visited so far, and at a claim still to visit what the disk has (`Simulated`), which is
why its status, if it is known, is still true (`Settled`). The claims are visited parents
first, so each visit adds to the run at its end: nothing; an operation that makes what is
missing in a directory that is there; or a run that clears the `.zpksave` name, moves
what is in the way there, and makes the claim (`ClearingLeads`, `RenameMoves`,
`DiversionLeads`). A directory that is diverted stands where the
package has a file, so no claim of the package lies below it; the user's files in it go
along and are found below the `.zpksave` name. While the plan is executed, what is left of it leads on from the
disk of the moment (`LeadsAfter`). Three premises say when this is so: a file in place of
the sysroot is not moved away; a package that claims a `.zpksave` name of its own
clears what it installs there (`SavesApart`); and where a directory is at a `.zpksave`
name, its removal is planned with a freed path, so that it may stay and the run with
it fails (`SavesClear`). From the last one `RepairInv` has that the plan holds no
`RMDIR_FREED` (`PathsKept`, `KeptOps`), and that no `FreedPathFails` takes place; what
happens without it is `FixFreed`.

Of two processes, each plans while the other executes, and what it has read may be
gone when it acts. What survives is that neither plans to take what a bystander
has: the claims of a bystander are on the disk when either process reads them,
because neither has taken them, and each reads all it looks at. `BystandersKept`
therefore assumes that no read fails, as `FixSparesOthers` does. The lemmas of
TransactionProofs are about the memory of one process and the disk; an instance of the
module gives the same lemmas about the memory of the other
(`OtherProofs == INSTANCE OrphanProofs WITH pc <- pc2, ...`, with the lemmas of
TransactionProofs among its own), so nothing is proved twice.

For `OrphansAreShared` little of `OrphanInv` survives: what a plan counts on another
installed package to have may be gone, with its zip, when it is executed. What does
survive is about a claim that no other package has in the same form (`Sole`). The other
process only takes away claims of packages (`Thinned`), and leaves a directory in which
something is nobody's, for its `rmdir` fails there (`FailsForForeign`). So each process
keeps, for the zips it will move, that such a claim is gone by then, has a removal
before it, or is a directory in use by something that is nobody's (`AllDue`, over `Due`);
a status it has read is out of date only where what it saw is gone (`Dated`), and
where it takes a path for absent, no package it has still to plan for has one of these
claims there (`SeenAway`). This is `Racing`, which each process keeps by its own steps (`RaceNext`)
and by those of the other (`RacingElsewhere`). Until the two have run at the same time one
of them is idle and minds nothing, so that what `OrphanInv` says of the process that runs
holds as if it were alone (`InTurn`). Together, `SharedInv`: of what is left, a claim
that only the package that is gone has is a directory in use, and any other one is
shared with a package that is installed, or the two have overlapped. As `NoOrphans`, it is about runs in which
no read and no write has failed, and `fix` is left out: a `fix` beside a `del` of the
same package installs again what the other has just removed.

`FirstEntryWins` compares a claim with entries read long before it. What ties them is
that whatever lies above a claim is claimed as a directory (`DirectoriesAbove`), and that
a usable entry that has been dealt with has left a claim of its name, or was left out
for a file that is claimed there or above it (`EntriesInv`): a file that is claimed anew has therefore no usable entry of its name, nor below it,
before its own (`NoneBefore`), and a claim that is made is not made again.

`BodyInv` follows the bytes: until the body begins, what was received and what is
still to come are the response (`BytesKept`); the lines parsed so far end without an
empty line (`LinesRead`); from then on, what was delivered, what is buffered and what
is still to come are the rest of the response (`PlainRead`), and the count of a
body of stated length is that of what was delivered. So where the head ends is a
matter of the bytes, and not of how they came.

Induction over numbers, which the provers cannot be handed as a scheme, is done by
the least counterexample: a set of naturals that is not empty has a least element
(`LeastNatural`, `LeastOf`), and the step shows that it would not be the least.
That is how a path's prefixes are shown to be claimed, how every node is shown to
lie in a directory, and that the line feeds of a head have a first.

Assumptions: `PathsAssumption` (the paths are closed under prefixes),
`ClaimsAssumption` (claims form a tree; shown by FileClaims), `SaveAssumption`
(the paths of an instance hold the .zpksave names, and different names have different
ones), `RankAssumption` (in the
order of strcmp a directory comes before what is below it),
`VersionsAssumption` (versions are ordered like numbers), the bounds of numbers and
buffers of the HTTP modules,
`PartialCrcAssumption` (a cut-off file is not taken for a whole one),
`InitialTreesAssumption` (every node lies in a directory), and that bounds are
natural numbers. TLC evaluates each of them in the runs.

Only model-checked:

- `Termination`: liveness under fairness, which the provers do not handle.
- What recursion over data computes, for which an induction scheme would be
  needed: `NormalizesByComponents`, `CleansByComponents`, `UrisDecode`,
  `HighestSourceWins`, `WordsInOrder`, `TypeOK` of
  Configuration, `TrustedAsMeant`, `RefusedForCause`; and `FramingMeant`,
  `BodyFollowsHead`, `GoodNeverRefused`, `WholeNeverRefused` and the refinement
  `Promised`, which relate the bytes to the lines and chunks a response was put
  together from. `PlainBodyMeantCorrect` is what of `Promised` and `BodyFollowsHead`
  can be said of the bytes alone.

## What is abstracted, and how

- Packages are planned in any order. The code goes through them by name; names
  carry no meaning here.
- Each package has one zip in Transaction. Several versions are Repository's.
- The directories of installed and of cached zips lie outside `Paths`; the move of
  a zip is `RENAME_ZIP`. The statuses it simulates are never looked at again.
- The index's `changed_during_transaction` and its tombstones reach only messages
  and are left out, as are all messages.
- `in_protected_paths` returns false in the source, so `.zpknew` is never used.
- No command emits `FSOP_COPY`, so it has no action.
- The path `fsops_emit_rm_rf` plans an RMDIR for is freed when it returns
  (fsops.c:442), and used when the plan is executed. The operation (`RMDIR_FREED`) has
  three outcomes. Where the allocator has written over the string, the rmdir names
  nothing, fails and is only logged (`FreedPathFails`); that is what a build without
  the address sanitizer does: the Windows target, or CFLAGS on make's command line. Where the
  sanitizer the Makefile turns on sees the access, the process ends
  (`FreedPathAborts`): at the log before the call with `-v`, and otherwise at the log
  of the failure. Where the string has survived, or been written again, the directory
  is removed (`ExecuteOp`). Memory that holds another path by then would have rmdir
  remove another directory, if it is empty; that is left out. A refused plan that
  holds such a path is freed twice, which ends the process with the disk as a refusal
  leaves it.
- The uri joined with the entries of the installed directory is never assigned
  (repository.c:412). Repository chooses: the right directory, another one, or the
  end of the process. In Transaction another directory means zips that cannot be
  opened, and so a `BuildIndex` or `RefusePackage` with a failed read, or a crash.
- A listing within rm_rf that fails half way is a refusal, like one that fails at
  once: the operations planned so far are dropped with the package's plan.
- The directory that holds the sysroot is taken to exist.
- `UserFilesKept`, `FixSparesOthers`, `ConflictRefusesAll`, `NoOrphans` and
  `BystandersKept` do not speak of `.zpksave` files (`IsSaved`): there is one for each
  path, a newer one replaces it, and nobody asks whether a package claims that name
  (fsops.c:662-664). So a copy may end up where a removed package had a file.
  `UserFilesKept` is stated for a fix of one package; what `FixAll` shows can also
  move a user's file out of the places it looks at. It and `FixRepairsOne` leave out a
  package that claims a `.zpksave` name of another claim of its own, or a path below
  one (`SavesApart`): the plan looks at the name once, and clears it later. They also
  leave out a directory at a `.zpksave` name (`SavesClear`): its removal has a freed
  path, and `FixFreed` shows what becomes of the user's file when it fails.
- What an earlier package of the same command has planned at another one's `.zpksave`
  name is not seen by rm_rf, which looks at the disk. No property speaks of it:
  `FixSparesOthers` leaves `.zpksave` names out, and the other two are about one package.
- FileClaims takes entry names as `normalize()` returns them, counted from 1.
- TwoProcesses: `BuildIndex`, which lists a directory and opens its zips, and the
  extraction of one file are single steps, as in Transaction.
- Names, paths and uris are sequences of symbols: each delimiter, each decimal
  digit, and a run of letters as one symbol. `joinpath_slice` and
  `joinpath_slice_str` are declared (pathutils.h:13-14) and used, and defined nowhere
  in the sources; `JoinPathSlice` is external and takes them for `joinpath`, of which
  they are named as variants.
- Uri: a host that starts with a digit is read as an IPv4 address and may end early:
  `1a.example` has the host `1` and goes on with a path, as in the code. A uri without
  a host, which uri.h:7 allows and the `file:` uri of the repository's own
  .zpk.ini:4 is, is refused (uri.c:242-243) and ends the process; the model has this,
  and no run is about it.
- Configuration: `encode_uri` is declared (uri.h:17), used (configuration.c:107) and
  defined nowhere in the sources. It is a constant operator, `EncodeUri`, and each
  instance gives one; that what it writes would decode again, as repository.c:250
  asserts, is therefore not stated.
- Configuration: a TOML file either does not parse or sets some keys, and extras of
  some; unknown keys are ignored by the code. `-v` only changes what is logged.
  `-s` is recorded in `cli`, and is `dryRun` in Transaction; `--check-certificate`
  is recorded in `cli` and used within the TLS engine only.
- Configuration: the environment is applied over a `--config` file, which the run
  `ConfigOption` shows against the comment in configuration.h:76-80. `~/.zpk.ini` is applied twice where the
  working directory is at or below the home directory, which shows in lists that
  are appended to. A blank in the working directory cuts off a `file:` uri that is
  made absolute with it; the instances have none.
- TrustAnchors: `br_pem_decoder` and `br_x509_decoder` are BearSSL's. A PEM file is
  the lines the decoder takes, banner, Base64 or other text, and a key's kind is
  a constant function of its bytes. A text file that starts with the character
  `0` is taken for DER, since its first byte is the tag of a SEQUENCE. What is
  copied into an anchor, and freed again after an error, is not told apart.
- Lookup: what the resolver lists for the second call of `list` is chosen when it
  starts. When a repository cannot be listed, `list --orphaned` shows the packages
  that come from it; `ListMeant` is about what the repositories have shown. The
  zips `list` saw as installed are those at the time of its first call.
- HttpBody: SP stands for the space and the tab. A body without a length over TCP
  is whole when the connection ends, since nothing can tell otherwise.
- HttpHeaders: upper and lower case are one symbol. A name followed by a blank is
  another name, as in the code.
- Repository: when a newer version of a package is met, its version and repository are
  replaced and its entry is not (repository.c:149-156), so the path made of the entry is
  that of the older zip. `Raise` does the same; no property is about the entry.
- Repository: versions are numbers in the order of `apk_version_compare`. A network
  repository always ends as an error, because HTTP_CLIENT_ERR_OK has no case of
  its own (repository.c:300, 395), and `package_path` stays NULL for what is fetched.
  Its properties hold of the resolver alone and, in the run `Resolve`, of Lookup.

## Not modelled

- `add` after its resolution: it stops at a NULL package_path (main.c:91-94)
  before it executes anything. `fetch` and `upgrade` return without doing anything.
- `info` looks one path up in the index that PackageIndex models and prints its
  packages; it changes nothing.
- The parser of HTML listings is empty in the source, and logging has no state.
- The Windows layer is the same interface over another system.
- TLS is BearSSL's: what transport.c does with its engine appears as the results a
  receive may have. Sockets, permissions and devices of the file system are
  folded into files and calls that fail.
- Containers (vec, llrb, slice) are sequences, sets and functions; miniz, BearSSL,
  toml and the comparison of versions are third-party code.

## Plan

1. Done: FileTree, PackageIndex, Transaction, TwoProcesses; FileClaims, PathNames;
   Uri, Configuration; HttpWire, HttpHeaders, HttpBody over BodyStream, HttpGet;
   Repository, TrustAnchors, Lookup; the theorems above: types, what `del`, `fix` and
   two processes spare, what `del` leaves, refusal and idempotence of `fix`, claims, the
   resolver alone and in `list`, and the bytes of a response.
2. Done: an invariant that ties the plan to the disk (`RepairInv`): executing what is
   planned leads to what the index simulates. From it `FixRepairsOne` and `UserFilesKept`.
3. Done: what a plan of `del` owes while another process removes things (`Racing`). From
   it `OrphansAreShared`.
4. Left: the step simulation of BodyStream by HttpBody for a response whose chunks are
   given as lengths.
