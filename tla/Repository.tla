----------------------------- MODULE Repository -----------------------------
(***************************************************************************)
(* Resolving package names to the newest package (repository.c):            *)
(* "installed" among the zips of the directory of installed packages        *)
(* (resolve_package_paths_installed), "fetch" among the repositories, and   *)
(* then downloading it, "available" all packages of the repositories        *)
(* (resolve_and_fetch_package_paths_repositories).                          *)
(*                                                                          *)
(* A zip is [name, version], the version a number in the order of           *)
(* apk_version_compare.  Files with other names are passed over, and may    *)
(* not be listed here.  A directory lists its zips in any order.            *)
(***************************************************************************)
EXTENDS Integers, Sequences, FiniteSets

CONSTANTS
  Names,
  Versions,
  MaxRepositories    \* bound of the instance: how many are configured

ASSUME VersionsAssumption == Versions \subseteq Nat

ASSUME MaxRepositoriesAssumption == MaxRepositories \in Nat \ {0}

Zip == [name : Names, version : Versions]

Repositories == 1 .. MaxRepositories

VARIABLES
  mode, targets,       \* the call
  count,               \* the repositories; `installed` makes one, of the directory
  contents,            \* the zips each repository holds
  kind,                \* of each repository: file:, or a scheme of the network
  pc,
  at,                  \* the repository being listed or gone through
  status, entries,     \* RepositoryCallbackData of each repository
  unread,              \* entries of repository `at` not gone through
  resolved,            \* name -> ResolvedPackage
  result,
  considered           \* what the resolver has gone through: <<repository, zip>>

vars == <<mode, targets, count, contents, kind, pc, at, status, entries, unread,
          resolved, result, considered>>

Modes == {"installed", "fetch", "available"}

call == <<mode, targets, count, contents, kind>>

\* package_path: NULL, a zip of the directory that was listed, or another one
ResolvedPackage ==
  [entry : Zip, version : Versions, repository : Repositories,
   path : {"none", "listed", "elsewhere"}]

\* Every target, or all packages where none_is_all allows it.
All == mode # "fetch" /\ targets = {}

FirstStep(n) == IF n = 0 THEN "filter" ELSE "list"

Init ==
  /\ mode \in Modes
  /\ targets \in SUBSET Names
  /\ mode = "fetch" => targets # {}
  /\ mode = "available" => targets = {}
  /\ count \in 0 .. MaxRepositories
  /\ contents \in [Repositories -> SUBSET Zip]
  /\ kind \in [Repositories -> {"file", "network"}]
  /\ mode = "installed" => count = 1 /\ kind[1] = "file"
  /\ \A r \in Repositories : r > count => contents[r] = {} /\ kind[r] = "file"
  /\ pc = FirstStep(count) /\ at = 1
  /\ status = [r \in Repositories |-> "unknown"]
  /\ entries = [r \in Repositories |-> {}]
  /\ unread = {} /\ resolved = <<>> /\ result = "none" /\ considered = {}

(***************************************************************************)
(* Listing the repositories, one after the other.                           *)
(***************************************************************************)
\* vec_char_ptr_init(&repositories->entries), whatever the repository
Initialised == [entries EXCEPT ![1] = {}]

\* Mutant: one repository too many.
NextRepositoryUpTo ==
  IF at <= count THEN at' = at + 1 /\ pc' = pc
                 ELSE at' = 1 /\ pc' = "open"

NextRepository ==
  IF at < count THEN at' = at + 1 /\ pc' = pc
                ELSE at' = 1 /\ pc' = "open"

Listed(r) ==
  /\ pc = "list" /\ kind[r] = "file" /\ r = at
  /\ r = 1 \/ contents[r] = {}
  /\ status' = [status EXCEPT ![r] = "ok"]
  /\ entries' = [Initialised EXCEPT ![r] = contents[r]]
  /\ NextRepository
  /\ UNCHANGED <<call, unread, resolved, result, considered>>

\* The vector of a repository that is not the first has no capacity, and
\* vec_pushv doubles zero until it is large enough.
ListingHangs(r) ==
  /\ pc = "list" /\ kind[r] = "file" /\ r = at
  /\ r # 1 /\ contents[r] # {}
  /\ pc' = "hung" /\ entries' = Initialised
  /\ UNCHANGED <<call, at, status, unread, resolved, result, considered>>

\* The directory cannot be listed; or the repository is on the network, and
\* whatever http_client_get returns becomes an error.
ListingFails(r) ==
  /\ pc = "list" /\ r = at
  /\ status' = [status EXCEPT ![r] = "error"]
  /\ entries' = Initialised
  /\ IF mode = "installed"
       THEN pc' = "returned" /\ result' = "error" /\ UNCHANGED at
       ELSE NextRepository /\ UNCHANGED result
  /\ UNCHANGED <<call, unread, resolved, considered>>

(***************************************************************************)
(* resolve_newest_packages.                                                 *)
(***************************************************************************)
OpenRepository ==
  /\ pc = "open"
  /\ pc' = "resolve"
  /\ unread' = IF status[at] = "ok" THEN entries[at] ELSE {}
  /\ UNCHANGED <<call, at, status, entries, resolved, result, considered>>

Fresh(e) == [entry |-> e, version |-> e.version, repository |-> at, path |-> "none"]

\* Mutant: the first version found is kept.
NeverNewer(e) == FALSE

Newer(e) == e.version > resolved[e.name].version

\* The newer version is recorded, but not the entry it was found in.
Raise(e) ==
  [resolved EXCEPT ![e.name].version = e.version, ![e.name].repository = at]

Consider(e) ==
  /\ pc = "resolve" /\ e \in unread
  /\ unread' = unread \ {e}
  /\ considered' = considered \cup {<<at, e>>}
  /\ resolved' = IF e.name \notin DOMAIN resolved
                   THEN [n \in DOMAIN resolved \cup {e.name} |->
                           IF n = e.name THEN Fresh(e) ELSE resolved[n]]
                 ELSE IF Newer(e) THEN Raise(e) ELSE resolved
  /\ UNCHANGED <<call, pc, at, status, entries, result>>

\* To copy the uri that was never assigned may end the process.
UriUnreadable(e) ==
  /\ pc = "resolve" /\ mode = "installed" /\ e \in unread
  /\ e.name \in DOMAIN resolved => Newer(e)
  /\ pc' = "died"
  /\ UNCHANGED <<call, at, status, entries, unread, resolved, result, considered>>

CloseRepository ==
  /\ pc = "resolve" /\ unread = {}
  /\ IF at < count THEN at' = at + 1 /\ pc' = "open"
                   ELSE at' = at /\ pc' = "filter"
  /\ UNCHANGED <<call, status, entries, unread, resolved, result, considered>>

\* Mutant: what was not asked for stays.
KeptAll == DOMAIN resolved

Kept == IF All THEN DOMAIN resolved ELSE DOMAIN resolved \cap targets

\* What was not asked for goes, and what was must be there.
Filter ==
  /\ pc = "filter"
  /\ resolved' = [n \in Kept |-> resolved[n]]
  /\ IF ~ All /\ ~ targets \subseteq DOMAIN resolved
       THEN pc' = "returned" /\ result' = "notfound"
       ELSE pc' = "path" /\ UNCHANGED result
  /\ UNCHANGED <<call, at, status, entries, unread, considered>>

(***************************************************************************)
(* After it.                                                                *)
(***************************************************************************)
\* The uri that is joined with the entry was never assigned
\* (repository.c:412-415): it may name any directory.
JoinPaths ==
  /\ pc = "path" /\ mode = "installed"
  /\ \E path \in {"listed", "elsewhere"} :
       resolved' = [n \in DOMAIN resolved |-> [resolved[n] EXCEPT !.path = path]]
  /\ pc' = "returned" /\ result' = "ok"
  /\ UNCHANGED <<call, at, status, entries, unread, considered>>

\* Nothing sets package_path: every download goes to NULL and fails, and the
\* statuses of the downloads are not looked at.
Download ==
  /\ pc = "path" /\ mode = "fetch"
  /\ pc' = "returned" /\ result' = "ok"
  /\ UNCHANGED <<call, at, status, entries, unread, resolved, considered>>

ReturnAvailable ==
  /\ pc = "path" /\ mode = "available"
  /\ pc' = "returned" /\ result' = "ok"
  /\ UNCHANGED <<call, at, status, entries, unread, resolved, considered>>

Next ==
  \/ \E r \in Repositories : Listed(r) \/ ListingHangs(r) \/ ListingFails(r)
  \/ OpenRepository
  \/ \E e \in unread : Consider(e) \/ UriUnreadable(e)
  \/ CloseRepository \/ Filter \/ JoinPaths \/ Download \/ ReturnAvailable

Spec == Init /\ [][Next]_vars

(***************************************************************************)
(* Properties.                                                              *)
(***************************************************************************)
TypeOK ==
  /\ mode \in Modes /\ targets \subseteq Names
  /\ count \in 0 .. MaxRepositories
  /\ contents \in [Repositories -> SUBSET Zip]
  /\ kind \in [Repositories -> {"file", "network"}]
  /\ pc \in {"list", "hung", "died", "open", "resolve", "filter", "path", "returned"}
  /\ at \in Repositories
  /\ status \in [Repositories -> {"unknown", "ok", "error"}]
  /\ entries \in [Repositories -> SUBSET Zip] /\ unread \subseteq Zip
  /\ DOMAIN resolved \subseteq Names
  /\ \A n \in DOMAIN resolved : resolved[n] \in ResolvedPackage
  /\ result \in {"none", "ok", "error", "notfound"}
  /\ considered \subseteq Repositories \X Zip

\* At every step, and in whatever order the zips are listed, the version
\* recorded for a package is the newest of those gone through, and it is in
\* the repository recorded with it (repository.c:143-156).
ResolvesNewest ==
  \A n \in DOMAIN resolved :
    LET rp == resolved[n] IN
    /\ <<rp.repository, [name |-> n, version |-> rp.version]>> \in considered
    /\ \A c \in considered : c[2].name = n => c[2].version <= rp.version

\* Success means that exactly what was asked for was resolved, and that all
\* there is was gone through, and resolved if that was asked for; of more
\* repositories than one, NotFoundIsTrue tells what is left.
ResolvesAsked ==
  result = "ok" =>
    /\ All \/ DOMAIN resolved = targets
    /\ count = 1 /\ status[1] = "ok" =>
         /\ considered = {<<1, e>> : e \in contents[1]}
         /\ All => \A e \in contents[1] : e.name \in DOMAIN resolved

\* "did not find validly named package %s in any repository"
\* (repository.c:205): when that is reported, no repository that was listed
\* has it.
NotFoundIsTrue ==
  result = "notfound" =>
    \E n \in targets : \A r \in 1 .. count :
      status[r] = "ok" => \A e \in contents[r] : e.name # n
=============================================================================
