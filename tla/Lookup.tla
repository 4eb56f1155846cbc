------------------------------- MODULE Lookup -------------------------------
(***************************************************************************)
(* The commands that look packages up, as main.c puts them together: add    *)
(* reads the certificates and resolves among the repositories; del and fix  *)
(* resolve among what is installed, and go on with Transaction; list does   *)
(* the second and then, unless --installed is its only flag, the first.     *)
(***************************************************************************)
EXTENDS Repository

CONSTANTS
  Base, TAG, SizeBytes, KeyOf(_), Supported, Configured    \* of TrustAnchors

VARIABLES
  cacerts, phase, file, lines, ended, extra_newline, in_object, certificate, object,
  initial_count, anchors, error,                           \* of TrustAnchors
  command,
  doing,         \* "lookup", or what it came to
  directory,     \* of list: the zips that were installed,
  irp,           \*   name -> version of the newest of them,
  flags, printed

Trust == INSTANCE TrustAnchors

trust == <<cacerts, phase, file, lines, ended, extra_newline, in_object, certificate, object,
           initial_count, anchors, error>>

list == <<directory, irp, flags, printed>>

lookupVars == <<vars, trust, command, doing, list>>

LookupInit ==
  /\ Trust!TrustInit /\ Init
  /\ command \in {"add", "change", "list"}
  /\ mode = IF command = "add" THEN "fetch" ELSE "installed"
  /\ command = "list" => targets = {}
  /\ doing = "lookup"
  /\ directory = {} /\ irp = <<>> /\ flags = {} /\ printed = {}

OnNetwork == mode # "installed"

TrustStep ==
  /\ OnNetwork /\ Trust!TrustNext
  /\ UNCHANGED <<vars, command, doing, list>>

TlsSetupFails ==
  /\ OnNetwork /\ phase = "failed" /\ pc # "returned"
  /\ pc' = "returned" /\ result' = "error"
  /\ UNCHANGED <<call, at, status, entries, unread, resolved, considered,
                 trust, command, doing, list>>

ResolverStep ==
  /\ OnNetwork => phase = "ready"
  /\ Next
  /\ UNCHANGED <<trust, command, doing, list>>

(***************************************************************************)
(* What the command does with it.                                           *)
(***************************************************************************)
Resolved == doing = "lookup" /\ pc = "returned" /\ result = "ok"

Fails ==
  /\ doing = "lookup" /\ pc = "returned" /\ result # "ok"
  /\ doing' = "failed"
  /\ UNCHANGED <<vars, trust, command, list>>

\* basename_m of a package_path that is NULL
AddDies ==
  /\ Resolved /\ command = "add"
  /\ doing' = "died"
  /\ UNCHANGED <<vars, trust, command, list>>

Change ==
  /\ Resolved /\ command = "change"
  /\ doing' = "change"
  /\ UNCHANGED <<vars, trust, command, list>>

ListInstalled == Resolved /\ command = "list" /\ mode = "installed"

VersionsOf == [n \in DOMAIN resolved |-> resolved[n].version]

\* The second call, of resolve_and_fetch_package_paths_repositories, starts.
ListAvailable ==
  /\ ListInstalled
  /\ directory' = contents[1] /\ irp' = VersionsOf
  /\ mode' = "available" /\ targets' = {}
  /\ count' \in 0 .. MaxRepositories
  /\ contents' \in {c \in [Repositories -> SUBSET Zip] :
                      \A r \in Repositories : r > count' => c[r] = {}}
  /\ kind' \in {k \in [Repositories -> {"file", "network"}] :
                  \A r \in Repositories : r > count' => k[r] = "file"}
  /\ pc' = FirstStep(count') /\ at' = 1
  /\ status' = [r \in Repositories |-> "unknown"]
  /\ entries' = [r \in Repositories |-> {}]
  /\ unread' = {} /\ resolved' = <<>> /\ result' = "none" /\ considered' = {}
  /\ UNCHANGED <<trust, command, doing, flags, printed>>

Flags == {"installed", "upgradable", "available", "orphaned"}

\* Mutant: an equal version will do.
NotOlder(available, installed) == available >= installed

VersionIsGreater(available, installed) == available > installed

\* The packages of do_list, out of the two resolutions.
Shown(installed, available, only) ==
  {n \in DOMAIN installed \cup DOMAIN available :
     /\ "installed" \in only => n \in DOMAIN installed
     /\ "available" \in only => n \in DOMAIN available
     /\ "orphaned" \in only => n \in DOMAIN installed \ DOMAIN available
     /\ "upgradable" \in only =>
          /\ n \in DOMAIN installed \cap DOMAIN available
          /\ VersionIsGreater(available[n], installed[n])}

PutOut(only, installed, available) ==
  /\ flags' = only /\ printed' = Shown(installed, available, only)
  /\ doing' = "printed"
  /\ UNCHANGED <<vars, trust, command>>

\* "then we can omit fetching"
PrintInstalled ==
  /\ ListInstalled
  /\ PutOut({"installed"}, VersionsOf, <<>>)
  /\ directory' = contents[1] /\ irp' = VersionsOf

PrintList ==
  /\ Resolved /\ command = "list" /\ mode = "available"
  /\ \E only \in SUBSET Flags \ {{"installed"}} : PutOut(only, irp, VersionsOf)
  /\ UNCHANGED <<directory, irp>>

LookupNext ==
  \/ TrustStep \/ TlsSetupFails \/ ResolverStep
  \/ Fails \/ AddDies \/ Change
  \/ ListAvailable \/ PrintInstalled \/ PrintList

LookupSpec == LookupInit /\ [][LookupNext]_lookupVars

(***************************************************************************)
(* Properties: those of Repository, of the certificates, and of list.       *)
(***************************************************************************)
TrustedAsMeant == Trust!TrustedAsMeant

RefusedForCause == Trust!RefusedForCause

\* What the repositories have shown to the resolver.
Available == IF mode = "available" THEN {c[2] : c \in considered} ELSE {}

Holds(zips, n) == \E z \in zips : z.name = n

\* Some zip of it is newer than all of the other's.
IsUpgrade(n) ==
  \E new \in Available : new.name = n /\ Holds(directory, n) /\
    \A old \in directory : old.name = n => new.version > old.version

\* Whatever the flags, list prints the packages they describe and no others,
\* from what is installed and what the repositories have shown, though each of
\* the two is resolved on its own (main.c:263-356).
ListMeant ==
  doing = "printed" =>
    printed = {n \in Names :
      /\ Holds(directory, n) \/ Holds(Available, n)
      /\ "installed" \in flags => Holds(directory, n)
      /\ "available" \in flags => Holds(Available, n)
      /\ "orphaned" \in flags => Holds(directory, n) /\ ~ Holds(Available, n)
      /\ "upgradable" \in flags => IsUpgrade(n)}
=============================================================================
