-------------------------- MODULE RepositoryProofs --------------------------
(***************************************************************************)
(* Proofs about the resolver of Repository, alone and as the commands of    *)
(* Lookup use it.                                                           *)
(***************************************************************************)
EXTENDS Lookup, TLAPS

(***************************************************************************)
(* For any packages, versions, repositories and orders of listing, the      *)
(* version recorded is the newest gone through.  The invariant adds that    *)
(* until the resolver filters, a name it has gone through is resolved.      *)
(***************************************************************************)
NoneForgotten ==
  pc \in {"list", "open", "resolve", "filter"} =>
    \A c \in considered : c[2].name \in DOMAIN resolved

ResolverInv == TypeOK /\ NoneForgotten /\ ResolvesNewest

LEMMA Counts ==
  ASSUME NEW r \in Repositories
  PROVE  /\ 1 \in Repositories
         /\ \A n \in 0 .. MaxRepositories : r < n => r + 1 \in Repositories
BY MaxRepositoriesAssumption DEF Repositories

LEMMA ResolverInit == Init => ResolverInv
<1> SUFFICES ASSUME Init PROVE ResolverInv
  OBVIOUS
<1>1. 1 \in Repositories
  BY MaxRepositoriesAssumption DEF Repositories
<1>2. DOMAIN resolved = {} /\ considered = {}
  BY DEF Init
<1> QED
  BY <1>1, <1>2
     DEF Init, FirstStep, Modes, ResolverInv, TypeOK, NoneForgotten, ResolvesNewest

\* Listing resolves nothing.
LEMMA ListingKeeps ==
  ASSUME ResolverInv, NEW r \in Repositories,
         Listed(r) \/ ListingHangs(r) \/ ListingFails(r)
  PROVE  ResolverInv'
<1>1. /\ UNCHANGED <<mode, targets, count, contents, kind, unread, resolved, considered>>
      /\ pc = "list"
  BY DEF Listed, ListingHangs, ListingFails, call
<1>2. at' \in Repositories
      /\ pc' \in {"list", "hung", "open", "returned"}
  BY Counts DEF Listed, ListingHangs, ListingFails, NextRepository,
     ResolverInv, TypeOK
<1>3. entries' \in [Repositories -> SUBSET Zip]
  BY Counts DEF Listed, ListingHangs, ListingFails, Initialised, ResolverInv, TypeOK
<1>4. /\ status' \in [Repositories -> {"unknown", "ok", "error"}]
      /\ result' \in {"none", "ok", "error", "notfound"}
  BY DEF Listed, ListingHangs, ListingFails, ResolverInv, TypeOK
<1>5. TypeOK'
  BY <1>1, <1>2, <1>3, <1>4 DEF ResolverInv, TypeOK
<1>6. NoneForgotten' /\ ResolvesNewest'
  BY <1>1 DEF ResolverInv, NoneForgotten, ResolvesNewest
<1> QED
  BY <1>5, <1>6 DEF ResolverInv

LEMMA OpeningKeeps ==
  ASSUME ResolverInv, OpenRepository \/ CloseRepository
  PROVE  ResolverInv'
<1>1. /\ UNCHANGED <<mode, targets, count, contents, kind, status, entries, resolved,
                     result, considered>>
      /\ pc \in {"open", "resolve"} /\ pc' \in {"open", "resolve", "filter"}
  BY DEF OpenRepository, CloseRepository, call
<1>2. at' \in Repositories
  BY Counts DEF OpenRepository, CloseRepository, ResolverInv, TypeOK
<1>3. unread' \subseteq Zip
  BY DEF OpenRepository, CloseRepository, ResolverInv, TypeOK
<1>4. TypeOK'
  BY <1>1, <1>2, <1>3 DEF ResolverInv, TypeOK
<1>5. NoneForgotten' /\ ResolvesNewest'
  BY <1>1 DEF ResolverInv, NoneForgotten, ResolvesNewest
<1> QED
  BY <1>4, <1>5 DEF ResolverInv

\* What considering zip e does to resolved, in each of its three cases.
LEMMA ConsiderKeeps ==
  ASSUME ResolverInv, NEW e \in unread, Consider(e)
  PROVE  ResolverInv'
<1>1. /\ UNCHANGED <<mode, targets, count, contents, kind, at, status, entries, result>>
      /\ pc = "resolve" /\ pc' = "resolve"
      /\ unread' = unread \ {e} /\ considered' = considered \cup {<<at, e>>}
  BY DEF Consider, call
<1>2. /\ e \in Zip /\ e.name \in Names /\ e.version \in Versions
      /\ e.version \in Nat /\ at \in Repositories
      /\ e = [name |-> e.name, version |-> e.version]
  BY VersionsAssumption DEF ResolverInv, TypeOK, Zip
<1>3. /\ considered \subseteq Repositories \X Zip
      /\ \A c \in considered : c[2].name \in DOMAIN resolved
      /\ DOMAIN resolved \subseteq Names
      /\ \A n \in DOMAIN resolved : resolved[n] \in ResolvedPackage
  BY <1>1 DEF ResolverInv, TypeOK, NoneForgotten
<1>4. /\ DOMAIN resolved' = DOMAIN resolved \cup {e.name}
      /\ \A n \in DOMAIN resolved \ {e.name} : resolved'[n] = resolved[n]
      /\ resolved'[e.name] \in ResolvedPackage
      /\ <<resolved'[e.name].repository,
           [name |-> e.name, version |-> resolved'[e.name].version]>> \in considered'
      /\ \A c \in considered' :
           c[2].name = e.name => c[2].version <= resolved'[e.name].version
  <2>1. CASE e.name \notin DOMAIN resolved
    <3>1. /\ DOMAIN resolved' = DOMAIN resolved \cup {e.name}
          /\ \A n \in DOMAIN resolved \ {e.name} : resolved'[n] = resolved[n]
          /\ resolved'[e.name] = Fresh(e)
      BY <2>1 DEF Consider
    <3>2. /\ Fresh(e) \in ResolvedPackage
          /\ Fresh(e).version = e.version /\ Fresh(e).repository = at
      BY <1>2 DEF Fresh, ResolvedPackage
    <3>3. \A c \in considered' : c[2].name = e.name => c[2].version <= e.version
      BY <1>1, <1>2, <1>3, <2>1
    <3> QED
      BY <1>1, <1>2, <3>1, <3>2, <3>3
  <2>2. CASE e.name \in DOMAIN resolved
    <3> DEFINE rp == resolved[e.name]
    <3>1. /\ rp \in ResolvedPackage /\ rp.version \in Nat
          /\ <<rp.repository, [name |-> e.name, version |-> rp.version]>> \in considered
          /\ \A c \in considered : c[2].name = e.name => c[2].version <= rp.version
      BY <1>3, <2>2, VersionsAssumption
         DEF ResolverInv, ResolvesNewest, ResolvedPackage
    <3>2. \A c \in considered : c[2].version \in Nat
      BY <1>3, VersionsAssumption DEF Zip
    <3>3. CASE Newer(e)
      <4>1. resolved' = Raise(e) /\ e.version > rp.version
        BY <2>2, <3>3 DEF Consider, Newer
      <4>2. /\ DOMAIN resolved' = DOMAIN resolved
            /\ \A n \in DOMAIN resolved \ {e.name} : resolved'[n] = resolved[n]
            /\ resolved'[e.name] =
                 [rp EXCEPT !.version = e.version, !.repository = at]
        BY <2>2, <4>1 DEF Raise
      <4>3. /\ resolved'[e.name] \in ResolvedPackage
            /\ resolved'[e.name].version = e.version
            /\ resolved'[e.name].repository = at
        BY <1>2, <3>1, <4>2 DEF ResolvedPackage
      <4>4. \A c \in considered' : c[2].name = e.name => c[2].version <= e.version
        BY <1>1, <1>2, <3>1, <3>2, <4>1
      <4> QED
        BY <1>1, <1>2, <2>2, <4>2, <4>3, <4>4
    <3>4. CASE ~ Newer(e)
      <4>1. UNCHANGED resolved
        BY <2>2, <3>4 DEF Consider
      <4>2. e.version <= rp.version
        BY <1>2, <3>1, <3>4 DEF Newer
      <4>3. \A c \in considered' : c[2].name = e.name => c[2].version <= rp.version
        BY <1>1, <3>1, <4>2
      <4>4. <<rp.repository, [name |-> e.name, version |-> rp.version]>>
              \in considered'
        BY <1>1, <3>1
      <4>5. DOMAIN resolved' = DOMAIN resolved \cup {e.name}
        BY <2>2, <4>1
      <4>6. resolved'[e.name] = rp
        BY <4>1
      <4> HIDE DEF rp
      <4> QED
        BY <3>1, <4>1, <4>3, <4>4, <4>5, <4>6
    <3> QED
      BY <3>3, <3>4
  <2> QED
    BY <2>1, <2>2
<1>5. TypeOK'
  <2>1. /\ DOMAIN resolved' \subseteq Names
        /\ \A n \in DOMAIN resolved' : resolved'[n] \in ResolvedPackage
    BY <1>2, <1>3, <1>4
  <2>2. considered' \subseteq Repositories \X Zip /\ unread' \subseteq Zip
    BY <1>1, <1>2, <1>3 DEF ResolverInv, TypeOK
  <2> QED
    BY <1>1, <2>1, <2>2 DEF ResolverInv, TypeOK
<1>6. NoneForgotten'
  BY <1>1, <1>3, <1>4 DEF NoneForgotten
<1>7. ResolvesNewest'
  <2>1. ASSUME NEW n \in DOMAIN resolved', n # e.name
        PROVE  /\ <<resolved'[n].repository,
                    [name |-> n, version |-> resolved'[n].version]>> \in considered'
               /\ \A c \in considered' :
                    c[2].name = n => c[2].version <= resolved'[n].version
    BY <1>1, <1>4, <2>1 DEF ResolverInv, ResolvesNewest
  <2> QED
    BY <1>4, <2>1 DEF ResolvesNewest
<1> QED
  BY <1>5, <1>6, <1>7 DEF ResolverInv

\* A process that dies on the way leaves what it had.
LEMMA DyingKeeps ==
  ASSUME ResolverInv, NEW e \in unread, UriUnreadable(e)
  PROVE  ResolverInv'
<1>1. /\ UNCHANGED <<mode, targets, count, contents, kind, at, status, entries, unread,
                     resolved, result, considered>>
      /\ pc' = "died"
  BY DEF UriUnreadable, call
<1> QED
  BY <1>1 DEF ResolverInv, TypeOK, NoneForgotten, ResolvesNewest

\* Nothing after the resolver changes a version.
LEMMA ReturnKeeps ==
  ASSUME ResolverInv, Filter \/ JoinPaths \/ Download \/ ReturnAvailable
  PROVE  ResolverInv'
<1>1. /\ UNCHANGED <<mode, targets, count, contents, kind, at, status, entries, unread,
                     considered>>
      /\ pc' \in {"path", "returned"}
      /\ result' \in {"none", "ok", "error", "notfound"}
  BY DEF Filter, JoinPaths, Download, ReturnAvailable, call, ResolverInv, TypeOK
<1>2. DOMAIN resolved \subseteq Names
      /\ \A n \in DOMAIN resolved : resolved[n] \in ResolvedPackage
  BY DEF ResolverInv, TypeOK
<1>3. /\ DOMAIN resolved' \subseteq DOMAIN resolved
      /\ \A n \in DOMAIN resolved' :
           /\ resolved'[n] \in ResolvedPackage
           /\ resolved'[n].version = resolved[n].version
           /\ resolved'[n].repository = resolved[n].repository
  <2>1. CASE Filter
    BY <1>2, <2>1 DEF Filter, Kept
  <2>2. CASE JoinPaths
    <3>1. \A n \in DOMAIN resolved :
          \A path \in {"listed", "elsewhere"} :
            /\ [resolved[n] EXCEPT !.path = path] \in ResolvedPackage
            /\ [resolved[n] EXCEPT !.path = path].version = resolved[n].version
            /\ [resolved[n] EXCEPT !.path = path].repository = resolved[n].repository
      BY <1>2 DEF ResolvedPackage
    <3>2. PICK path \in {"listed", "elsewhere"} :
            resolved' = [n \in DOMAIN resolved |-> [resolved[n] EXCEPT !.path = path]]
      BY <2>2 DEF JoinPaths
    <3> QED
      BY <3>1, <3>2
  <2>3. CASE Download \/ ReturnAvailable
    BY <1>2, <2>3 DEF Download, ReturnAvailable
  <2> QED
    BY <2>1, <2>2, <2>3
<1>4. TypeOK'
  BY <1>1, <1>2, <1>3 DEF ResolverInv, TypeOK
<1>5. ResolvesNewest'
  BY <1>1, <1>3 DEF ResolverInv, ResolvesNewest
<1>6. NoneForgotten'
  BY <1>1 DEF NoneForgotten
<1> QED
  BY <1>4, <1>5, <1>6 DEF ResolverInv

LEMMA ResolverNext == ResolverInv /\ [Next]_vars => ResolverInv'
<1> SUFFICES ASSUME ResolverInv, [Next]_vars PROVE ResolverInv'
  OBVIOUS
<1>1. CASE Next
  BY <1>1, ListingKeeps, OpeningKeeps, ConsiderKeeps, DyingKeeps, ReturnKeeps
     DEF Next
<1>2. CASE UNCHANGED vars
  BY <1>2 DEF vars, ResolverInv, TypeOK, NoneForgotten, ResolvesNewest
<1> QED
  BY <1>1, <1>2

\* The resolver's state has its types, for any packages and repositories.
THEOREM ResolverTypeCorrect == Spec => []TypeOK
<1>1. ResolverInv => TypeOK
  BY DEF ResolverInv
<1> QED
  BY <1>1, ResolverInit, ResolverNext, PTL DEF Spec

\* The version recorded is the newest gone through, for any packages, any
\* number of repositories and any order.
THEOREM ResolvesNewestCorrect == Spec => []ResolvesNewest
<1>1. ResolverInv => ResolvesNewest
  BY DEF ResolverInv
<1> QED
  BY <1>1, ResolverInit, ResolverNext, PTL DEF Spec

(***************************************************************************)
(* With one repository, the resolver goes through all of it, and forgets    *)
(* none of it but for what was not asked for.                               *)
(***************************************************************************)
Offered == IF status[1] = "ok" THEN contents[1] ELSE {}

GoneThrough ==
  count = 1 =>
    /\ at = 1
    /\ pc \in {"list", "open"} => considered = {}
    /\ pc = "open" /\ status[1] = "ok" => entries[1] = contents[1]
    /\ pc = "resolve" =>
         unread \subseteq Offered /\ considered = {<<1, e>> : e \in Offered \ unread}
    /\ pc \in {"filter", "path"} \/ result = "ok" =>
         considered = {<<1, e>> : e \in Offered}

Answered ==
  /\ pc # "returned" => result = "none"
  /\ pc = "path" \/ result = "ok" =>
       /\ All \/ DOMAIN resolved = targets
       /\ All => \A c \in considered : c[2].name \in DOMAIN resolved

AskedInv == ResolverInv /\ GoneThrough /\ Answered

LEMMA AskedInit == Init => AskedInv
<1> SUFFICES ASSUME Init PROVE AskedInv
  OBVIOUS
<1>1. GoneThrough /\ Answered
  BY DEF Init, FirstStep, GoneThrough, Answered
<1> QED
  BY <1>1, ResolverInit DEF AskedInv

LEMMA ListingAsks ==
  ASSUME AskedInv, NEW r \in Repositories, Listed(r) \/ ListingHangs(r) \/ ListingFails(r)
  PROVE  GoneThrough' /\ Answered'
<1>1. /\ UNCHANGED <<mode, targets, count, contents, kind, unread, resolved, considered>>
      /\ pc = "list" /\ r = at /\ result = "none"
  BY DEF Listed, ListingHangs, ListingFails, call, AskedInv, Answered
<1>2. Answered'
  BY <1>1 DEF Listed, ListingHangs, ListingFails, NextRepository, Answered, All
<1>3. GoneThrough'
  <2> SUFFICES ASSUME count = 1 PROVE GoneThrough'
    BY <1>1 DEF GoneThrough
  <2>1. /\ r = 1 /\ at = 1 /\ considered = {}
        /\ status \in [Repositories -> {"unknown", "ok", "error"}]
        /\ entries \in [Repositories -> SUBSET Zip]
    BY <1>1 DEF AskedInv, GoneThrough, ResolverInv, TypeOK
  <2>2. CASE Listed(r)
    BY <1>1, <2>1, <2>2 DEF Listed, NextRepository, Initialised, GoneThrough, call
  <2>3. CASE ListingFails(r)
    BY <1>1, <2>1, <2>3 DEF ListingFails, NextRepository, GoneThrough, call
  <2>4. ~ ListingHangs(r)
    BY <2>1 DEF ListingHangs
  <2> QED
    BY <2>2, <2>3, <2>4
<1> QED
  BY <1>2, <1>3

LEMMA OpeningAsks ==
  ASSUME AskedInv, OpenRepository \/ CloseRepository
  PROVE  GoneThrough' /\ Answered'
<1>1. /\ UNCHANGED <<mode, targets, count, contents, kind, status, entries, resolved,
                     result, considered>>
      /\ pc \in {"open", "resolve"} /\ pc' \in {"open", "resolve", "filter"}
      /\ result = "none"
  BY DEF OpenRepository, CloseRepository, call, AskedInv, Answered
<1>2. Answered'
  BY <1>1 DEF Answered, All
<1>3. CASE OpenRepository
  BY <1>1, <1>2, <1>3 DEF OpenRepository, AskedInv, GoneThrough, Offered
<1>4. CASE CloseRepository
  BY <1>1, <1>2, <1>4 DEF CloseRepository, AskedInv, GoneThrough, Offered
<1> QED
  BY <1>3, <1>4

LEMMA ConsiderAsks ==
  ASSUME AskedInv, NEW e \in unread, Consider(e) \/ UriUnreadable(e)
  PROVE  GoneThrough' /\ Answered'
<1>1. /\ UNCHANGED <<mode, targets, count, contents, kind, at, status, entries, result>>
      /\ pc = "resolve" /\ pc' \in {"resolve", "died"} /\ result = "none"
  BY DEF Consider, UriUnreadable, call, AskedInv, Answered
<1>2. Answered'
  BY <1>1 DEF Answered, All
<1>3. CASE Consider(e)
  <2> SUFFICES ASSUME count = 1 PROVE GoneThrough'
    BY <1>1, <1>2 DEF GoneThrough
  <2>1. /\ unread \subseteq Offered /\ considered = {<<1, z>> : z \in Offered \ unread}
        /\ at = 1
    BY <1>1 DEF AskedInv, GoneThrough
  <2>2. /\ unread' = unread \ {e} /\ considered' = considered \cup {<<at, e>>}
        /\ Offered' = Offered /\ pc' = "resolve"
    BY <1>1, <1>3 DEF Consider, Offered
  <2>3. considered' = {<<1, z>> : z \in Offered' \ unread'}
    BY <2>1, <2>2
  <2> QED
    BY <1>1, <2>1, <2>2, <2>3 DEF AskedInv, GoneThrough
<1>4. CASE UriUnreadable(e)
  BY <1>1, <1>2, <1>4 DEF UriUnreadable, AskedInv, GoneThrough
<1> QED
  BY <1>3, <1>4

LEMMA ReturnAsks ==
  ASSUME AskedInv, Filter \/ JoinPaths \/ Download \/ ReturnAvailable
  PROVE  GoneThrough' /\ Answered'
<1>1. /\ UNCHANGED <<mode, targets, count, contents, kind, at, status, entries, unread,
                     considered>>
      /\ pc \in {"filter", "path"} /\ pc' \in {"path", "returned"} /\ result = "none"
      /\ pc' = "path" => UNCHANGED result
  BY DEF Filter, JoinPaths, Download, ReturnAvailable, call, AskedInv, Answered
<1>2. GoneThrough'
  BY <1>1 DEF AskedInv, GoneThrough, Offered
<1>3. CASE Filter
  <2>1. DOMAIN resolved' = Kept
    BY <1>3 DEF Filter
  <2>2. \A c \in considered : c[2].name \in DOMAIN resolved
    BY <1>3 DEF Filter, AskedInv, ResolverInv, NoneForgotten
  <2>3. pc' = "path" => All \/ targets \subseteq DOMAIN resolved
    BY <1>3 DEF Filter
  <2>4. result' # "ok" /\ (pc' # "returned" => result' = "none")
    BY <1>1, <1>3 DEF Filter
  <2> QED
    BY <1>1, <1>2, <2>1, <2>2, <2>3, <2>4 DEF Answered, Kept, All
<1>4. CASE JoinPaths \/ Download \/ ReturnAvailable
  <2>1. pc = "path" /\ pc' = "returned" /\ DOMAIN resolved' = DOMAIN resolved
    BY <1>4 DEF JoinPaths, Download, ReturnAvailable
  <2> QED
    BY <1>1, <1>2, <2>1 DEF AskedInv, Answered, All
<1> QED
  BY <1>3, <1>4

LEMMA AskedNext == AskedInv /\ [Next]_vars => AskedInv'
<1> SUFFICES ASSUME AskedInv, [Next]_vars PROVE AskedInv'
  OBVIOUS
<1>1. ResolverInv'
  BY ResolverNext DEF AskedInv
<1>2. CASE Next
  BY <1>1, <1>2, ListingAsks, OpeningAsks, ConsiderAsks, ReturnAsks DEF Next, AskedInv
<1>3. CASE UNCHANGED vars
  BY <1>1, <1>3 DEF vars, AskedInv, GoneThrough, Offered, Answered, All
<1> QED
  BY <1>2, <1>3

LEMMA AskedMeansAsked == AskedInv => ResolvesAsked
<1> SUFFICES ASSUME AskedInv, result = "ok" PROVE ResolvesAsked
  BY DEF ResolvesAsked
<1>1. All \/ DOMAIN resolved = targets
  BY DEF AskedInv, Answered
<1>2. ASSUME count = 1, status[1] = "ok"
      PROVE  /\ considered = {<<1, e>> : e \in contents[1]}
             /\ All => \A e \in contents[1] : e.name \in DOMAIN resolved
  <2>1. considered = {<<1, e>> : e \in contents[1]}
    BY <1>2 DEF AskedInv, GoneThrough, Offered
  <2>2. ASSUME All, NEW e \in contents[1] PROVE e.name \in DOMAIN resolved
    <3>1. <<1, e>> \in considered
      BY <2>1
    <3> QED
      BY <2>2, <3>1 DEF AskedInv, Answered
  <2> QED
    BY <2>1, <2>2
<1> QED
  BY <1>1, <1>2 DEF ResolvesAsked

\* A lookup that succeeds has resolved exactly what was asked for, and of one
\* repository, or of the directory, it has gone through every zip.
THEOREM ResolvesAskedCorrect == Spec => []ResolvesAsked
  BY AskedMeansAsked, AskedInit, AskedNext, PTL DEF Spec

(***************************************************************************)
(* list prints what its flags describe, for any directory, repositories and *)
(* flags.  The resolver's invariant holds of each of the two resolutions of *)
(* list, since the second starts as the first did; what is kept of the      *)
(* first is the newest version of each package of the directory; and an     *)
(* installed lookup that did not fail has listed all of it.                 *)
(***************************************************************************)
\* The versions are those of the newest zips, by name.
NewestOf(zips, versions) ==
  /\ DOMAIN versions = {z.name : z \in zips}
  /\ \A n \in DOMAIN versions :
       /\ \E z \in zips : z.name = n /\ z.version = versions[n]
       /\ \A z \in zips : z.name = n => z.version <= versions[n]

\* One directory, which was listed by the time it is gone through.
DirectoryListed ==
  mode = "installed" =>
    /\ count = 1
    /\ pc # "list" /\ result # "error" => status[1] = "ok"

ListCalls ==
  command = "list" => targets = {} /\ mode \in {"installed", "available"}

\* What list keeps of its first resolution.
FirstKept ==
  /\ directory \subseteq Zip
  /\ command = "list" /\ (mode = "available" \/ doing = "printed") =>
       NewestOf(directory, irp)

Printed ==
  doing = "printed" =>
    /\ command = "list" /\ pc = "returned" /\ result = "ok"
    /\ printed = Shown(irp, IF mode = "available" THEN VersionsOf ELSE <<>>, flags)

LookupInv == AskedInv /\ DirectoryListed /\ ListCalls /\ FirstKept /\ Printed

LEMMA LookupStarts == LookupInit => LookupInv
<1> SUFFICES ASSUME LookupInit PROVE LookupInv
  OBVIOUS
<1>1. /\ Init
      /\ doing = "lookup" /\ directory = {}
      /\ command = "list" => targets = {} /\ mode = "installed"
  BY DEF LookupInit
<1>2. AskedInv
  BY <1>1, AskedInit
<1>3. DirectoryListed
  BY <1>1 DEF Init, FirstStep, DirectoryListed
<1> QED
  BY <1>1, <1>2, <1>3 DEF LookupInv, ListCalls, FirstKept, Printed

\* A step of the resolver changes neither the call nor what list has kept,
\* and there is none once the resolver has returned.
LEMMA ResolverStepKeeps ==
  ASSUME LookupInv, ResolverStep
  PROVE  LookupInv'
<1>1. Next /\ UNCHANGED <<command, doing, directory, irp, flags, printed>>
  BY DEF ResolverStep, list
<1>2. /\ UNCHANGED <<mode, targets, count, contents, kind>>
      /\ pc # "returned"
  BY <1>1 DEF Next, Listed, ListingHangs, ListingFails, OpenRepository, Consider,
     UriUnreadable, CloseRepository, Filter, JoinPaths, Download, ReturnAvailable, call
<1>3. AskedInv'
  BY <1>1, AskedNext DEF LookupInv
<1>4. DirectoryListed'
  <2> SUFFICES ASSUME mode = "installed" PROVE DirectoryListed'
    BY <1>2 DEF DirectoryListed
  <2>1. count = 1 /\ at = 1 /\ result = "none"
        /\ status \in [Repositories -> {"unknown", "ok", "error"}]
    BY <1>2 DEF LookupInv, DirectoryListed, AskedInv, GoneThrough, Answered,
       ResolverInv, TypeOK
  <2>2. CASE \E r \in Repositories : Listed(r) \/ ListingHangs(r) \/ ListingFails(r)
    BY <1>2, <2>1, <2>2 DEF Listed, ListingHangs, ListingFails, DirectoryListed
  <2>3. CASE ~ \E r \in Repositories : Listed(r) \/ ListingHangs(r) \/ ListingFails(r)
    <3>1. UNCHANGED status /\ pc # "list"
      BY <1>1, <2>3 DEF Next, OpenRepository, Consider, UriUnreadable,
         CloseRepository, Filter, JoinPaths, Download, ReturnAvailable
    <3> QED
      BY <1>2, <2>1, <3>1 DEF LookupInv, DirectoryListed
  <2> QED
    BY <2>2, <2>3
<1>5. ListCalls' /\ FirstKept' /\ Printed'
  BY <1>1, <1>2 DEF LookupInv, ListCalls, FirstKept, Printed
<1> QED
  BY <1>3, <1>4, <1>5 DEF LookupInv

\* Reading certificates, and what follows a failed or another lookup.
LEMMA OtherStepKeeps ==
  ASSUME LookupInv, TrustStep \/ TlsSetupFails \/ Fails \/ AddDies \/ Change
  PROVE  LookupInv'
<1>1. UNCHANGED <<mode, targets, count, contents, kind, at, status, entries, unread,
                  resolved, considered, command, directory, irp, flags, printed>>
  BY DEF TrustStep, TlsSetupFails, Fails, AddDies, Change, vars, call, list
<1>2. doing' = doing \/ doing' \in {"failed", "died", "change"}
  BY DEF TrustStep, TlsSetupFails, Fails, AddDies, Change
<1>3. \/ UNCHANGED <<pc, result>>
      \/ mode # "installed" /\ pc # "returned" /\ pc' = "returned" /\ result' = "error"
  BY DEF TrustStep, TlsSetupFails, Fails, AddDies, Change, vars, OnNetwork
<1>4. ResolverInv'
  BY <1>1, <1>3 DEF LookupInv, AskedInv, ResolverInv, TypeOK, NoneForgotten, ResolvesNewest
<1>5. GoneThrough' /\ Answered'
  <2>1. UNCHANGED <<Offered, All>>
    BY <1>1 DEF Offered, All
  <2>2. GoneThrough /\ Answered
    BY DEF LookupInv, AskedInv
  <2>3. GoneThrough'
    BY <1>1, <1>3, <2>1, <2>2 DEF GoneThrough
  <2>4. Answered'
    BY <1>1, <1>3, <2>1, <2>2 DEF Answered
  <2> QED
    BY <2>3, <2>4
<1>6. DirectoryListed' /\ ListCalls' /\ FirstKept'
  BY <1>1, <1>2, <1>3 DEF LookupInv, DirectoryListed, ListCalls, FirstKept
<1>7. Printed'
  BY <1>1, <1>2, <1>3 DEF LookupInv, Printed, VersionsOf
<1> QED
  BY <1>4, <1>5, <1>6, <1>7 DEF LookupInv, AskedInv

\* The versions of what is resolved are those of the newest of what was gone
\* through, when all of it was asked for.
LEMMA VersionsAreNewest ==
  ASSUME LookupInv, pc = "returned", result = "ok", All
  PROVE  NewestOf({c[2] : c \in considered}, VersionsOf)
<1>1. \A c \in considered : c[2].name \in DOMAIN resolved
  BY DEF LookupInv, AskedInv, Answered
<1>2. ResolvesNewest
  BY DEF LookupInv, AskedInv, ResolverInv
<1>3. ASSUME NEW n \in DOMAIN resolved
      PROVE  /\ \E z \in {c[2] : c \in considered} :
                  z.name = n /\ z.version = resolved[n].version
             /\ \A z \in {c[2] : c \in considered} :
                  z.name = n => z.version <= resolved[n].version
  <2>1. <<resolved[n].repository, [name |-> n, version |-> resolved[n].version]>>
          \in considered
    BY <1>2 DEF ResolvesNewest
  <2>2. [name |-> n, version |-> resolved[n].version] \in {c[2] : c \in considered}
    BY <2>1
  <2> QED
    BY <1>2, <2>2 DEF ResolvesNewest
<1>4. DOMAIN VersionsOf = DOMAIN resolved
      /\ \A n \in DOMAIN resolved : VersionsOf[n] = resolved[n].version
  BY DEF VersionsOf
<1>5. DOMAIN resolved = {z.name : z \in {c[2] : c \in considered}}
  <2> DEFINE zips == {c[2] : c \in considered}
  <2>1. \A z \in zips : z.name \in DOMAIN resolved
    BY <1>1
  <2>2. \A n \in DOMAIN resolved : \E z \in zips : z.name = n
    BY <1>3
  <2> HIDE DEF zips
  <2>3. DOMAIN resolved = {z.name : z \in zips}
    BY <2>1, <2>2
  <2> QED
    BY <2>3 DEF zips
<1> QED
  BY <1>3, <1>4, <1>5 DEF NewestOf

\* Of a directory, that is all of it.
LEMMA InstalledAreNewest ==
  ASSUME LookupInv, ListInstalled
  PROVE  /\ contents[1] \subseteq Zip
         /\ NewestOf(contents[1], VersionsOf)
<1>1. /\ command = "list" /\ mode = "installed" /\ pc = "returned" /\ result = "ok"
      /\ All
  BY DEF ListInstalled, Resolved, LookupInv, ListCalls, All
<1>2. count = 1 /\ status[1] = "ok"
  BY <1>1 DEF LookupInv, DirectoryListed
<1>3. considered = {<<1, e>> : e \in contents[1]}
  BY <1>1, <1>2 DEF LookupInv, AskedInv, GoneThrough, Offered
<1>4. {c[2] : c \in considered} = contents[1]
  <2>1. \A z \in contents[1] : <<1, z>> \in considered /\ <<1, z>>[2] = z
    BY <1>3
  <2>2. \A c \in considered : c[2] \in contents[1]
    BY <1>3
  <2> QED
    BY <2>1, <2>2
<1>5. contents[1] \subseteq Zip
  BY MaxRepositoriesAssumption DEF LookupInv, AskedInv, ResolverInv, TypeOK, Repositories
<1> QED
  BY <1>1, <1>4, <1>5, VersionsAreNewest

\* The second resolution of list starts as the first did.
LEMMA SecondStarts ==
  ASSUME LookupInv, ListAvailable
  PROVE  LookupInv'
<1>1. Init'
  <2>1. /\ kind' \in [Repositories -> {"file", "network"}]
        /\ contents' \in [Repositories -> SUBSET Zip]
        /\ mode' = "available" /\ targets' = {} /\ count' \in 0 .. MaxRepositories
        /\ \A r \in Repositories : r > count' => contents'[r] = {} /\ kind'[r] = "file"
    BY DEF ListAvailable
  <2>2. /\ pc' = FirstStep(count') /\ at' = 1
        /\ status' = [r \in Repositories |-> "unknown"]
        /\ entries' = [r \in Repositories |-> {}]
        /\ unread' = {} /\ resolved' = <<>> /\ result' = "none" /\ considered' = {}
    BY DEF ListAvailable
  <2> QED
    BY <2>1, <2>2 DEF Init, Modes, FirstStep
<1>2. AskedInv'
  <2>1. Init' => AskedInv'
    BY AskedInit, PTL
  <2> QED
    BY <1>1, <2>1
<1>3. /\ command = "list" /\ UNCHANGED <<command, doing>> /\ doing = "lookup"
      /\ mode' = "available" /\ targets' = {}
      /\ directory' = contents[1] /\ irp' = VersionsOf
  BY DEF ListAvailable, ListInstalled, Resolved
<1>4. directory' \subseteq Zip /\ NewestOf(directory', irp')
  BY <1>3, InstalledAreNewest DEF ListAvailable
<1>5. FirstKept'
  BY <1>4 DEF FirstKept
<1> QED
  BY <1>2, <1>3, <1>5 DEF LookupInv, DirectoryListed, ListCalls, Printed

LEMMA PrintingKeeps ==
  ASSUME LookupInv, PrintInstalled \/ PrintList
  PROVE  LookupInv'
<1>1. UNCHANGED <<vars, command>>
      /\ command = "list" /\ pc = "returned" /\ result = "ok" /\ doing' = "printed"
  BY DEF PrintInstalled, PrintList, PutOut, ListInstalled, Resolved
<1>2. AskedInv' /\ DirectoryListed' /\ ListCalls'
  BY <1>1 DEF vars, LookupInv, AskedInv, ResolverInv, TypeOK, NoneForgotten, ResolvesNewest,
     GoneThrough, Offered, Answered, All, DirectoryListed, ListCalls
<1>3. CASE PrintInstalled
  <2>1. /\ mode = "installed" /\ directory' = contents[1] /\ irp' = VersionsOf
        /\ flags' = {"installed"}
        /\ printed' = Shown(VersionsOf, <<>>, {"installed"})
    BY <1>3 DEF PrintInstalled, ListInstalled, PutOut
  <2>2. directory' \subseteq Zip /\ NewestOf(directory', irp')
    BY <1>3, <2>1, InstalledAreNewest DEF PrintInstalled
  <2>3. FirstKept'
    BY <2>2 DEF FirstKept
  <2>4. Printed'
    BY <1>1, <2>1 DEF Printed, vars
  <2> QED
    BY <1>2, <2>3, <2>4 DEF LookupInv
<1>4. CASE PrintList
  <2>1. /\ mode = "available" /\ UNCHANGED <<directory, irp>>
        /\ printed' = Shown(irp, VersionsOf, flags')
    BY <1>4 DEF PrintList, PutOut
  <2>2. FirstKept'
    BY <1>1, <2>1 DEF FirstKept, LookupInv
  <2>3. UNCHANGED <<VersionsOf, mode>>
    BY <1>1 DEF vars, VersionsOf
  <2>4. Printed'
    BY <1>1, <2>1, <2>3 DEF Printed, vars
  <2> QED
    BY <1>2, <2>2, <2>4 DEF LookupInv
<1> QED
  BY <1>3, <1>4

LEMMA LookupSteps == LookupInv /\ [LookupNext]_lookupVars => LookupInv'
<1> SUFFICES ASSUME LookupInv, [LookupNext]_lookupVars PROVE LookupInv'
  OBVIOUS
<1>1. CASE LookupNext
  BY <1>1, ResolverStepKeeps, OtherStepKeeps, SecondStarts, PrintingKeeps DEF LookupNext
<1>2. CASE UNCHANGED lookupVars
  <2>1. UNCHANGED <<mode, targets, count, contents, kind, pc, at, status, entries, unread,
                    resolved, result, considered, command, doing, directory, irp, flags,
                    printed>>
    BY <1>2 DEF lookupVars, vars, list
  <2> QED
    BY <2>1 DEF LookupInv, AskedInv, ResolverInv, TypeOK, NoneForgotten, ResolvesNewest,
       GoneThrough, Offered, Answered, All, DirectoryListed, ListCalls, FirstKept, Printed,
       VersionsOf
<1> QED
  BY <1>1, <1>2

\* What list works out from two resolutions is what its flags describe.
LEMMA ShownIsMeant ==
  ASSUME directory \subseteq Zip, Available \subseteq Zip,
         NEW available, NewestOf(directory, irp), NewestOf(Available, available),
         NEW only
  PROVE  Shown(irp, available, only) =
           {n \in Names :
              /\ Holds(directory, n) \/ Holds(Available, n)
              /\ "installed" \in only => Holds(directory, n)
              /\ "available" \in only => Holds(Available, n)
              /\ "orphaned" \in only => Holds(directory, n) /\ ~ Holds(Available, n)
              /\ "upgradable" \in only => IsUpgrade(n)}
<1>1. \A n : n \in DOMAIN irp <=> Holds(directory, n)
  BY DEF NewestOf, Holds
<1>2. \A n : n \in DOMAIN available <=> Holds(Available, n)
  BY DEF NewestOf, Holds
<1>3. \A z \in directory \cup Available : z.name \in Names /\ z.version \in Nat
  BY VersionsAssumption DEF Zip
<1>4. DOMAIN irp \cup DOMAIN available \subseteq Names
  BY <1>3 DEF NewestOf
<1>5. ASSUME NEW n
      PROVE  IsUpgrade(n) <=> /\ n \in DOMAIN irp \cap DOMAIN available
                              /\ VersionIsGreater(available[n], irp[n])
  <2>1. ASSUME IsUpgrade(n)
        PROVE  /\ n \in DOMAIN irp \cap DOMAIN available
               /\ VersionIsGreater(available[n], irp[n])
    <3>1. PICK new \in Available :
            /\ new.name = n /\ Holds(directory, n)
            /\ \A old \in directory : old.name = n => new.version > old.version
      BY <2>1 DEF IsUpgrade
    <3>2. n \in DOMAIN irp /\ n \in DOMAIN available
      BY <1>1, <1>2, <3>1 DEF Holds
    <3>3. PICK old \in directory : old.name = n /\ old.version = irp[n]
      BY <3>2 DEF NewestOf
    <3>4. PICK z \in Available : z.name = n /\ z.version = available[n]
      BY <3>2 DEF NewestOf
    <3>5. new.version <= available[n] /\ new.version > irp[n]
      BY <3>1, <3>2, <3>3 DEF NewestOf
    <3>6. available[n] > irp[n]
      BY <1>3, <3>3, <3>4, <3>5
    <3> QED
      BY <3>2, <3>6 DEF VersionIsGreater
  <2>2. ASSUME n \in DOMAIN irp, n \in DOMAIN available, available[n] > irp[n]
        PROVE  IsUpgrade(n)
    <3>1. PICK new \in Available : new.name = n /\ new.version = available[n]
      BY <2>2 DEF NewestOf
    <3>2. PICK z \in directory : z.name = n /\ z.version = irp[n]
      BY <2>2 DEF NewestOf
    <3>3. ASSUME NEW old \in directory, old.name = n
          PROVE  new.version > old.version
      <4>1. old.version <= irp[n]
        BY <2>2, <3>3 DEF NewestOf
      <4> QED
        BY <1>3, <2>2, <3>1, <3>2, <4>1
    <3> QED
      BY <1>1, <2>2, <3>1, <3>3 DEF IsUpgrade
  <2> QED
    BY <2>1, <2>2 DEF VersionIsGreater
<1> QED
  BY <1>1, <1>2, <1>4, <1>5 DEF Shown

\* Whatever the flags, the directory and the repositories, list prints the
\* packages the flags describe and no others.
THEOREM ListMeantCorrect == LookupSpec => []ListMeant
<1>1. LookupInv => ListMeant
  <2> SUFFICES ASSUME LookupInv, doing = "printed" PROVE ListMeant
    BY DEF ListMeant
  <2> DEFINE available == IF mode = "available" THEN VersionsOf ELSE <<>>
  <2>1. /\ command = "list" /\ pc = "returned" /\ result = "ok"
        /\ printed = Shown(irp, available, flags)
    BY DEF LookupInv, Printed
  <2>2. directory \subseteq Zip /\ NewestOf(directory, irp)
    BY <2>1 DEF LookupInv, FirstKept
  <2>3. Available \subseteq Zip
    BY DEF Available, LookupInv, AskedInv, ResolverInv, TypeOK
  <2>4. NewestOf(Available, available)
    <3>1. CASE mode = "available"
      <4>1. All
        BY <2>1, <3>1 DEF LookupInv, ListCalls, All
      <4> QED
        BY <2>1, <3>1, <4>1, VersionsAreNewest DEF Available
    <3>2. CASE mode # "available"
      <4>1. Available = {} /\ available = <<>>
        BY <3>2 DEF Available
      <4> QED
        BY <4>1 DEF NewestOf
    <3> QED
      BY <3>1, <3>2
  <2> HIDE DEF available
  <2> QED
    BY <2>1, <2>2, <2>3, <2>4, ShownIsMeant DEF ListMeant
<1> QED
  BY <1>1, LookupStarts, LookupSteps, PTL DEF LookupSpec

\* The resolver's promises hold of both resolutions of list, and of the one
\* of add, del and fix.
THEOREM EachLookupResolves == LookupSpec => [](TypeOK /\ ResolvesNewest /\ ResolvesAsked)
<1>1. LookupInv => TypeOK /\ ResolvesNewest /\ ResolvesAsked
  BY AskedMeansAsked DEF LookupInv, AskedInv, ResolverInv
<1> QED
  BY <1>1, LookupStarts, LookupSteps, PTL DEF LookupSpec
=============================================================================
