----------------------------- MODULE FileClaims -----------------------------
(***************************************************************************)
(* fileclaims_collect (index.c): the claims of one zip, entry by entry and, *)
(* for each entry, parent directory by parent directory.  The order of the  *)
(* entries in a zip is arbitrary.                                           *)
(*                                                                          *)
(* An entry is what the zip reader tells of it, after normalize(): `usable` *)
(* is false when its statistics cannot be read, its name is invalid, or it  *)
(* is a file in a form miniz cannot extract.                                *)
(***************************************************************************)
EXTENDS FileTree

CONSTANTS MaxEntries      \* bound of the instance: entries in a zip

ASSUME MaxEntriesAssumption == MaxEntries \in Nat

VARIABLES
  zip,          \* the entries read so far
  position,     \* of the last one: components of its path dealt with
  claims        \* path -> claim

vars == <<zip, position, claims>>

Names == Paths \ {Sysroot}

\* The crc of a directory entry is not looked at (index.c:115).
Entry ==
  {e \in [path : Names, isDir : BOOLEAN, crc : Crcs, usable : BOOLEAN] :
     /\ e.isDir => e.usable /\ e.crc = ZeroCrc
     /\ ~ e.usable => e.crc = ZeroCrc}

Claim == [isDir : BOOLEAN, crc : Crcs, index : Nat]

current == zip[Len(zip)]

\* The claim of the directory that holds an entry, and that of the entry.
ImpliedDir == [isDir |-> TRUE, crc |-> ZeroCrc, index |-> 0]

OwnClaim == [isDir |-> current.isDir, index |-> Len(zip),
             crc |-> IF current.isDir THEN ZeroCrc ELSE current.crc]

Init == zip = <<>> /\ position = 0 /\ claims = <<>>

Idle == zip # <<>> => position = Len(current.path)

\* Mutant: entries that cannot be used are claimed as well.
ReadAnyEntry(e) ==
  /\ Idle /\ Len(zip) < MaxEntries
  /\ zip' = Append(zip, e)
  /\ position' = 0
  /\ UNCHANGED claims

ReadEntry(e) ==
  /\ Idle /\ Len(zip) < MaxEntries
  /\ zip' = Append(zip, e)
  /\ position' = IF e.usable THEN 0 ELSE Len(e.path)
  /\ UNCHANGED claims

\* Mutant: the path is cut before the component, not after it.
ComponentBefore == SubSeq(current.path, 1, position)

\* The path up to and including the next component
Component == SubSeq(current.path, 1, position + 1)

\* Mutant: a second claim replaces the first.
InsertLast(path, claim) ==
  claims' = [q \in DOMAIN claims \cup {path} |->
               IF q = path THEN claim ELSE claims[q]]

\* insert_file_claim where it inserts: what is claimed stays as it was.
Insert(path, claim) ==
  claims' = [q \in DOMAIN claims \cup {path} |->
               IF q \in DOMAIN claims THEN claims[q] ELSE claim]

\* Mutant: a file that is there already passes for the directory.
CompatibleAlways(path, claim) == TRUE

\* Mutant: two entries in one directory conflict.
CompatibleIfNew(path, claim) == path \notin DOMAIN claims

\* insert_file_claim's result
Compatible(path, claim) ==
  path \in DOMAIN claims => claims[path].isDir /\ claim.isDir

ClaimParent ==
  /\ ~ Idle /\ position + 1 < Len(current.path)
  /\ Compatible(Component, ImpliedDir)
  /\ Insert(Component, ImpliedDir)
  /\ position' = position + 1
  /\ UNCHANGED zip

\* A file is in the way: the entry is left out.
ParentConflict ==
  /\ ~ Idle /\ position + 1 < Len(current.path)
  /\ ~ Compatible(Component, ImpliedDir)
  /\ position' = Len(current.path)
  /\ UNCHANGED <<zip, claims>>

\* Compatible or not, no claim follows it.
ClaimEntry ==
  /\ ~ Idle /\ position + 1 = Len(current.path)
  /\ Insert(Component, OwnClaim)
  /\ position' = position + 1
  /\ UNCHANGED zip

Next ==
  \/ \E e \in Entry : ReadEntry(e)
  \/ ClaimParent \/ ParentConflict \/ ClaimEntry

Spec == Init /\ [][Next]_vars

(***************************************************************************)
(* Properties.                                                              *)
(***************************************************************************)
TypeOK ==
  /\ zip \in Seq(Entry)
  /\ position \in Nat
  /\ zip # <<>> => position <= Len(current.path)
  /\ DOMAIN claims \subseteq Names
  /\ \A q \in DOMAIN claims : claims[q] \in Claim

\* Whatever the order of the entries, at every step what holds a claimed path
\* is claimed as a directory: the claims can be installed from the outside in
\* and removed from the inside out (index.c:100-113, and what the index of
\* Transaction assumes of them).
ClaimsAreTree ==
  \A q \in DOMAIN claims :
    Front(q) # Sysroot =>
      Front(q) \in DOMAIN claims /\ claims[Front(q)].isDir

\* A file is claimed for, and will be extracted from, the first usable entry of
\* its name, and only if no usable entry before it lies below that name: later
\* ones are skipped ("skipping duplicate", index.c:53).
FirstEntryWins ==
  \A q \in DOMAIN claims : ~ claims[q].isDir =>
    LET i == claims[q].index IN
    /\ i \in DOMAIN zip /\ zip[i].path = q /\ ~ zip[i].isDir
    /\ claims[q].crc = zip[i].crc
    /\ \A j \in 1 .. (i - 1) :
         zip[j].usable => zip[j].path # q /\ ~ IsBelow(zip[j].path, q)

\* An entry that is left out leaves no directory behind: whatever is claimed
\* is, or holds, an entry of the zip whose own path is claimed.
NoStrayDirectories ==
  Idle =>
    \A q \in DOMAIN claims : \E i \in DOMAIN zip :
      LET e == zip[i] IN
      /\ e.usable /\ (q = e.path \/ IsBelow(e.path, q))
      /\ e.path \in DOMAIN claims /\ claims[e.path].isDir = e.isDir

\* A usable entry is left out only for another: a file that would hold it, or
\* the same path.
LeftOutForAnother ==
  Idle =>
    \A i \in DOMAIN zip :
      LET e == zip[i] IN
      e.usable =>
        \/ e.path \in DOMAIN claims
        \/ \E q \in DOMAIN claims : IsBelow(e.path, q) /\ ~ claims[q].isDir
=============================================================================
