---------------------------- MODULE PackageIndex ----------------------------
(***************************************************************************)
(* The FileIndex of index.c: which installed packages claim a path, and the *)
(* simulated status of each path zpk has looked at.                         *)
(*                                                                          *)
(* A package is its claims, what fileclaims_collect returns for its zip.    *)
(* They never change while zpk runs, so the two maps of the index that hold *)
(* packages and claims are known from the set of packages merged into it:   *)
(* path q is claimed by the packages of that set whose claims hold q.       *)
(***************************************************************************)
EXTENDS FileTree

CONSTANTS
  Packages,
  Claims,       \* Claims[p]: path -> claim, the claims of package p
  SaveName      \* SaveName[n]: the name n with ".zpksave" appended

Claim == [isDir : BOOLEAN, crc : Crcs]

DirClaim == [isDir |-> TRUE, crc |-> ZeroCrc]
FileClaim(c) == [isDir |-> FALSE, crc |-> c]

Claimed(p) == DOMAIN Claims[p]

\* joinstr2(path, ".zpksave")
Save(q) == Append(Front(q), SaveName[Last(q)])

\* fileclaims_collect claims every parent directory of what it claims
\* (index.c:99-111) and gives directories the checksum 0.
ASSUME ClaimsAssumption ==
  \A p \in Packages :
    /\ Claimed(p) \subseteq Paths \ {Sysroot}
    /\ \A q \in Claimed(p) :
         /\ Claims[p][q] \in Claim
         /\ Claims[p][q].isDir => Claims[p][q] = DirClaim
         /\ Front(q) # Sysroot =>
              Front(q) \in Claimed(p) /\ Claims[p][Front(q)] = DirClaim

\* No two claims are saved under the same name.
SavesDiffer(p) == \A q, r \in Claimed(p) : Save(q) = Save(r) => q = r

\* The paths hold whatever a diversion can rename, so nothing is lost by
\* leaving the instance; no two names are the same with ".zpksave" appended.
ASSUME SaveAssumption ==
  \A p \in Packages :
    /\ SavesDiffer(p)
    /\ \A q \in Claimed(p) :
         /\ Save(q) \in Paths /\ Save(q) # q
         /\ \A r \in Paths : IsBelow(r, q) => Source(r, Save(q), q) \in Paths

(***************************************************************************)
(* FileStatus.  `seen` says whether the map of statuses has a node for the  *)
(* path; a node is born with every field zero.                              *)
(***************************************************************************)
Status == [seen : BOOLEAN, exists : BOOLEAN, isDir : BOOLEAN, crc : Crcs]

Unseen == [seen |-> FALSE, exists |-> FALSE, isDir |-> FALSE, crc |-> ZeroCrc]

NoStatuses == [q \in Paths |-> Unseen]

\* fileindex_contains_package, merge_claims_into_index and
\* remove_claims_from_index: all claims of a package come and go at once, and
\* those of the others stay.
ContainsPackage(index, p) == p \in index

MergeClaims(index, p) == index \cup {p}

RemoveClaims(index, p) == index \ {p}

\* Mutant: isDir is never set.
ObservedAsFile(n) ==
  [seen |-> TRUE, exists |-> n.kind # "missing", isDir |-> FALSE, crc |-> n.crc]

\* What fileindex_ensure_actual records of a path it can read.
Observed(n) ==
  [seen |-> TRUE, exists |-> n.kind # "missing", isDir |-> n.kind = "dir",
   crc |-> n.crc]

(***************************************************************************)
(* fileindex_ensure_actual: a path is read from the disk once; later calls  *)
(* return the simulated status.  When the read fails the node stays as it   *)
(* was born, and the caller gets NULL, but only this once.                  *)
(***************************************************************************)
EnsureActual(st, t, q, readable) ==
  IF st[q].seen THEN st
  ELSE [st EXCEPT ![q] = IF readable THEN Observed(t[q])
                                     ELSE [Unseen EXCEPT !.seen = TRUE]]

\* Mutant: the checksums are not compared.
IsMatchByKind(s, c) == s.exists /\ s.isDir = c.isDir

\* is_match
IsMatch(s, c) == s.exists /\ s.isDir = c.isDir /\ s.crc = c.crc

\* Mutant: the comparison of the package names is inverted.
MatchesItself(st, index, p, q) ==
  \E o \in index \cap {p} : q \in Claimed(o) /\ IsMatch(st[q], Claims[o][q])

\* compute_match_status's matchesother: another package of the index
\* claims what is at q.
MatchesOther(st, index, p, q) ==
  \E o \in index \ {p} : q \in Claimed(o) /\ IsMatch(st[q], Claims[o][q])

MatchesUs(st, p, q) == IsMatch(st[q], Claims[p][q])

\* What p installs at q is there, asked of the disk itself.
OnDisk(t, p, q) ==
  /\ q \in Claimed(p)
  /\ t[q].kind = IF Claims[p][q].isDir THEN "dir" ELSE "file"
  /\ t[q].crc = Claims[p][q].crc
=============================================================================
