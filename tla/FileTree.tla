------------------------------ MODULE FileTree ------------------------------
(***************************************************************************)
(* The part of a POSIX file system zpk works on: the sysroot and what lies  *)
(* below it, and the calls of the compatibility layer (oscompatlayer.c) and *)
(* of the C library that change it.  A path is the sequence of its names    *)
(* below the sysroot, so <<>> is the sysroot itself.  A file is known by    *)
(* the crc32 of its contents, the only thing zpk ever compares.             *)
(*                                                                          *)
(* Each call is an operator from the tree before to the tree after; a call  *)
(* that fails leaves the tree alone, and its caller only logs (fsops.c).    *)
(***************************************************************************)
EXTENDS Integers, FiniteSets, SequencesExt

CONSTANTS
  Paths,        \* the paths of the instance, the sysroot included
  Crcs,         \* checksums
  ZeroCrc       \* the checksum of an empty file, and that of a directory

Sysroot == <<>>

ASSUME PathsAssumption ==
  /\ IsFiniteSet(Paths)
  /\ Paths \subseteq Seq(UNION {{q[i] : i \in DOMAIN q} : q \in Paths})
  /\ Sysroot \in Paths
  /\ \A q \in Paths : \A k \in 0 .. Len(q) : SubSeq(q, 1, k) \in Paths

ASSUME CrcsAssumption == ZeroCrc \in Crcs

(***************************************************************************)
(* What path_type_portable and file_crc32 can tell of a path.               *)
(***************************************************************************)
Missing == [kind |-> "missing", crc |-> ZeroCrc]
Directory == [kind |-> "dir", crc |-> ZeroCrc]
File(c) == [kind |-> "file", crc |-> c]

Node == {Missing, Directory} \cup {File(c) : c \in Crcs}

Tree == [Paths -> Node]

IsBelow(q, p) == IsStrictPrefix(p, q)

\* Every node lies in a directory.
WellFormed(t) ==
  \A q \in Paths \ {Sysroot} :
    t[q].kind # "missing" => t[Front(q)].kind = "dir"

\* The directory that would hold p is there: no call creates parents.  That
\* of the sysroot is not modelled and taken to exist.
HasParent(t, p) == p = Sysroot \/ t[Front(p)].kind = "dir"

IsEmpty(t, p) == \A q \in Paths : IsBelow(q, p) => t[q] = Missing

(***************************************************************************)
(* The calls.                                                               *)
(***************************************************************************)
\* mkdir_portable
MakeDir(t, p) ==
  IF t[p] = Missing /\ HasParent(t, p)
    THEN [t EXCEPT ![p] = Directory]
    ELSE t

\* rmdir_portable
RemoveDir(t, p) ==
  IF t[p].kind = "dir" /\ IsEmpty(t, p)
    THEN [t EXCEPT ![p] = Missing]
    ELSE t

\* remove, which takes files and empty directories alike
RemovePath(t, p) ==
  IF t[p].kind = "file" \/ (t[p].kind = "dir" /\ IsEmpty(t, p))
    THEN [t EXCEPT ![p] = Missing]
    ELSE t

\* fopen(p, "wb") succeeds
CanWrite(t, p) == HasParent(t, p) /\ t[p].kind # "dir"

\* mz_zip_reader_extract_to_file, when what it wrote has checksum c
WriteFile(t, p, c) ==
  IF CanWrite(t, p)
    THEN [t EXCEPT ![p] = File(c)]
    ELSE t

\* rename: a file replaces a file, a directory an empty directory
CanRename(t, from, to) ==
  /\ from # to
  /\ ~ IsBelow(to, from)
  /\ HasParent(t, to)
  /\ CASE t[from].kind = "missing" -> FALSE
       [] t[from].kind = "file"    -> t[to].kind # "dir"
       [] t[from].kind = "dir"     -> t[to].kind # "file" /\ IsEmpty(t, to)

\* q, which is `to` or lies below it, as it was called before the rename
Source(q, from, to) == from \o SubSeq(q, Len(to) + 1, Len(q))

\* rename_portable: all that lies below `from` moves with it
Rename(t, from, to) ==
  IF CanRename(t, from, to)
    THEN [q \in Paths |->
           IF q = to \/ IsBelow(q, to)
             THEN IF Source(q, from, to) \in Paths
                    THEN t[Source(q, from, to)] ELSE Missing
           ELSE IF q = from \/ IsBelow(q, from) THEN Missing
           ELSE t[q]]
    ELSE t
=============================================================================
