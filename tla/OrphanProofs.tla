----------------------------- MODULE OrphanProofs -----------------------------
(***************************************************************************)
(* NoOrphans: what a package leaves behind when its zip is moved, for any    *)
(* packages, trees, commands and crashes.  The first section is about the    *)
(* steps that do not move a zip, and about what they may make of a path a    *)
(* removed package claimed; the second about what a plan of `del` owes; the  *)
(* third puts them together.  The rest is about a `del` beside which another *)
(* process removes things, for TwoProcessesProofs.                           *)
(***************************************************************************)
EXTENDS TransactionProofs

(***************************************************************************)
(* What an operation of `fix` empties or moves away lay in directories the   *)
(* package it is planned for claims, and what it makes is a claim of that    *)
(* package.                                                                  *)
(***************************************************************************)
FixOp(op, I) ==
  /\ op.kind \notin {"RENAME_ZIP", "RMDIR"}
  /\ op.kind = "MKDIR" =>
       op.path = Sysroot \/ \E o \in I : op.path \in Claimed(o) /\ Claims[o][op.path].isDir
  /\ op.kind = "CREATEFILE" =>
       \E o \in I : op.path \in Claimed(o) /\ Claims[o][op.path].isDir = FALSE
                      /\ Claims[o][op.path].crc = op.crc
  /\ op.kind \in {"REMOVEFILE", "RMDIR_FREED"} =>
       \E o \in I : \E s \in Claimed(o) : op.path = Save(s) \/ IsBelow(op.path, Save(s))
  /\ op.kind = "RENAME" =>
       \E o \in I : op.from \in Claimed(o) /\ op.to = Save(op.from)

\* What is at q is as it was, or an installed package has it, or it is nobody's.
Covered(t, t2, I, q) ==
  \/ t2[q] = t[q] /\ (t[q].kind = "dir" /\ ~ IsEmpty(t, q) => ~ IsEmpty(t2, q))
  \/ \E o \in I : OnDisk(t2, o, q)
  \/ \A p \in Packages : ~ OnDisk(t2, p, q)

\* RemovedLeavesNothing, when only the packages in F are ever fixed.
LeftNothing(F) ==
  \A p \in Packages \ installed : \A q \in Claimed(p) :
    OnDisk(disk, p, q) =>
      \/ \E o \in installed : OnDisk(disk, o, q)
      \/ Claims[p][q].isDir /\ ~ IsEmpty(disk, q)
      \/ IsSaved(F, q)

\* What is covered by some packages is covered by more.
LEMMA CoveredByMore ==
  ASSUME NEW I, NEW J \in SUBSET I, NEW t, NEW t2, NEW q, Covered(t, t2, J, q)
  PROVE  Covered(t, t2, I, q)
BY DEF Covered

\* If that is so of every path that is not a saved copy, nothing new is left.
LEMMA CoveredLeavesNothing ==
  ASSUME TypeOK, NEW F, LeftNothing(F), UNCHANGED installed,
         \A q \in Paths \ {Sysroot} : IsSaved(F, q) \/ Covered(disk, disk', installed, q)
  PROVE  LeftNothing(F)'
<1> SUFFICES ASSUME NEW p \in Packages \ installed, NEW q \in Claimed(p),
                    OnDisk(disk', p, q), ~ IsSaved(F, q)
             PROVE  \/ \E o \in installed : OnDisk(disk', o, q)
                    \/ Claims[p][q].isDir /\ ~ IsEmpty(disk', q)
  BY DEF LeftNothing
<1>1. q \in Paths \ {Sysroot} /\ Claims[p][q].isDir \in BOOLEAN
  BY ClaimsAssumption DEF Claim
<1>2. Covered(disk, disk', installed, q)
  BY <1>1
<1>3. CASE /\ disk'[q] = disk[q]
           /\ disk[q].kind = "dir" /\ ~ IsEmpty(disk, q) => ~ IsEmpty(disk', q)
  <2>1. OnDisk(disk, p, q)
    BY <1>3 DEF OnDisk
  <2>2. \/ \E o \in installed : OnDisk(disk, o, q)
        \/ Claims[p][q].isDir /\ ~ IsEmpty(disk, q)
    BY <2>1 DEF LeftNothing
  <2>3. ASSUME NEW o \in installed, OnDisk(disk, o, q) PROVE OnDisk(disk', o, q)
    BY <1>3, <2>3 DEF OnDisk
  <2>4. Claims[p][q].isDir => disk[q].kind = "dir"
    BY <2>1 DEF OnDisk
  <2> QED
    BY <1>3, <2>2, <2>3, <2>4
<1> QED
  BY <1>2, <1>3 DEF Covered

\* What lies above a claim and above its .zpksave name is the same.
LEMMA AboveSaved ==
  ASSUME NEW o \in Packages, NEW s \in Claimed(o), NEW q \in Paths
  PROVE  IsBelow(Save(s), q) <=> IsBelow(s, q)
<1>1. s \in Paths /\ s # Sysroot /\ Save(s) \in Paths
  BY ClaimsAssumption, SaveAssumption
<1>2. Front(s) \in Seq(PathNames)
  BY <1>1, FrontAbove, PathIsSequence
<1>3. Len(Front(s)) \in Nat
  BY <1>2
<1>4. Save(s) # Sysroot /\ Front(Save(s)) = Front(s)
  <2> DEFINE f == Front(s)
             n == SaveName[Last(s)]
  <2>1. Len(Append(f, n)) = Len(f) + 1 /\ \A i \in 1 .. Len(f) : Append(f, n)[i] = f[i]
    BY <1>2
  <2>2. Append(f, n) # <<>>
    <3>1. Len(Append(f, n)) # 0
      BY <1>3, <2>1
    <3>2. Len(<<>>) = 0
      OBVIOUS
    <3> HIDE DEF f, n
    <3> QED
      BY <3>1, <3>2
  <2>3. Front(Append(f, n)) = SubSeq(Append(f, n), 1, Len(f))
    BY <1>3, <2>1 DEF Front
  <2>4. SubSeq(Append(f, n), 1, Len(f)) = f
    <3> HIDE DEF f, n
    <3>1. f \in Seq(PathNames) /\ Len(f) \in Nat
      BY <1>2 DEF f
    <3>2. SubSeq(Append(f, n), 1, Len(f)) = [i \in 1 .. Len(f) |-> Append(f, n)[i]]
      BY <3>1, <2>1
    <3>3. f = [i \in 1 .. Len(f) |-> f[i]]
      BY <3>1
    <3> QED
      BY <2>1, <3>2, <3>3
  <2> QED
    BY <2>2, <2>3, <2>4 DEF Save, Sysroot
<1>5. IsBelow(s, q) <=> q = Front(s) \/ IsBelow(Front(s), q)
  BY <1>1, FrontAbove
<1>6. IsBelow(Save(s), q) <=> q = Front(Save(s)) \/ IsBelow(Front(Save(s)), q)
  BY <1>1, <1>4, FrontAbove
<1> QED
  BY <1>4, <1>5, <1>6

\* Of two paths above a third one is the other or lies below it.
LEMMA AboveOnePath ==
  ASSUME NEW r \in Paths, NEW p \in Paths, NEW q \in Paths,
         IsBelow(r, p), IsBelow(r, q)
  PROVE  p = q \/ IsBelow(p, q) \/ IsBelow(q, p)
<1>1. /\ r \in Seq(PathNames) /\ p \in Seq(PathNames) /\ q \in Seq(PathNames)
      /\ Len(r) \in Nat /\ Len(p) \in Nat /\ Len(q) \in Nat
  BY PathIsSequence
<1>2. /\ Len(p) < Len(r) /\ \A i \in 1 .. Len(p) : r[i] = p[i]
      /\ Len(q) < Len(r) /\ \A i \in 1 .. Len(q) : r[i] = q[i]
  BY <1>1, BelowMeans
<1>3. CASE Len(p) < Len(q)
  <2>1. \A i \in 1 .. Len(p) : q[i] = p[i]
    BY <1>1, <1>2, <1>3
  <2> QED BY <1>1, <1>3, <2>1, BelowMeans
<1>4. CASE Len(q) < Len(p)
  <2>1. \A i \in 1 .. Len(q) : p[i] = q[i]
    BY <1>1, <1>2, <1>4
  <2> QED BY <1>1, <1>4, <2>1, BelowMeans
<1>5. CASE Len(p) = Len(q)
  <2>1. p = SubSeq(r, 1, Len(p)) /\ q = SubSeq(r, 1, Len(q))
    BY BelowIsCut
  <2> QED BY <1>5, <2>1
<1> QED
  BY <1>1, <1>3, <1>4, <1>5

\* A directory a package claims because it claims something below.
LEMMA DirectoryAboveClaim ==
  ASSUME NEW I \in SUBSET Packages, NEW o \in I, NEW s \in Claimed(o),
         NEW t \in Tree, NEW q \in Paths \ {Sysroot}, IsBelow(s, q),
         t[q].kind = "dir"
  PROVE  \E p \in I : OnDisk(t, p, q)
<1>1. q \in Claimed(o) /\ Claims[o][q] = DirClaim
  BY ClaimsLieInDirectories
<1>2. t[q] = Directory
  BY NodeFields DEF Tree
<1> QED
  BY <1>1, <1>2 DEF OnDisk, DirClaim, Directory

\* Removing one path keeps the rest covered, if an installed package claims it.
LEMMA RemovalCovers ==
  ASSUME NEW I \in SUBSET Packages, NEW t \in Tree, NEW t2 \in Tree,
         NEW f \in Paths, \A r \in Paths : r # f => t2[r] = t[r],
         NEW q \in Paths \ {Sysroot}, t2[q] = t[q],
         IsBelow(f, q) => \E o \in I : \E s \in Claimed(o) : IsBelow(s, q)
  PROVE  Covered(t, t2, I, q)
<1>1. CASE IsBelow(f, q) /\ t[q].kind = "dir"
  BY <1>1, DirectoryAboveClaim DEF Covered
<1>2. CASE ~ (IsBelow(f, q) /\ t[q].kind = "dir")
  <2>1. t[q].kind = "dir" /\ ~ IsEmpty(t, q) => ~ IsEmpty(t2, q)
    BY <1>2 DEF IsEmpty
  <2> QED
    BY <2>1 DEF Covered
<1> QED
  BY <1>1, <1>2

\* It is so of every operation of `fix`: a directory it empties lies above a
\* claim, and so is claimed itself.
LEMMA FixOpCovers ==
  ASSUME NEW I \in SUBSET Packages, NEW t \in Tree, NEW op \in FsOp, FixOp(op, I),
         NEW q \in Paths \ {Sysroot}, ~ IsSaved(I, q)
  PROVE  Covered(t, Effect(t, op), I, q)
<1>1. PICK t2 \in Tree : t2 = Effect(t, op)
  BY EffectType
<1> SUFFICES Covered(t, t2, I, q)
  BY <1>1
<1>2. /\ op.kind \in {"MKDIR", "CREATEFILE", "REMOVEFILE", "RMDIR_FREED", "RENAME"}
      /\ op.kind # "RENAME" => op.path \in Paths
      /\ op.kind = "CREATEFILE" => op.crc \in Crcs
      /\ op.kind = "RENAME" => op.from \in Paths /\ op.to \in Paths
  BY FsOpFields DEF FixOp
<1>3. CASE op.kind = "MKDIR"
  <2>1. /\ \A r \in Paths \ {op.path} : t2[r] = t[r]
        /\ t2[op.path] = t[op.path]
             \/ (t[op.path] = Missing /\ t2[op.path] = Directory)
    BY <1>1, <1>2, <1>3 DEF Effect, MakeDir, Tree
  <2>2. ASSUME t2[q] = t[q], ~ IsEmpty(t, q) PROVE ~ IsEmpty(t2, q)
    BY <2>1, <2>2 DEF IsEmpty, Missing, Directory
  <2>3. CASE t2[q] = t[q]
    BY <2>2, <2>3 DEF Covered
  <2>4. CASE t2[q] # t[q]
    <3>1. q = op.path /\ t2[q] = Directory
      BY <2>1, <2>4
    <3>2. PICK o \in I : q \in Claimed(o) /\ Claims[o][q].isDir
      BY <1>3, <3>1 DEF FixOp
    <3>3. Claims[o][q] = DirClaim
      BY <3>2, ClaimsAssumption
    <3>4. OnDisk(t2, o, q)
      BY <3>1, <3>2, <3>3 DEF OnDisk, DirClaim, Directory
    <3> QED BY <3>4 DEF Covered
  <2> QED
    BY <2>3, <2>4
<1>4. CASE op.kind = "CREATEFILE"
  <2>1. /\ \A r \in Paths \ {op.path} : t2[r] = t[r]
        /\ t2[op.path] = t[op.path] \/ t2[op.path] = File(op.crc)
    BY <1>1, <1>2, <1>4 DEF Effect, WriteFile, Tree
  <2>2. ASSUME t2[q] = t[q], ~ IsEmpty(t, q) PROVE ~ IsEmpty(t2, q)
    BY <2>1, <2>2 DEF IsEmpty, Missing, File
  <2>3. CASE t2[q] = t[q]
    BY <2>2, <2>3 DEF Covered
  <2>4. CASE t2[q] # t[q]
    <3>1. q = op.path /\ t2[q] = File(op.crc)
      BY <2>1, <2>4
    <3>2. PICK o \in I : /\ q \in Claimed(o) /\ Claims[o][q].isDir = FALSE
                         /\ Claims[o][q].crc = op.crc
      BY <1>4, <3>1 DEF FixOp
    <3>3. OnDisk(t2, o, q)
      BY <3>1, <3>2 DEF OnDisk, File
    <3> QED BY <3>3 DEF Covered
  <2> QED
    BY <2>3, <2>4
<1>5. CASE op.kind \in {"REMOVEFILE", "RMDIR_FREED"}
  <2>1. \A r \in Paths \ {op.path} : t2[r] = t[r]
    BY <1>1, <1>2, <1>5 DEF Effect, RemovePath, RemoveDir, Tree
  <2>0. PICK o \in I :
          \E s \in Claimed(o) : op.path = Save(s) \/ IsBelow(op.path, Save(s))
    BY <1>5 DEF FixOp
  <2>2. PICK s \in Claimed(o) : op.path = Save(s) \/ IsBelow(op.path, Save(s))
    BY <2>0
  <2>3. o \in Packages /\ s \in Paths /\ Save(s) \in Paths /\ op.path \in Paths
    BY <1>2, <1>5, ClaimsAssumption, SaveAssumption
  <2>4. q # Save(s) /\ ~ IsBelow(q, Save(s)) /\ q # op.path
    BY <2>2, <2>3 DEF IsSaved
  <2>5. IsBelow(op.path, q) => IsBelow(s, q)
    <3>1. ASSUME IsBelow(op.path, q) PROVE IsBelow(Save(s), q)
      BY <2>2, <2>3, <2>4, <3>1, AboveOnePath
    <3> QED
      BY <2>3, <3>1, AboveSaved
  <2>6. Covered(t, t2, I, q)
    BY <1>1, <2>1, <2>3, <2>4, <2>5, RemovalCovers
  <2> QED
    BY <2>6
<1>6. CASE op.kind = "RENAME"
  <2>1. PICK o \in I : op.from \in Claimed(o) /\ op.to = Save(op.from)
    BY <1>6 DEF FixOp
  <2>2. PICK s \in Claimed(o) : s = op.from
    BY <2>1
  <2>3. o \in Packages /\ s \in Paths /\ Save(s) \in Paths
    BY <2>2, ClaimsAssumption, SaveAssumption
  <2>4. q # Save(s) /\ ~ IsBelow(q, Save(s))
    BY <2>3 DEF IsSaved
  <2>5. \A r \in Paths : \/ t2[r] = t[r] \/ r = Save(s) \/ IsBelow(r, Save(s))
                         \/ (r = s \/ IsBelow(r, s)) /\ t2[r] = Missing
    BY <1>1, <1>6, <2>1, <2>2 DEF Effect, Rename
  <2>9. \/ t2 = t
        \/ \A r \in Paths : (r = s \/ IsBelow(r, s)) /\ r # Save(s) /\ ~ IsBelow(r, Save(s))
             => t2[r] = Missing
    BY <1>1, <1>6, <2>1, <2>2 DEF Effect, Rename
  <2>6. CASE t2[q] = Missing
    BY <2>6 DEF Covered, OnDisk, Missing
  <2>7. CASE IsBelow(s, q) /\ t2[q] = t[q] /\ t[q].kind = "dir"
    BY <1>1, <2>7, DirectoryAboveClaim DEF Covered
  <2>8. CASE t2[q] # Missing /\ ~ (IsBelow(s, q) /\ t2[q] = t[q] /\ t[q].kind = "dir")
    <3>1. t2[q] = t[q]
      BY <2>4, <2>5, <2>8
    <3>2. CASE t[q].kind # "dir"
      BY <3>1, <3>2 DEF Covered
    <3>3. CASE ~ IsBelow(s, q)
      <4>1. ~ IsBelow(Save(s), q)
        BY <2>3, <3>3, AboveSaved
      <4>2. ASSUME NEW r \in Paths, IsBelow(r, q), t2[r] # t[r]
            PROVE  t2[r] = Missing /\ (q = s \/ IsBelow(q, s))
        <5>1. r # Save(s) /\ ~ IsBelow(r, Save(s))
          BY <2>3, <2>4, <4>1, <4>2, AboveOnePath
        <5>2. (r = s \/ IsBelow(r, s)) /\ t2[r] = Missing
          BY <2>5, <4>2, <5>1
        <5> QED
          BY <2>3, <3>3, <4>2, <5>2, AboveOnePath
      <4>3. CASE \A r \in Paths : IsBelow(r, q) => t2[r] = t[r]
        BY <3>1, <4>3 DEF Covered, IsEmpty
      <4>4. CASE q = s \/ IsBelow(q, s)
        <5>1. t2 = t
          BY <2>4, <2>8, <2>9, <4>4
        <5> QED
          BY <4>3, <5>1
      <4> QED
        BY <4>2, <4>3, <4>4
    <3> QED
      BY <2>8, <3>1, <3>2, <3>3
  <2> QED
    BY <2>6, <2>7, <2>8
<1> QED
  BY <1>2, <1>3, <1>4, <1>5, <1>6

\* A file that was cut off is nobody's.
LEMMA CutOffCovers ==
  ASSUME disk \in Tree, NEW I \in SUBSET Packages, NEW op \in FsOp, FixOp(op, I),
         NEW t2 \in CutOff(op), NEW q \in Paths \ {Sysroot}
  PROVE  Covered(disk, t2, I, q)
<1>1. CASE t2 = disk
  BY <1>1 DEF Covered
<1>2. CASE t2 # disk
  <2>1. op.kind = "CREATEFILE" /\ t2 = WriteFile(disk, op.path, PartialCrc)
    BY <1>2 DEF CutOff
  <2>2. op.path \in Paths
    BY <2>1, FsOpFields
  <2>3. /\ \A r \in Paths \ {op.path} : t2[r] = disk[r]
        /\ t2[op.path] = disk[op.path] \/ t2[op.path] = File(PartialCrc)
    BY <2>1, <2>2 DEF WriteFile, Tree
  <2>4. CASE t2[q] = disk[q]
    <3>1. ASSUME ~ IsEmpty(disk, q) PROVE ~ IsEmpty(t2, q)
      BY <2>3, <3>1 DEF IsEmpty, Missing, File
    <3> QED
      BY <2>4, <3>1 DEF Covered
  <2>5. CASE t2[q] # disk[q]
    <3>1. t2[q] = File(PartialCrc)
      BY <2>3, <2>5
    <3>2. \A p \in Packages : ~ OnDisk(t2, p, q)
      BY <3>1, PartialCrcAssumption DEF OnDisk, File
    <3> QED
      BY <3>2 DEF Covered
  <2> QED
    BY <2>4, <2>5
<1> QED
  BY <1>1, <1>2

(***************************************************************************)
(* What a plan of `del` still has to do for the packages whose zips it       *)
(* moves: X is the index, t the disk and I what is installed.                *)
(***************************************************************************)
RemovalOf(p, q) == Op(IF Claims[p][q].isDir THEN "RMDIR" ELSE "REMOVEFILE", q)

IsRemoval(op) == op.kind \in {"REMOVEFILE", "RMDIR"}

Moves(op, p) == op.kind = "RENAME_ZIP" /\ op.pkg = p

\* No operation of ops between positions i and j removes something below q.
NothingCleared(ops, i, j, q) ==
  \A k \in i .. j : IsRemoval(ops[k]) => ~ IsBelow(ops[k].path, q)

\* Once the first i operations are done, what p has at q is gone, or another
\* package that is still installed has it, or it is a directory in use.
Comes(t, I, ops, i, p, q) ==
  OnDisk(t, p, q) =>
    \/ \E o \in I \ {p} :
         /\ OnDisk(t, o, q)
         /\ \A k \in 1 .. i : /\ IsRemoval(ops[k]) => ops[k].path # q
                              /\ ~ Moves(ops[k], o)
    \/ \E j \in 1 .. i - 1 :
         ops[j] = RemovalOf(p, q) /\ NothingCleared(ops, j + 1, i - 1, q)
    \/ Claims[p][q].isDir /\ ~ IsEmpty(t, q) /\ NothingCleared(ops, 1, i - 1, q)

\* The zips moved are of different packages, installed and out of the index.
ZipsApart(I, X, ops) ==
  \A i \in DOMAIN ops : ops[i].kind = "RENAME_ZIP" =>
    /\ ops[i].pkg \in I \ X
    /\ \A j \in DOMAIN ops : Moves(ops[j], ops[i].pkg) => j = i

\* A removal is one of a claim of a package whose zip is moved after it.
Owned(ops) ==
  \A k \in DOMAIN ops : IsRemoval(ops[k]) =>
    \E i \in DOMAIN ops : /\ k < i /\ ops[i].kind = "RENAME_ZIP"
                          /\ ops[k].path \in Claimed(ops[i].pkg)

AllCome(t, I, ops) ==
  \A i \in DOMAIN ops : ops[i].kind = "RENAME_ZIP" =>
    \A q \in Claimed(ops[i].pkg) : Comes(t, I, ops, i, ops[i].pkg, q)

RemovesOrMoves(ops) == \A i \in DOMAIN ops : IsRemoval(ops[i]) \/ ops[i].kind = "RENAME_ZIP"

DelPlanned(t, I, X, ops) ==
  RemovesOrMoves(ops) /\ ZipsApart(I, X, ops) /\ Owned(ops) /\ AllCome(t, I, ops)

\* A removal makes its own path missing, if anything.
LEMMA RemovalEffect ==
  ASSUME NEW t \in Tree, NEW op \in FsOp, IsRemoval(op)
  PROVE  /\ op.path \in Paths
         /\ Effect(t, op) \in Tree
         /\ \A r \in Paths : r # op.path => Effect(t, op)[r] = t[r]
         /\ \/ Effect(t, op) = t
            \/ Effect(t, op)[op.path] = Missing
BY FsOpFields, EffectType, CrcsAssumption
   DEF IsRemoval, Effect, RemovePath, RemoveDir, Tree

\* The first operation and the rest.
LEMMA TailOf ==
  ASSUME NEW ops \in Seq(FsOp), ops # <<>>
  PROVE  /\ Head(ops) = ops[1] /\ ops[1] \in FsOp /\ 1 \in DOMAIN ops
         /\ Len(ops) \in Nat /\ Len(ops) >= 1 /\ DOMAIN ops = 1 .. Len(ops)
         /\ DOMAIN Tail(ops) = 1 .. Len(ops) - 1
         /\ \A i \in 1 .. Len(ops) - 1 : Tail(ops)[i] = ops[i + 1]
OBVIOUS

\* What is installed after an operation.
After(I, op) == IF op.kind = "RENAME_ZIP" THEN I \ {op.pkg} ELSE I

\* Executing the first operation does a part of what was still to come.
LEMMA ComesAfter ==
  ASSUME NEW t \in Tree, NEW I \in SUBSET Packages, NEW ops \in Seq(FsOp),
         ops # <<>>, RemovesOrMoves(ops), NEW i \in DOMAIN ops, i # 1,
         NEW p \in Packages, NEW q \in Claimed(p), Comes(t, I, ops, i, p, q)
  PROVE  Comes(Effect(t, ops[1]), After(I, ops[1]), Tail(ops), i - 1, p, q)
<1>0. PICK t2 \in Tree : t2 = Effect(t, ops[1])
  BY TailOf, EffectType
<1>1. PICK I2 : I2 = After(I, ops[1])
  OBVIOUS
<1>2. PICK rest : rest = Tail(ops)
  OBVIOUS
<1>3. /\ i \in 2 .. Len(ops) /\ Len(ops) \in Nat /\ i - 1 \in Nat
      /\ \A k \in 1 .. Len(ops) - 1 : rest[k] = ops[k + 1]
      /\ \A k \in 1 .. i - 1 : rest[k] = ops[k + 1] /\ k + 1 \in 1 .. i
      /\ \A k \in 1 .. i - 2 : k + 1 \in 2 .. i - 1
  BY <1>2, TailOf
<1>4. q \in Paths
  BY ClaimsAssumption
<1>5. \/ t2 = t
      \/ /\ IsRemoval(ops[1]) /\ ops[1].path \in Paths
         /\ \A r \in Paths : r # ops[1].path => t2[r] = t[r]
         /\ t2[ops[1].path] = Missing
  <2>1. CASE IsRemoval(ops[1])
    BY <1>0, <2>1, RemovalEffect, TailOf
  <2>2. CASE ops[1].kind = "RENAME_ZIP"
    BY <1>0, <2>2 DEF Effect
  <2> QED
    BY <2>1, <2>2, TailOf DEF RemovesOrMoves
<1>6. SUFFICES ASSUME OnDisk(t2, p, q) PROVE
    \/ \E o \in I2 \ {p} :
         /\ OnDisk(t2, o, q)
         /\ \A k \in 1 .. i - 1 : /\ IsRemoval(rest[k]) => rest[k].path # q
                                  /\ ~ Moves(rest[k], o)
    \/ \E j \in 1 .. i - 2 :
         rest[j] = RemovalOf(p, q) /\ NothingCleared(rest, j + 1, i - 2, q)
    \/ Claims[p][q].isDir /\ ~ IsEmpty(t2, q) /\ NothingCleared(rest, 1, i - 2, q)
  <2>1. (i - 1) - 1 = i - 2
    BY <1>3
  <2>2. Comes(t2, I2, rest, i - 1, p, q)
    BY <1>6, <2>1 DEF Comes
  <2> QED
    BY <1>0, <1>1, <1>2, <2>2
<1>7. t2[q] = t[q] /\ OnDisk(t, p, q)
  <2>1. t2[q] # Missing
    BY <1>6 DEF OnDisk, Missing
  <2>2. t2[q] = t[q]
    BY <1>4, <1>5, <2>1
  <2> QED
    BY <1>6, <2>2 DEF OnDisk
<1>8. CASE \E o \in I \ {p} :
         /\ OnDisk(t, o, q)
         /\ \A k \in 1 .. i : /\ IsRemoval(ops[k]) => ops[k].path # q
                              /\ ~ Moves(ops[k], o)
  <2>1. PICK o \in I \ {p} :
         /\ OnDisk(t, o, q)
         /\ \A k \in 1 .. i : /\ IsRemoval(ops[k]) => ops[k].path # q
                              /\ ~ Moves(ops[k], o)
    BY <1>8
  <2>2. o \in I2
    <3>1. 1 \in 1 .. i
      BY <1>3
    <3>2. ~ Moves(ops[1], o)
      BY <2>1, <3>1
    <3> QED
      BY <1>1, <2>1, <3>2 DEF After, Moves
  <2>3. OnDisk(t2, o, q)
    BY <1>7, <2>1 DEF OnDisk
  <2>4. \A k \in 1 .. i - 1 : /\ IsRemoval(rest[k]) => rest[k].path # q
                              /\ ~ Moves(rest[k], o)
    BY <1>3, <2>1
  <2> QED
    BY <2>1, <2>2, <2>3, <2>4
<1>9. CASE \E j \in 2 .. i - 1 :
         ops[j] = RemovalOf(p, q) /\ NothingCleared(ops, j + 1, i - 1, q)
  <2>1. PICK j \in 2 .. i - 1 :
         ops[j] = RemovalOf(p, q) /\ NothingCleared(ops, j + 1, i - 1, q)
    BY <1>9
  <2>2. j - 1 \in 1 .. i - 2 /\ rest[j - 1] = ops[j]
    BY <1>3, <2>1
  <2>3. ASSUME NEW k \in (j - 1) + 1 .. i - 2, IsRemoval(rest[k])
        PROVE  ~ IsBelow(rest[k].path, q)
    <3>1. k \in 1 .. i - 1 /\ k + 1 \in j + 1 .. i - 1
      BY <1>3, <2>1, <2>3
    <3>2. rest[k] = ops[k + 1]
      BY <1>3, <3>1
    <3> QED BY <2>1, <2>3, <3>1, <3>2 DEF NothingCleared
  <2> QED
    BY <2>1, <2>2, <2>3 DEF NothingCleared
<1>10. ASSUME NothingCleared(ops, 2, i - 1, q) PROVE NothingCleared(rest, 1, i - 2, q)
  <2>1. ASSUME NEW k \in 1 .. i - 2, IsRemoval(rest[k]) PROVE ~ IsBelow(rest[k].path, q)
    <3>1. k \in 1 .. i - 1 /\ k + 1 \in 2 .. i - 1
      BY <1>3, <2>1
    <3>2. rest[k] = ops[k + 1]
      BY <1>3, <3>1
    <3> QED BY <1>10, <2>1, <3>1, <3>2 DEF NothingCleared
  <2> QED
    BY <2>1 DEF NothingCleared
<1>11. CASE ops[1] = RemovalOf(p, q) /\ NothingCleared(ops, 2, i - 1, q)
  <2>1. IsRemoval(ops[1]) /\ ops[1].path = q
    BY <1>11 DEF RemovalOf, Op, IsRemoval
  <2>2. t2 = t
    BY <1>5, <1>6, <2>1 DEF OnDisk, Missing
  <2>3. t[q].kind = (IF Claims[p][q].isDir THEN "dir" ELSE "file")
    BY <1>7 DEF OnDisk
  <2>4. Claims[p][q].isDir /\ ~ IsEmpty(t, q)
    <3>1. SUFFICES ASSUME ~ (Claims[p][q].isDir /\ ~ IsEmpty(t, q)) PROVE FALSE
      OBVIOUS
    <3>2. t2[q] = Missing
      BY <1>0, <1>4, <1>11, <2>3, <3>1
         DEF RemovalOf, Op, Effect, RemovePath, RemoveDir, Tree
    <3> QED BY <3>2, <1>6 DEF OnDisk, Missing
  <2> QED
    BY <1>10, <1>11, <2>2, <2>4
<1>12. CASE Claims[p][q].isDir /\ ~ IsEmpty(t, q) /\ NothingCleared(ops, 1, i - 1, q)
  <2>1. NothingCleared(ops, 2, i - 1, q) /\ (IsRemoval(ops[1]) => ~ IsBelow(ops[1].path, q))
    BY <1>3, <1>12 DEF NothingCleared
  <2>2. ~ IsEmpty(t2, q)
    BY <1>5, <1>12, <2>1 DEF IsEmpty
  <2> QED
    BY <1>10, <1>12, <2>1, <2>2
<1>13. \/ \E o \in I \ {p} :
            /\ OnDisk(t, o, q)
            /\ \A k \in 1 .. i : /\ IsRemoval(ops[k]) => ops[k].path # q
                                 /\ ~ Moves(ops[k], o)
       \/ \E j \in 1 .. i - 1 :
            ops[j] = RemovalOf(p, q) /\ NothingCleared(ops, j + 1, i - 1, q)
       \/ Claims[p][q].isDir /\ ~ IsEmpty(t, q) /\ NothingCleared(ops, 1, i - 1, q)
  BY <1>7 DEF Comes
<1>14. ASSUME NEW j \in 1 .. i - 1,
              ops[j] = RemovalOf(p, q) /\ NothingCleared(ops, j + 1, i - 1, q)
       PROVE  \/ ops[1] = RemovalOf(p, q) /\ NothingCleared(ops, 2, i - 1, q)
              \/ \E m \in 2 .. i - 1 :
                   ops[m] = RemovalOf(p, q) /\ NothingCleared(ops, m + 1, i - 1, q)
  <2>1. CASE j = 1
    BY <1>14, <2>1
  <2>2. CASE j # 1
    <3>1. j \in 2 .. i - 1
      BY <1>3, <2>2
    <3> QED BY <1>14, <3>1
  <2> QED BY <2>1, <2>2
<1> QED
  BY <1>8, <1>9, <1>11, <1>12, <1>13, <1>14

\* So the rest of a plan is still what the packages need.
LEMMA DelPlannedAfter ==
  ASSUME NEW t \in Tree, NEW I \in SUBSET Packages, NEW X, NEW ops \in Seq(FsOp),
         ops # <<>>, DelPlanned(t, I, X, ops)
  PROVE  DelPlanned(Effect(t, ops[1]), After(I, ops[1]), X, Tail(ops))
<1>0. PICK t2 \in Tree : t2 = Effect(t, ops[1])
  BY TailOf, EffectType
<1>1. PICK I2 : I2 = After(I, ops[1])
  OBVIOUS
<1>2. PICK rest : rest = Tail(ops)
  OBVIOUS
<1>3. ASSUME NEW i \in DOMAIN rest
      PROVE  /\ i + 1 \in DOMAIN ops /\ rest[i] = ops[i + 1] /\ i \in Nat
             /\ (i + 1) - 1 = i /\ i + 1 # 1
  BY <1>2, <1>3, TailOf
<1>4. \A i \in DOMAIN ops : i # 1 => i - 1 \in DOMAIN rest /\ rest[i - 1] = ops[i]
  <2>1. SUFFICES ASSUME NEW i \in DOMAIN ops, i # 1
                 PROVE  i - 1 \in DOMAIN rest /\ rest[i - 1] = ops[i]
    OBVIOUS
  <2>2. i - 1 \in 1 .. Len(ops) - 1 /\ (i - 1) + 1 = i
    BY <2>1, TailOf
  <2> QED
    BY <1>2, <2>2, TailOf
<1>5. RemovesOrMoves(rest)
  BY <1>3 DEF DelPlanned, RemovesOrMoves
<1>6. ZipsApart(I2, X, rest)
  <2> SUFFICES ASSUME NEW i \in DOMAIN rest, rest[i].kind = "RENAME_ZIP"
               PROVE  /\ rest[i].pkg \in I2 \ X
                      /\ \A j \in DOMAIN rest : Moves(rest[j], rest[i].pkg) => j = i
    BY DEF ZipsApart
  <2>1. /\ ops[i + 1].pkg \in I \ X /\ rest[i] = ops[i + 1] /\ i \in Nat
        /\ \A j \in DOMAIN ops : Moves(ops[j], ops[i + 1].pkg) => j = i + 1
    BY <1>3 DEF DelPlanned, ZipsApart
  <2>2. ~ Moves(ops[1], rest[i].pkg)
    BY <2>1, TailOf
  <2>3. rest[i].pkg \in I2 \ X
    BY <1>1, <2>1, <2>2 DEF After, Moves
  <2>4. ASSUME NEW j \in DOMAIN rest, Moves(rest[j], rest[i].pkg) PROVE j = i
    <3>1. j + 1 = i + 1 /\ j \in Nat
      BY <1>3, <2>1, <2>4
    <3> QED BY <2>1, <3>1
  <2> QED
    BY <2>3, <2>4
<1>7. Owned(rest)
  <2> SUFFICES ASSUME NEW k \in DOMAIN rest, IsRemoval(rest[k])
               PROVE  \E i \in DOMAIN rest : /\ k < i /\ rest[i].kind = "RENAME_ZIP"
                                             /\ rest[k].path \in Claimed(rest[i].pkg)
    BY DEF Owned
  <2>1. PICK i \in DOMAIN ops : /\ k + 1 < i /\ ops[i].kind = "RENAME_ZIP"
                                /\ ops[k + 1].path \in Claimed(ops[i].pkg)
    BY <1>3 DEF DelPlanned, Owned
  <2>2. i # 1 /\ k < i - 1
    BY <1>3, <2>1, TailOf
  <2>3. i - 1 \in DOMAIN rest /\ rest[i - 1] = ops[i] /\ rest[k] = ops[k + 1]
    BY <1>3, <1>4, <2>2
  <2> QED
    BY <2>1, <2>2, <2>3
<1>8. AllCome(t2, I2, rest)
  <2> SUFFICES ASSUME NEW i \in DOMAIN rest, rest[i].kind = "RENAME_ZIP",
                      NEW q \in Claimed(rest[i].pkg)
               PROVE  Comes(t2, I2, rest, i, rest[i].pkg, q)
    BY DEF AllCome
  <2>1. PICK n \in DOMAIN ops : n = i + 1 /\ n - 1 = i /\ n # 1 /\ rest[i] = ops[n]
    BY <1>3
  <2>2. Comes(t, I, ops, n, rest[i].pkg, q) /\ rest[i].pkg \in Packages
    BY <2>1 DEF DelPlanned, AllCome, ZipsApart
  <2>3. Comes(t2, I2, rest, n - 1, rest[i].pkg, q)
    BY <1>0, <1>1, <1>2, <2>1, <2>2, ComesAfter DEF DelPlanned
  <2> QED
    BY <2>1, <2>3
<1> QED
  BY <1>0, <1>1, <1>2, <1>5, <1>6, <1>7, <1>8 DEF DelPlanned

\* A removal of `del` empties no directory of a removed package but one that
\* the package it is planned for claims, which is still installed.
LEMMA DelRemovalCovers ==
  ASSUME NEW t \in Tree, NEW I \in SUBSET Packages, NEW X, NEW ops \in Seq(FsOp),
         ops # <<>>, DelPlanned(t, I, X, ops), IsRemoval(ops[1]),
         NEW q \in Paths \ {Sysroot}
  PROVE  Covered(t, Effect(t, ops[1]), I, q)
<1>1. PICK t2 \in Tree : t2 = Effect(t, ops[1])
  BY TailOf, EffectType
<1>2. PICK f \in Paths : f = ops[1].path
  BY RemovalEffect, TailOf
<1>3. /\ \A r \in Paths : r # f => t2[r] = t[r]
      /\ t2 = t \/ t2[f] = Missing
  BY <1>1, <1>2, RemovalEffect, TailOf
<1>4. PICK i \in DOMAIN ops : /\ ops[i].kind = "RENAME_ZIP" /\ f \in Claimed(ops[i].pkg)
  BY <1>2, TailOf DEF DelPlanned, Owned
<1>5. ops[i].pkg \in I
  BY <1>4 DEF DelPlanned, ZipsApart
<1>6. CASE t2[q] = t[q]
  BY <1>1, <1>3, <1>4, <1>5, <1>6, RemovalCovers
<1>7. CASE t2[q] # t[q]
  <2>1. t2[q] = Missing
    BY <1>3, <1>7
  <2> QED
    BY <1>1, <2>1 DEF Covered, OnDisk, Missing
<1> QED
  BY <1>6, <1>7

\* When a zip is moved, what its package still has on disk is another's too.
LEMMA ZipLeavesNothing ==
  ASSUME TypeOK, NEW F, LeftNothing(F), NEW X, fsops # <<>>,
         DelPlanned(disk, installed, X, fsops), fsops[1].kind = "RENAME_ZIP",
         UNCHANGED disk, installed' = installed \ {fsops[1].pkg}
  PROVE  LeftNothing(F)'
<1>1. PICK p0 \in installed : p0 = fsops[1].pkg
  BY TailOf DEF TypeOK, DelPlanned, ZipsApart
<1>2. ASSUME NEW q \in Claimed(p0), OnDisk(disk, p0, q)
      PROVE  \/ \E o \in installed \ {p0} : OnDisk(disk, o, q)
             \/ Claims[p0][q].isDir /\ ~ IsEmpty(disk, q)
  <2>1. Comes(disk, installed, fsops, 1, p0, q)
    BY <1>1, <1>2, TailOf DEF TypeOK, DelPlanned, AllCome
  <2> QED
    BY <1>2, <2>1 DEF Comes
<1>3. SUFFICES ASSUME NEW p \in (Packages \ installed) \cup {p0}, NEW q \in Claimed(p),
                      OnDisk(disk, p, q), ~ IsSaved(F, q)
               PROVE  \/ \E o \in installed \ {p0} : OnDisk(disk, o, q)
                      \/ Claims[p][q].isDir /\ ~ IsEmpty(disk, q)
  <2>1. Packages \ installed' = (Packages \ installed) \cup {p0}
    BY <1>1 DEF TypeOK
  <2> QED
    BY <1>1, <1>3, <2>1 DEF LeftNothing
<1>4. CASE p = p0
  BY <1>2, <1>3, <1>4
<1>5. CASE p \in Packages \ installed
  <2>1. \/ \E o \in installed : OnDisk(disk, o, q)
        \/ Claims[p][q].isDir /\ ~ IsEmpty(disk, q)
    BY <1>3, <1>5 DEF LeftNothing
  <2>2. CASE OnDisk(disk, p0, q)
    <3>1. Claims[p0][q].isDir = Claims[p][q].isDir
      <4>1. Claims[p0][q].isDir \in BOOLEAN /\ Claims[p][q].isDir \in BOOLEAN
        BY <1>1, <1>5, <2>2, ClaimsAssumption DEF OnDisk, Claim, TypeOK
      <4> QED
        BY <1>3, <2>2, <4>1 DEF OnDisk
    <3> QED
      BY <1>2, <2>2, <3>1 DEF OnDisk
  <2> QED
    BY <2>1, <2>2
<1> QED
  BY <1>3, <1>4, <1>5

(***************************************************************************)
(* The inductive invariant, of runs in which nothing has failed so far.      *)
(***************************************************************************)
Quiet == left.reads = MaxReadFaults /\ left.writes = MaxWriteFaults

Counted == left.reads <= MaxReadFaults /\ left.writes <= MaxWriteFaults

\* What is at q is also another's, or is removed, and stays removed.
Dealt(ops, p, q) ==
  OnDisk(disk, p, q) =>
    \/ \E o \in index \ {p} : OnDisk(disk, o, q)
    \/ \E j \in DOMAIN ops :
         ops[j] = RemovalOf(p, q) /\ NothingCleared(ops, j + 1, Len(ops), q)

\* What `del` knows while it plans: what it has simulated away is no package's
\* of the index but the current one's, and the claims visited are dealt with.
DelPlanning ==
  /\ index \subseteq installed
  /\ pc = "plan" => current \in index
  /\ \A i \in DOMAIN pkfsops :
       IsRemoval(pkfsops[i]) /\ pkfsops[i].path \in Claimed(current)
  /\ \A q \in Paths : statuses[q].seen /\ ~ statuses[q].exists =>
       \A o \in index : OnDisk(disk, o, q) =>
         pc = "plan" /\ o = current /\ q \notin remaining
  /\ pc = "plan" => \A q \in Claimed(current) \ remaining :
       /\ \A r \in remaining : Rank[r] <= Rank[q]
       /\ Dealt(pkfsops, current, q)

FixOps(ops, I) == \A i \in DOMAIN ops : FixOp(ops[i], I)

\* What is planned for the packages in I.
FixPlanning(I) ==
  FixOps(fsops, I) /\ FixOps(pkfsops, I) /\ (pc = "plan" => current \in I)

OrphanPlan(F) ==
  /\ pc = "idle" => todo = {}
  /\ cmd.op = "del" /\ ~ cmd.dryRun => DelPlanned(disk, installed, index, fsops)
  /\ cmd.op = "del" /\ pc \in {"choose", "plan"} => DelPlanning
  /\ cmd.op # "del" => todo \subseteq F /\ FixPlanning(installed \cap F)

OrphanInv ==
  /\ DelInv /\ Counted
  /\ Quiet => LeftNothing(Packages) /\ OrphanPlan(Packages)

\* A failure is counted once and for all.
LEMMA QuietStep ==
  ASSUME TypeOK, Counted, [Next]_vars
  PROVE  /\ Counted'
         /\ Quiet' => Quiet /\ ~ Spend("reads") /\ ~ Spend("writes")
<1>1. /\ left.reads \in Nat /\ left.writes \in Nat
      /\ MaxReadFaults \in Nat /\ MaxWriteFaults \in Nat
  BY BoundsAssumption DEF TypeOK
<1>2. \/ left' = left
      \/ \E what \in {"commands", "reads", "writes", "crashes"} : Spend(what)
  <2>1. ASSUME NEW op \in {"del", "fix"}, NEW targets \in SUBSET Packages,
               NEW dryRun \in BOOLEAN, Start(op, targets, dryRun)
        PROVE  Spend("commands")
    BY <2>1 DEF Start
  <2>2. ASSUME ReadFault \/ NoFault PROVE left' = left \/ Spend("reads")
    BY <2>2 DEF ReadFault, NoFault
  <2>3. CASE BuildIndex \/ SysrootUnreadable \/ PrepareSysroot
    BY <2>2, <2>3 DEF BuildIndex, SysrootUnreadable, PrepareSysroot
  <2>4. ASSUME NEW p \in todo, RefusePackage(p) \/ BeginPackage(p)
        PROVE  left' = left \/ Spend("reads")
    <3>1. CASE RefusePackage(p)
      BY <2>2, <3>1 DEF RefusePackage
    <3>2. CASE BeginPackage(p)
      BY <3>2 DEF BeginPackage
    <3> QED BY <2>4, <3>1, <3>2
  <2>5. ASSUME NEW q \in remaining, NEW readable \in BOOLEAN,
               \/ InstallMissing(q, readable) \/ UninstallLeaves(q, readable)
               \/ InstallKept(q) \/ InstallConflict(q)
               \/ InstallDivert(q) \/ InstallDivertFails(q) \/ Uninstall(q)
        PROVE  left' = left \/ Spend("reads")
    <3>1. ReadFault \/ NoFault
      BY <2>5 DEF InstallMissing, UninstallLeaves, InstallKept, InstallConflict,
         InstallDivert, InstallDivertFails, Uninstall, Visit
    <3> QED BY <2>2, <3>1
  <2>6. CASE FinishInstall \/ FinishUninstall \/ Gate
    BY <2>6 DEF FinishInstall, FinishUninstall, Gate
  <2>7. CASE Execute
    BY <2>7 DEF Execute, ExecuteOp, NoFault, OpFails, FreedPathFails, FreedPathAborts,
       FinishExecution, Exit
  <2>8. CASE Crash
    BY <2>8 DEF Crash
  <2>9. CASE UNCHANGED vars
    BY <2>9 DEF vars
  <2> QED
    BY <2>1, <2>3, <2>4, <2>5, <2>6, <2>7, <2>8, <2>9 DEF Next, Run, Plan
<1>3. ASSUME NEW what \in {"commands", "reads", "writes", "crashes"}, Spend(what)
      PROVE  /\ left'.reads = IF what = "reads" THEN left.reads - 1 ELSE left.reads
             /\ left'.writes = IF what = "writes" THEN left.writes - 1 ELSE left.writes
  BY <1>3 DEF Spend, TypeOK
<1>4. CASE left' = left
  <2>1. ~ Spend("reads") /\ ~ Spend("writes")
    <3>1. ASSUME Spend("reads") PROVE FALSE
      BY <1>1, <1>3, <1>4, <3>1
    <3>2. ASSUME Spend("writes") PROVE FALSE
      BY <1>1, <1>3, <1>4, <3>2
    <3> QED BY <3>1, <3>2
  <2> QED
    BY <1>4, <2>1 DEF Counted, Quiet
<1>5. ASSUME NEW what \in {"commands", "reads", "writes", "crashes"}, Spend(what)
      PROVE  Counted' /\ (Quiet' => Quiet /\ ~ Spend("reads") /\ ~ Spend("writes"))
  <2>1. /\ left'.reads = IF what = "reads" THEN left.reads - 1 ELSE left.reads
        /\ left'.writes = IF what = "writes" THEN left.writes - 1 ELSE left.writes
    BY <1>3, <1>5
  <2>2. Spend("reads") => left'.reads = left.reads - 1
    BY <1>3
  <2>3. Spend("writes") => left'.writes = left.writes - 1
    BY <1>3
  <2> QED
    BY <1>1, <2>1, <2>2, <2>3 DEF Counted, Quiet
<1> QED
  BY <1>2, <1>4, <1>5

\* Steps that do not write leave nothing either.
LEMMA LeftAsItWas ==
  ASSUME NEW F, LeftNothing(F), UNCHANGED <<disk, installed>>
  PROVE  LeftNothing(F)'
BY DEF LeftNothing

\* The process is gone, and its plans with it.
LEMMA OrphanRest ==
  ASSUME NEW F, Rest
  PROVE  OrphanPlan(F)'
<1>1. /\ cmd'.op # "del" /\ fsops' = <<>> /\ pkfsops' = <<>> /\ pc' = "idle"
      /\ todo' = {}
  BY DEF Rest, NoCommand
<1> QED
  BY <1>1 DEF OrphanPlan, FixPlanning, FixOps

\* Before a package is chosen nothing is planned, and nothing simulated.
LEMMA OrphanStart ==
  ASSUME NEW F, DelInv, NEW op \in {"del", "fix"}, NEW targets \in SUBSET Packages,
         NEW dryRun \in BOOLEAN, Start(op, targets, dryRun),
         cmd'.op # "del" => todo' \subseteq F
  PROVE  OrphanPlan(F)'
<1>1. /\ pc' \in {"index", "done"} /\ fsops' = <<>> /\ pkfsops' = <<>>
  BY DEF Start, DelInv, NothingPlanned
<1>2. DelPlanned(disk', installed', index', fsops')
  BY <1>1 DEF DelPlanned, RemovesOrMoves, ZipsApart, Owned, AllCome
<1>3. FixOps(fsops', installed' \cap F) /\ FixOps(pkfsops', installed' \cap F)
  BY <1>1 DEF FixOps
<1> QED
  BY <1>1, <1>2, <1>3 DEF OrphanPlan, FixPlanning

LEMMA OrphanBuildIndex ==
  ASSUME NEW F, DelInv, OrphanPlan(F), BuildIndex, ~ Spend("reads")
  PROVE  OrphanPlan(F)'
<1>1. /\ index' = installed /\ fsops = <<>> /\ pkfsops = <<>> /\ statuses = NoStatuses
      /\ pc' \in {"prepare", "choose"}
      /\ UNCHANGED <<disk, installed, cmd, todo, fsops, pkfsops, statuses>>
  BY DEF BuildIndex, ReadFault, DelInv, NothingPlanned
<1>2. DelPlanned(disk', installed', index', fsops')
  BY <1>1 DEF DelPlanned, RemovesOrMoves, ZipsApart, Owned, AllCome
<1>3. FixOps(fsops', installed' \cap F) /\ FixOps(pkfsops', installed' \cap F)
  BY <1>1 DEF FixOps
<1>4. DelPlanning'
  BY <1>1 DEF DelPlanning, NoStatuses, Unseen
<1> QED
  BY <1>1, <1>2, <1>3, <1>4 DEF OrphanPlan, FixPlanning

LEMMA FixOpsAppend ==
  ASSUME NEW I, NEW ops \in Seq(FsOp), NEW op \in FsOp, FixOps(ops, I), FixOp(op, I)
  PROVE  FixOps(Append(ops, op), I)
BY DEF FixOps

LEMMA FixOpsConcat ==
  ASSUME NEW I, NEW ops1 \in Seq(FsOp), NEW ops2 \in Seq(FsOp),
         FixOps(ops1, I), FixOps(ops2, I)
  PROVE  FixOps(ops1 \o ops2, I)
<1> SUFFICES ASSUME NEW i \in DOMAIN (ops1 \o ops2)
             PROVE  FixOp((ops1 \o ops2)[i], I)
  BY DEF FixOps
<1>1. CASE i <= Len(ops1)
  <2>1. i \in DOMAIN ops1 /\ (ops1 \o ops2)[i] = ops1[i]
    BY <1>1
  <2> QED BY <2>1 DEF FixOps
<1>2. CASE i > Len(ops1)
  <2>1. i - Len(ops1) \in DOMAIN ops2 /\ (ops1 \o ops2)[i] = ops2[i - Len(ops1)]
    BY <1>2
  <2> QED BY <2>1 DEF FixOps
<1> QED
  BY <1>1, <1>2

LEMMA OrphanPrepare ==
  ASSUME NEW F, DelInv, OrphanPlan(F), PrepareSysroot
  PROVE  OrphanPlan(F)'
<1>1. /\ cmd.op = "fix" /\ pc' = "choose" /\ fsops \in Seq(FsOp)
      /\ UNCHANGED <<disk, installed, cmd, todo, pkfsops>>
      /\ fsops' = fsops \/ fsops' = Append(fsops, Op("MKDIR", Sysroot))
  BY Zenon DEF PrepareSysroot, DelInv, NothingPlanned, TypeOK
<1>2. /\ FixOps(fsops, installed \cap F) /\ FixOps(pkfsops, installed \cap F)
      /\ todo \subseteq F
  BY <1>1 DEF OrphanPlan, FixPlanning
<1>3. FixOp(Op("MKDIR", Sysroot), installed \cap F)
  BY DEF FixOp, Op
<1>4. FixOps(fsops', installed \cap F)
  <2>1. Op("MKDIR", Sysroot) \in FsOp
    BY PathsAssumption DEF Op, FsOp
  <2>2. PICK I : I = installed \cap F
    OBVIOUS
  <2>3. FixOps(fsops', I)
    BY <1>1, <1>2, <1>3, <2>1, <2>2, FixOpsAppend
  <2> QED
    BY <2>2, <2>3
<1> QED
  BY <1>1, <1>2, <1>4 DEF OrphanPlan, FixPlanning, FixOps

\* A package is chosen from the index, and none of its claims is visited yet.
LEMMA OrphanPackage ==
  ASSUME NEW F, DelInv, OrphanPlan(F),
         (\E p \in todo : RefusePackage(p) \/ BeginPackage(p)) \/ Gate
  PROVE  OrphanPlan(F)'
<1>1. ASSUME NEW p \in todo, RefusePackage(p) PROVE OrphanPlan(F)'
  <2>1. UNCHANGED <<disk, installed, pc, cmd, current, remaining, index, statuses,
                    fsops, pkfsops>> /\ pc = "choose" /\ todo' \subseteq todo
    BY <1>1 DEF RefusePackage
  <2>2. DelPlanning' <=> DelPlanning
    BY <2>1 DEF DelPlanning, Dealt
  <2> QED
    BY <2>1, <2>2 DEF OrphanPlan, FixPlanning
<1>2. ASSUME NEW p \in todo, BeginPackage(p) PROVE OrphanPlan(F)'
  <2>1. /\ pc = "choose" /\ pc' = "plan" /\ p \in installed /\ pkfsops = <<>>
        /\ current' = p /\ remaining' = Claimed(p) /\ todo' \subseteq todo
        /\ cmd.op = "del" => p \in index
        /\ UNCHANGED <<disk, installed, cmd, index, statuses, fsops, pkfsops>>
    BY <1>2 DEF BeginPackage, DelInv, NothingPlanned, ContainsPackage
  <2>2. CASE cmd.op = "del"
    <3>1. DelPlanning
      BY <2>1, <2>2 DEF OrphanPlan, FixPlanning
    <3>2. \A q \in Paths : statuses[q].seen /\ ~ statuses[q].exists =>
            \A o \in index : ~ OnDisk(disk, o, q)
      BY <2>1, <3>1 DEF DelPlanning
    <3>3. DelPlanning'
      BY <2>1, <2>2, <3>1, <3>2 DEF DelPlanning
    <3> QED
      BY <2>1, <2>2, <3>3 DEF OrphanPlan, FixPlanning
  <2>3. CASE cmd.op # "del"
    BY <2>1, <2>3 DEF OrphanPlan, FixPlanning
  <2> QED
    BY <2>2, <2>3
<1>3. CASE Gate
  <2>1. /\ pc = "choose" /\ pc' \in {"execute", "done"}
        /\ UNCHANGED <<disk, installed, cmd, todo, index, fsops, pkfsops>>
    BY <1>3 DEF Gate, planning
  <2> QED
    BY <2>1 DEF OrphanPlan, FixPlanning
<1> QED
  BY <1>1, <1>2, <1>3

\* The operations `fix` plans for a claim of the package p.
LEMMA InstallOps ==
  ASSUME NEW I \in SUBSET Packages, NEW p \in I, NEW q \in Claimed(p)
  PROVE  /\ FixOp(InstallOp(p, q), I) /\ FixOp(RenameOp(q, Save(q)), I)
         /\ \A removals \in RmRf(Save(q)) : FixOps(removals, I)
<1>1. Claims[p][q].isDir \in BOOLEAN
  BY ClaimsAssumption DEF Claim
<1>2. FixOp(InstallOp(p, q), I)
  <2>1. CASE Claims[p][q].isDir
    <3>1. InstallOp(p, q).kind = "MKDIR" /\ InstallOp(p, q).path = q
      BY <2>1 DEF InstallOp, Op
    <3> QED
      BY <2>1, <3>1 DEF FixOp
  <2>2. CASE ~ Claims[p][q].isDir
    <3>1. /\ InstallOp(p, q).kind = "CREATEFILE" /\ InstallOp(p, q).path = q
          /\ InstallOp(p, q).crc = Claims[p][q].crc
      BY <2>2 DEF InstallOp, CreateFileOp
    <3>2. Claims[p][q].isDir = FALSE
      BY <1>1, <2>2
    <3> QED
      BY <3>1, <3>2 DEF FixOp
  <2> QED BY <2>1, <2>2
<1>3. FixOp(RenameOp(q, Save(q)), I)
  BY DEF FixOp, RenameOp
<1>4. ASSUME NEW removals \in RmRf(Save(q)) PROVE FixOps(removals, I)
  <2>1. PICK s \in RemovalOrders(Save(q)) :
          removals = [i \in DOMAIN s |->
                        IF disk[s[i]].kind = "dir" THEN Op("RMDIR_FREED", s[i])
                                                   ELSE Op("REMOVEFILE", s[i])]
    BY <1>4 DEF RmRf
  <2>2. \A i \in DOMAIN s : s[i] \in Present(Save(q))
    BY DEF RemovalOrders, SetToSeqs
  <2>3. \A i \in DOMAIN removals :
          /\ removals[i].kind \in {"RMDIR_FREED", "REMOVEFILE"}
          /\ removals[i].path = Save(q) \/ IsBelow(removals[i].path, Save(q))
    BY <2>1, <2>2 DEF Op, Present
  <2> QED
    BY <2>3 DEF FixOps, FixOp
<1> QED
  BY <1>2, <1>3, <1>4

LEMMA OrphanInstall ==
  ASSUME NEW F, DelInv, OrphanPlan(F), NEW q \in remaining, NEW readable \in BOOLEAN,
         \/ InstallMissing(q, readable) \/ InstallKept(q) \/ InstallConflict(q)
         \/ InstallDivert(q) \/ InstallDivertFails(q)
  PROVE  OrphanPlan(F)'
<1>1. /\ pc = "plan" /\ cmd.op = "fix"
      /\ UNCHANGED <<disk, installed, pc, cmd, todo, current, index, fsops>>
  BY DEF InstallMissing, InstallKept, InstallConflict, InstallDivert,
     InstallDivertFails, Visit
<1>0. PICK I : I = installed \cap F
  OBVIOUS
<1>2. /\ FixOps(fsops, I) /\ FixOps(pkfsops, I) /\ current \in I
      /\ todo \subseteq F
  BY <1>0, <1>1 DEF OrphanPlan, FixPlanning
<1>3. /\ I \in SUBSET Packages /\ current \in Packages /\ q \in Claimed(current)
      /\ pkfsops \in Seq(FsOp) /\ Save(q) \in Paths
  BY <1>0, <1>1, AtClaim DEF DelInv, TypeOK
<1>4. /\ InstallOp(current, q) \in FsOp /\ RenameOp(q, Save(q)) \in FsOp
  BY <1>3, PlannedOps
<1>5. /\ FixOp(InstallOp(current, q), I) /\ FixOp(RenameOp(q, Save(q)), I)
      /\ \A removals \in RmRf(Save(q)) : FixOps(removals, I)
  BY <1>2, <1>3, InstallOps
<1>6. FixOps(pkfsops', I)
  <2>1. CASE pkfsops' = pkfsops
    BY <1>2, <2>1
  <2>2. CASE InstallMissing(q, readable)
    <3>1. pkfsops' = Append(pkfsops, InstallOp(current, q))
      BY <2>2, Zenon DEF InstallMissing
    <3> QED
      BY <1>2, <1>3, <1>4, <1>5, <3>1, FixOpsAppend
  <2>3. CASE InstallDivert(q)
    <3>1. PICK removals \in RmRf(Save(q)) :
            pkfsops' = pkfsops \o removals \o DivertOps(q)
      BY <2>3, Zenon DEF InstallDivert
    <3>2. removals \in Seq(FsOp) /\ FixOps(removals, I)
      BY <1>3, <1>5, RmRfType
    <3>3. DivertOps(q) \in Seq(FsOp) /\ FixOps(DivertOps(q), I)
      BY <1>4, <1>5 DEF DivertOps, FixOps
    <3>4. pkfsops \o removals \in Seq(FsOp) /\ FixOps(pkfsops \o removals, I)
      BY <1>2, <1>3, <3>2, FixOpsConcat
    <3> QED
      BY <3>1, <3>3, <3>4, FixOpsConcat
  <2> QED
    BY <2>1, <2>2, <2>3 DEF InstallKept, InstallConflict, InstallDivertFails
<1> QED
  BY <1>0, <1>1, <1>2, <1>6 DEF OrphanPlan, FixPlanning

LEMMA OrphanFinishInstall ==
  ASSUME NEW F, DelInv, OrphanPlan(F), FinishInstall
  PROVE  OrphanPlan(F)'
<1>1. /\ pc = "plan" /\ cmd.op = "fix" /\ pc' = "choose" /\ pkfsops' = <<>>
      /\ fsops' = fsops \/ fsops' = fsops \o pkfsops
      /\ UNCHANGED <<disk, installed, cmd, todo>>
      /\ fsops \in Seq(FsOp) /\ pkfsops \in Seq(FsOp)
  BY DEF FinishInstall, DelInv, TypeOK
<1>2. /\ FixOps(fsops, installed \cap F) /\ FixOps(pkfsops, installed \cap F)
      /\ todo \subseteq F
  BY <1>1 DEF OrphanPlan, FixPlanning
<1>3. FixOps(fsops', installed \cap F)
  <2>1. PICK I : I = installed \cap F
    OBVIOUS
  <2>2. FixOps(fsops', I)
    BY <1>1, <1>2, <2>1, FixOpsConcat
  <2> QED
    BY <2>1, <2>2
<1>4. FixOps(pkfsops', installed \cap F)
  BY <1>1 DEF FixOps
<1> QED
  BY <1>1, <1>2, <1>3, <1>4 DEF OrphanPlan, FixPlanning

\* While `del` plans, what a package of the index has at the claim it visits is
\* what it sees there.
LEMMA SeesWhatIsThere ==
  ASSUME DelInv, DelPlanning, pc = "plan", cmd.op = "del", NEW q \in remaining,
         NEW o \in index, OnDisk(disk, o, q)
  PROVE  Look(q, TRUE)[q] = Observed(disk[q])
<1>1. q \in Paths
  BY AtClaim DEF DelInv
<1>2. Truthful(statuses)
  BY DEF DelInv, DelPlan
<1>3. statuses[q].seen => statuses[q].exists
  BY <1>1 DEF DelPlanning
<1> QED
  BY <1>1, <1>2, <1>3 DEF Look, EnsureActual, Truthful, DelInv, TypeOK

\* A claim stays dealt with: what is planned later is not below it.
LEMMA DealtAppend ==
  ASSUME NEW ops \in Seq(FsOp), NEW p \in Packages, NEW v \in Claimed(p),
         NEW op \in FsOp, ~ IsBelow(op.path, v), Dealt(ops, p, v)
  PROVE  Dealt(Append(ops, op), p, v)
<1>1. SUFFICES ASSUME NEW j \in DOMAIN ops, ops[j] = RemovalOf(p, v),
                      NothingCleared(ops, j + 1, Len(ops), v)
               PROVE  \E i \in DOMAIN Append(ops, op) :
                        /\ Append(ops, op)[i] = RemovalOf(p, v)
                        /\ NothingCleared(Append(ops, op), i + 1, Len(Append(ops, op)), v)
  BY DEF Dealt
<1>2. PICK more : more = Append(ops, op)
  OBVIOUS
<1>3. /\ Len(more) = Len(ops) + 1 /\ Len(ops) \in Nat /\ more[Len(ops) + 1] = op
      /\ \A i \in 1 .. Len(ops) : more[i] = ops[i]
      /\ j \in 1 .. Len(ops) /\ j \in DOMAIN more
  BY <1>2
<1>4. NothingCleared(more, j + 1, Len(more), v)
  <2>1. ASSUME NEW k \in j + 1 .. Len(more), IsRemoval(more[k])
        PROVE  ~ IsBelow(more[k].path, v)
    <3>1. CASE k = Len(ops) + 1
      BY <1>3, <3>1
    <3>2. CASE k # Len(ops) + 1
      <4>1. k \in j + 1 .. Len(ops) /\ k \in 1 .. Len(ops)
        BY <1>3, <2>1, <3>2
      <4> QED
        BY <1>1, <1>3, <2>1, <4>1 DEF NothingCleared
    <3> QED BY <3>1, <3>2
  <2> QED
    BY <2>1 DEF NothingCleared
<1> QED
  BY <1>1, <1>2, <1>3, <1>4

\* A visited claim is dealt with.
LEMMA VisitedIsDealt ==
  ASSUME DelInv, DelPlanning, pc = "plan", cmd.op = "del", NEW q \in remaining,
         Uninstall(q) \/ UninstallLeaves(q, TRUE)
  PROVE  Dealt(pkfsops', current, q)
<1>1. /\ q \in Paths /\ current \in Packages /\ q \in Claimed(current)
      /\ current \in index /\ pkfsops \in Seq(FsOp) /\ disk \in Tree
      /\ index \subseteq Packages
  BY AtClaim DEF DelInv, TypeOK, DelPlanning
<1>2. CASE Uninstall(q)
  <2>1. PICK op \in FsOp : op = RemovalOf(current, q)
    BY <1>1, PlannedOps DEF RemovalOf
  <2>2. pkfsops' = Append(pkfsops, op)
    BY <1>2, <2>1 DEF Uninstall, RemovalOf
  <2>3. /\ Len(pkfsops) + 1 \in DOMAIN pkfsops' /\ pkfsops'[Len(pkfsops) + 1] = op
        /\ Len(pkfsops') = Len(pkfsops) + 1 /\ Len(pkfsops) \in Nat
    BY <1>1, <2>2
  <2>4. NothingCleared(pkfsops', (Len(pkfsops) + 1) + 1, Len(pkfsops'), q)
    BY <2>3 DEF NothingCleared
  <2> QED
    BY <2>1, <2>3, <2>4 DEF Dealt
<1>3. CASE UninstallLeaves(q, TRUE)
  <2>1. SUFFICES ASSUME OnDisk(disk, current, q)
                 PROVE  \E o \in index \ {current} : OnDisk(disk, o, q)
    BY DEF Dealt
  <2>2. Look(q, TRUE)[q] = Observed(disk[q])
    BY <1>1, <2>1, SeesWhatIsThere
  <2>3. MatchesUs(Look(q, TRUE), current, q)
    BY <1>1, <2>1, <2>2, OnDiskMatches DEF MatchesUs
  <2>4. MatchesOther(Look(q, TRUE), index, current, q)
    BY <1>3, <2>3 DEF UninstallLeaves
  <2>5. PICK o \in index \ {current} :
          q \in Claimed(o) /\ IsMatch(Look(q, TRUE)[q], Claims[o][q])
    BY <2>4 DEF MatchesOther
  <2>6. OnDisk(disk, o, q)
    BY <1>1, <2>2, <2>5, MatchesOnDisk
  <2> QED BY <2>5, <2>6
<1> QED
  BY <1>2, <1>3

LEMMA OrphanUninstall ==
  ASSUME NEW F, DelInv, OrphanPlan(F), NEW q \in remaining, NEW readable \in BOOLEAN,
         Uninstall(q) \/ UninstallLeaves(q, readable), ~ Spend("reads")
  PROVE  OrphanPlan(F)'
<1>1. /\ pc = "plan" /\ cmd.op = "del" /\ IsNext(q) /\ remaining' = remaining \ {q}
      /\ UNCHANGED <<disk, installed, pc, cmd, todo, current, index, fsops>>
      /\ Uninstall(q) \/ UninstallLeaves(q, TRUE)
  <2>1. CASE Uninstall(q)
    BY <2>1 DEF Uninstall, Visit
  <2>2. CASE UninstallLeaves(q, readable)
    <3>1. readable = TRUE
      BY <2>2 DEF UninstallLeaves, Visit, ReadFault
    <3> QED
      BY <2>2, <3>1 DEF UninstallLeaves, Visit
  <2> QED BY <2>1, <2>2
<1>2. DelPlanning
  BY <1>1 DEF OrphanPlan, FixPlanning
<1>3. /\ q \in Paths /\ current \in Packages /\ q \in Claimed(current)
      /\ current \in index /\ pkfsops \in Seq(FsOp) /\ disk \in Tree
      /\ index \subseteq Packages /\ remaining \subseteq Claimed(current)
      /\ statuses \in [Paths -> Status] /\ Look(q, TRUE) \in [Paths -> Status]
  BY <1>1, <1>2, AtClaim DEF DelInv, TypeOK, DelPlanning
<1>4. PICK op \in FsOp : op = RemovalOf(current, q)
  BY <1>3, PlannedOps DEF RemovalOf
<1>5. IsRemoval(op) /\ op.path = q
  BY <1>4 DEF RemovalOf, Op, IsRemoval
<1>6. pkfsops' = pkfsops \/ pkfsops' = Append(pkfsops, op)
  BY <1>1, <1>4 DEF Uninstall, UninstallLeaves, RemovalOf
<1>7. \A i \in DOMAIN pkfsops' :
        IsRemoval(pkfsops'[i]) /\ pkfsops'[i].path \in Claimed(current)
  BY <1>2, <1>3, <1>5, <1>6 DEF DelPlanning
<1>8. ASSUME NEW r \in Paths, statuses'[r].seen /\ ~ statuses'[r].exists,
             NEW o \in index, OnDisk(disk, o, r)
      PROVE  o = current /\ r \notin remaining'
  <2>1. CASE r # q
    <3>1. statuses'[r] = statuses[r]
      BY <1>1, <1>3, <1>8, <2>1
         DEF Uninstall, UninstallLeaves, EmitGone, Look, EnsureActual
    <3>2. o = current /\ r \notin remaining
      BY <1>1, <1>2, <1>8, <3>1 DEF DelPlanning
    <3> QED
      BY <1>1, <3>2
  <2>2. CASE r = q
    <3>1. Look(q, TRUE)[q] = Observed(disk[q])
      BY <1>1, <1>2, <1>8, <2>2, SeesWhatIsThere
    <3>2. q \in Claimed(o) /\ IsMatch(Look(q, TRUE)[q], Claims[o][q])
      BY <1>3, <1>8, <2>2, <3>1, OnDiskMatches
    <3>3. CASE Uninstall(q)
      <4>1. ~ MatchesOther(Look(q, TRUE), index, current, q)
        BY <3>3 DEF Uninstall
      <4> QED
        BY <1>1, <2>2, <3>2, <4>1 DEF MatchesOther
    <3>4. CASE UninstallLeaves(q, TRUE)
      <4>1. statuses' = Look(q, TRUE)
        BY <3>4 DEF UninstallLeaves
      <4> QED
        BY <1>8, <2>2, <3>2, <4>1 DEF IsMatch
    <3> QED
      BY <1>1, <3>3, <3>4
  <2> QED
    BY <2>1, <2>2
<1>9. ASSUME NEW v \in Claimed(current) \ remaining'
      PROVE  (\A r \in remaining' : Rank[r] <= Rank[v]) /\ Dealt(pkfsops', current, v)
  <2>1. CASE v = q
    <3>1. Dealt(pkfsops', current, q)
      BY <1>1, <1>2, VisitedIsDealt
    <3> QED
      BY <1>1, <2>1, <3>1 DEF IsNext
  <2>2. CASE v # q
    <3>1. v \in Claimed(current) \ remaining
      BY <1>1, <1>9, <2>2
    <3>2. (\A r \in remaining : Rank[r] <= Rank[v]) /\ Dealt(pkfsops, current, v)
      BY <1>1, <1>2, <3>1 DEF DelPlanning
    <3>3. ~ IsBelow(q, v)
      <4>1. v \in Paths
        BY <1>3, <3>1, ClaimsAssumption
      <4>2. Rank[q] \in Int /\ Rank[v] \in Int
        BY <1>3, <4>1, RankAssumption
      <4>3. IsBelow(q, v) => Rank[v] < Rank[q]
        BY <1>3, <4>1, RankAssumption
      <4> QED
        BY <3>2, <4>2, <4>3
    <3>4. Dealt(pkfsops', current, v)
      BY <1>3, <1>5, <1>6, <3>1, <3>2, <3>3, DealtAppend
    <3> QED
      BY <1>1, <3>2, <3>4
  <2> QED
    BY <2>1, <2>2
<1>10. DelPlanning'
  <2>1. \A v \in Claimed(current) \ remaining' : Dealt(pkfsops, current, v)'
    BY <1>1, <1>9 DEF Dealt
  <2> QED
    BY <1>1, <1>2, <1>7, <1>8, <1>9, <2>1 DEF DelPlanning
<1> QED
  BY <1>1, <1>10 DEF OrphanPlan, FixPlanning

\* What is to come up to i depends on the first i operations only.
LEMMA ComesOfPrefix ==
  ASSUME NEW t, NEW I, NEW ops, NEW more, NEW i \in Nat, NEW p, NEW q,
         \A k \in 1 .. i : more[k] = ops[k], Comes(t, I, ops, i, p, q)
  PROVE  Comes(t, I, more, i, p, q)
<1>1. ASSUME NEW j \in 1 .. i, NothingCleared(ops, j, i - 1, q)
      PROVE  NothingCleared(more, j, i - 1, q)
  <2>1. \A k \in j .. i - 1 : k \in 1 .. i
    OBVIOUS
  <2> QED
    BY <1>1, <2>1 DEF NothingCleared
<1>2. \A j \in 1 .. i - 1 : j \in 1 .. i /\ j + 1 \in 1 .. i
  OBVIOUS
<1>3. NothingCleared(ops, 1, i - 1, q) => NothingCleared(more, 1, i - 1, q)
  <2>1. \A k \in 1 .. i - 1 : k \in 1 .. i
    OBVIOUS
  <2> QED
    BY <2>1 DEF NothingCleared
<1> QED
  BY <1>1, <1>2, <1>3 DEF Comes

\* all is ops, then own, then the move of p's zip.
Joined(ops, own, p, all, n, m) ==
  /\ DOMAIN ops = 1 .. n /\ DOMAIN own = 1 .. m /\ DOMAIN all = 1 .. n + m + 1
  /\ \A i \in 1 .. n : all[i] = ops[i]
  /\ \A i \in 1 .. m : all[n + i] = own[i]
  /\ all[n + m + 1].kind = "RENAME_ZIP" /\ all[n + m + 1].pkg = p
  /\ \A i \in DOMAIN all : \/ i \in DOMAIN ops /\ all[i] = ops[i]
                           \/ i - n \in DOMAIN own /\ all[i] = own[i - n]
                           \/ i = n + m + 1

LEMMA PlanWithZip ==
  ASSUME NEW ops \in Seq(FsOp), NEW own \in Seq(FsOp), NEW p \in Packages, NEW all,
         all = ops \o own \o <<RenameZipOp(p)>>
  PROVE  Joined(ops, own, p, all, Len(ops), Len(own))
<1>0. PICK n \in Nat, m \in Nat : n = Len(ops) /\ m = Len(own)
  OBVIOUS
<1>1. n \in Nat /\ m \in Nat /\ DOMAIN ops = 1 .. n /\ DOMAIN own = 1 .. m
  BY <1>0
<1>2. PICK both \in Seq(FsOp) : both = ops \o own
  <2>1. ops \o own \in Seq(FsOp)
    OBVIOUS
  <2> QED BY <2>1
<1>3. /\ Len(both) = n + m /\ \A i \in 1 .. n : both[i] = ops[i]
      /\ \A i \in 1 .. m : both[n + i] = own[i]
  BY <1>0, <1>2
<1>4. RenameZipOp(p) \in FsOp /\ RenameZipOp(p).kind = "RENAME_ZIP" /\ RenameZipOp(p).pkg = p
  BY DEF RenameZipOp, FsOp
<1>5. /\ Len(all) = n + m + 1 /\ \A i \in 1 .. n + m : all[i] = both[i]
      /\ all[n + m + 1] = RenameZipOp(p) /\ DOMAIN all = 1 .. n + m + 1
      /\ all \in Seq(FsOp)
  BY <1>1, <1>2, <1>3, <1>4
<1>6. \A i \in 1 .. n : i \in 1 .. n + m
  BY <1>1
<1>7. \A i \in 1 .. m : n + i \in 1 .. n + m
  BY <1>1
<1>8. /\ \A i \in 1 .. n : all[i] = ops[i]
      /\ \A i \in 1 .. m : all[n + i] = own[i]
  BY <1>3, <1>5, <1>6, <1>7
<1>9. ASSUME NEW i \in DOMAIN all
      PROVE  \/ i \in DOMAIN ops /\ all[i] = ops[i]
             \/ i - n \in DOMAIN own /\ all[i] = own[i - n]
             \/ i = n + m + 1
  <2>0. i \in 1 .. n + m + 1
    BY <1>5, <1>9
  <2>1. CASE i <= n
    BY <1>1, <1>8, <2>0, <2>1
  <2>2. CASE n < i /\ i <= n + m
    <3>1. PICK k \in 1 .. m : k = i - n /\ n + k = i
      BY <2>0, <2>2
    <3>2. all[n + k] = own[k] /\ k \in DOMAIN own
      BY <1>1, <1>8
    <3> QED BY <3>1, <3>2
  <2>3. CASE n + m < i
    <3>1. i = n + m + 1
      BY <2>0, <2>3
    <3> QED BY <3>1
  <2>4. i <= n \/ (n < i /\ i <= n + m) \/ n + m < i
    BY <2>0
  <2> QED BY <2>1, <2>2, <2>3, <2>4
<1>10. Joined(ops, own, p, all, n, m)
  BY <1>1, <1>4, <1>5, <1>8, <1>9 DEF Joined
<1> QED
  BY <1>0, <1>10

\* The plan for one more package: its claims are dealt with, and its zip is
\* moved last.
LEMMA DelPlannedFinish ==
  ASSUME NEW ops \in Seq(FsOp), NEW own \in Seq(FsOp), NEW p \in index,
         index \subseteq installed, installed \subseteq Packages,
         DelPlanned(disk, installed, index, ops),
         \A i \in DOMAIN own : IsRemoval(own[i]) /\ own[i].path \in Claimed(p),
         \A q \in Claimed(p) : Dealt(own, p, q),
         disk = start,
         AllHarmless(ops \o own \o <<RenameZipOp(p)>>, index \ {p})
  PROVE  DelPlanned(disk, installed, index \ {p}, ops \o own \o <<RenameZipOp(p)>>)
<1>1. PICK all : all = ops \o own \o <<RenameZipOp(p)>>
  OBVIOUS
<1>2. PICK n \in Nat, m \in Nat : n = Len(ops) /\ m = Len(own)
  OBVIOUS
<1>3. Joined(ops, own, p, all, n, m)
  BY <1>1, <1>2, PlanWithZip
<1>4. /\ DOMAIN ops = 1 .. n /\ DOMAIN own = 1 .. m /\ DOMAIN all = 1 .. n + m + 1
      /\ \A i \in 1 .. n : all[i] = ops[i]
      /\ \A i \in 1 .. m : all[n + i] = own[i]
      /\ all[n + m + 1].kind = "RENAME_ZIP" /\ all[n + m + 1].pkg = p
  BY <1>3 DEF Joined
<1>5. \A i \in DOMAIN all : \/ i \in DOMAIN ops /\ all[i] = ops[i]
                            \/ i - n \in DOMAIN own /\ all[i] = own[i - n]
                            \/ i = n + m + 1
  BY <1>3 DEF Joined
<1>6. n + m + 1 \in DOMAIN all /\ DOMAIN ops \subseteq DOMAIN all
  BY <1>4
<1>7. RemovesOrMoves(all)
  BY <1>4, <1>5 DEF DelPlanned, RemovesOrMoves
<1>8. ASSUME NEW i \in DOMAIN all, all[i].kind = "RENAME_ZIP"
      PROVE  \/ i \in DOMAIN ops /\ all[i] = ops[i] /\ all[i].pkg \in installed \ index
             \/ i = n + m + 1 /\ all[i].pkg = p
  <2>1. CASE i \in DOMAIN ops /\ all[i] = ops[i]
    BY <1>8, <2>1 DEF DelPlanned, ZipsApart
  <2>2. CASE i - n \in DOMAIN own /\ all[i] = own[i - n]
    BY <1>8, <2>2 DEF IsRemoval
  <2>3. CASE i = n + m + 1
    BY <1>4, <2>3
  <2> QED BY <1>5, <2>1, <2>2, <2>3
<1>9. ZipsApart(installed, index \ {p}, all)
  <2> SUFFICES ASSUME NEW i \in DOMAIN all, all[i].kind = "RENAME_ZIP"
               PROVE  /\ all[i].pkg \in installed \ (index \ {p})
                      /\ \A j \in DOMAIN all : Moves(all[j], all[i].pkg) => j = i
    BY DEF ZipsApart
  <2>1. all[i].pkg \in installed \ (index \ {p})
    BY <1>8
  <2>2. ASSUME NEW j \in DOMAIN all, Moves(all[j], all[i].pkg) PROVE j = i
    <3>1. all[j].kind = "RENAME_ZIP" /\ all[j].pkg = all[i].pkg
      BY <2>2 DEF Moves
    <3>2. CASE i = n + m + 1 \/ j = n + m + 1
      BY <1>4, <1>8, <3>1, <3>2
    <3>3. CASE i # n + m + 1 /\ j # n + m + 1
      <4>1. /\ i \in DOMAIN ops /\ all[i] = ops[i]
            /\ j \in DOMAIN ops /\ all[j] = ops[j]
        BY <1>8, <3>1, <3>3
      <4>2. ops[i].kind = "RENAME_ZIP" /\ Moves(ops[j], ops[i].pkg)
        BY <2>2, <4>1
      <4>3. ZipsApart(installed, index, ops)
        BY DEF DelPlanned
      <4>4. \A k \in DOMAIN ops : Moves(ops[k], ops[i].pkg) => k = i
        BY <4>1, <4>2, <4>3 DEF ZipsApart
      <4> QED
        BY <4>1, <4>2, <4>4
    <3> QED BY <3>2, <3>3
  <2> QED
    BY <2>1, <2>2
<1>10. Owned(all)
  <2> SUFFICES ASSUME NEW k \in DOMAIN all, IsRemoval(all[k])
               PROVE  \E i \in DOMAIN all : /\ k < i /\ all[i].kind = "RENAME_ZIP"
                                            /\ all[k].path \in Claimed(all[i].pkg)
    BY DEF Owned
  <2>1. CASE k \in DOMAIN ops /\ all[k] = ops[k]
    <3>1. PICK i \in DOMAIN ops : /\ k < i /\ ops[i].kind = "RENAME_ZIP"
                                  /\ ops[k].path \in Claimed(ops[i].pkg)
      BY <2>1 DEF DelPlanned, Owned
    <3> QED
      BY <1>4, <1>6, <2>1, <3>1
  <2>2. CASE k - n \in DOMAIN own /\ all[k] = own[k - n]
    <3>1. k < n + m + 1 /\ all[k].path \in Claimed(p)
      BY <1>4, <2>2
    <3> QED
      BY <1>4, <1>6, <3>1
  <2>3. CASE k = n + m + 1
    BY <1>4, <2>3 DEF IsRemoval
  <2> QED
    BY <1>5, <2>1, <2>2, <2>3
<1>11. ASSUME NEW q \in Claimed(p)
       PROVE  Comes(disk, installed, all, n + m + 1, p, q)
  <2>1. (n + m + 1) - 1 = n + m
    OBVIOUS
  <2>2. SUFFICES ASSUME OnDisk(disk, p, q)
                 PROVE
          \/ \E o \in installed \ {p} :
               /\ OnDisk(disk, o, q)
               /\ \A k \in 1 .. n + m + 1 : /\ IsRemoval(all[k]) => all[k].path # q
                                            /\ ~ Moves(all[k], o)
          \/ \E j \in 1 .. n + m :
               all[j] = RemovalOf(p, q) /\ NothingCleared(all, j + 1, n + m, q)
    BY <2>1 DEF Comes
  <2>3. CASE \E o \in index \ {p} : OnDisk(disk, o, q)
    <3>1. PICK o \in index \ {p} : OnDisk(disk, o, q)
      BY <2>3
    <3>2. ASSUME NEW k \in 1 .. n + m + 1, IsRemoval(all[k]) PROVE all[k].path # q
      <4>1. Harmless(all[k], index \ {p})
        BY <1>1, <1>4 DEF AllHarmless
      <4> QED
        BY <3>1, <3>2, <4>1 DEF Harmless, IsRemoval
    <3>3. ASSUME NEW k \in 1 .. n + m + 1, Moves(all[k], o) PROVE FALSE
      BY <1>4, <1>8, <3>1, <3>3 DEF Moves
    <3> QED
      BY <3>1, <3>2, <3>3
  <2>4. CASE \E j \in DOMAIN own :
               own[j] = RemovalOf(p, q) /\ NothingCleared(own, j + 1, Len(own), q)
    <3>1. PICK j \in 1 .. m :
               own[j] = RemovalOf(p, q) /\ NothingCleared(own, j + 1, m, q)
      BY <1>2, <1>4, <2>4
    <3>2. n + j \in 1 .. n + m /\ all[n + j] = RemovalOf(p, q)
      BY <1>4, <3>1
    <3>3. ASSUME NEW k \in (n + j) + 1 .. n + m, IsRemoval(all[k])
          PROVE  ~ IsBelow(all[k].path, q)
      <4>1. k - n \in j + 1 .. m /\ k - n \in 1 .. m /\ n + (k - n) = k
        BY <3>3
      <4>2. all[k] = own[k - n]
        BY <1>4, <4>1
      <4> QED
        BY <3>1, <3>3, <4>1, <4>2 DEF NothingCleared
    <3> QED
      BY <3>2, <3>3 DEF NothingCleared
  <2> QED
    BY <2>2, <2>3, <2>4 DEF Dealt
<1>12. AllCome(disk, installed, all)
  <2> SUFFICES ASSUME NEW i \in DOMAIN all, all[i].kind = "RENAME_ZIP",
                      NEW q \in Claimed(all[i].pkg)
               PROVE  Comes(disk, installed, all, i, all[i].pkg, q)
    BY DEF AllCome
  <2>1. CASE i \in DOMAIN ops /\ all[i] = ops[i]
    <3>1. Comes(disk, installed, ops, i, all[i].pkg, q)
      BY <2>1 DEF DelPlanned, AllCome
    <3>2. i \in Nat /\ \A k \in 1 .. i : all[k] = ops[k]
      BY <1>4, <2>1
    <3> QED
      BY <3>1, <3>2, ComesOfPrefix
  <2>2. CASE i = n + m + 1 /\ all[i].pkg = p
    BY <1>11, <2>2
  <2> QED
    BY <1>8, <2>1, <2>2
<1> QED
  BY <1>1, <1>7, <1>9, <1>10, <1>12 DEF DelPlanned

LEMMA OrphanFinishUninstall ==
  ASSUME NEW F, DelInv, OrphanPlan(F), FinishUninstall
  PROVE  OrphanPlan(F)'
<1>1. /\ pc = "plan" /\ cmd.op = "del" /\ remaining = {} /\ remaining' = {}
      /\ pc' = "choose" /\ pkfsops' = <<>> /\ index' = index \ {current}
      /\ fsops' = fsops \o pkfsops \o <<RenameZipOp(current)>>
      /\ UNCHANGED <<disk, installed, cmd, statuses, start>>
  BY DEF FinishUninstall, RemoveClaims
<1>2. /\ fsops \in Seq(FsOp) /\ pkfsops \in Seq(FsOp) /\ installed \subseteq Packages
      /\ disk = start
  BY <1>1 DEF DelInv, TypeOK, DelPlan
<1>3. DelPlanning
  BY <1>1 DEF OrphanPlan, FixPlanning
<1>4. /\ index \subseteq installed /\ current \in index
      /\ \A i \in DOMAIN pkfsops :
           IsRemoval(pkfsops[i]) /\ pkfsops[i].path \in Claimed(current)
      /\ \A q \in Claimed(current) : Dealt(pkfsops, current, q)
  BY <1>1, <1>3 DEF DelPlanning
<1>5. AllHarmless(fsops, index)'
  BY <1>1, DelFinish DEF DelRest, DelPlan
<1>6. AllHarmless(fsops \o pkfsops \o <<RenameZipOp(current)>>, index \ {current})
  BY <1>1, <1>5 DEF AllHarmless, Harmless
<1>7. ASSUME ~ cmd.dryRun PROVE DelPlanned(disk', installed', index', fsops')
  <2>1. DelPlanned(disk, installed, index, fsops)
    BY <1>1, <1>7 DEF OrphanPlan, FixPlanning
  <2>2. DelPlanned(disk, installed, index \ {current},
                   fsops \o pkfsops \o <<RenameZipOp(current)>>)
    BY <1>2, <1>4, <1>6, <2>1, DelPlannedFinish
  <2> QED
    BY <1>1, <2>2
<1>8. DelPlanning'
  BY <1>1, <1>3 DEF DelPlanning
<1> QED
  BY <1>1, <1>7, <1>8 DEF OrphanPlan, FixPlanning

\* Executing an operation, of either command.
LEMMA OrphanExecuteOp ==
  ASSUME NEW F, DelInv, LeftNothing(F), OrphanPlan(F), ExecuteOp
  PROVE  LeftNothing(F)' /\ OrphanPlan(F)'
<1>1. /\ pc = "execute" /\ fsops # <<>> /\ fsops \in Seq(FsOp) /\ fsops' = Tail(fsops)
      /\ pkfsops = <<>> /\ UNCHANGED <<pc, cmd, todo, index, pkfsops, current>>
      /\ TypeOK
  BY DEF ExecuteOp, NextOp, DelInv, NothingPlanned, TypeOK
<1>2. /\ disk \in Tree /\ installed \in SUBSET Packages
      /\ fsops[1] \in FsOp /\ Head(fsops) = fsops[1]
  BY <1>1, TailOf DEF TypeOK
<1>3. cmd.dryRun \/ ~ cmd.dryRun
  OBVIOUS
<1>4. ASSUME cmd.op # "del"
      PROVE  /\ FixOp(fsops[1], installed \cap F) /\ FixOps(fsops', installed \cap F)
             /\ todo \subseteq F
  <2>1. PICK I : I = installed \cap F
    OBVIOUS
  <2>2. FixOps(fsops, I) /\ todo \subseteq F
    BY <1>4, <2>1 DEF OrphanPlan, FixPlanning
  <2>3. FixOp(fsops[1], I) /\ FixOps(fsops', I)
    BY <1>1, <2>2, TailOf DEF FixOps
  <2> QED
    BY <2>1, <2>2, <2>3
<1>5. CASE cmd.dryRun
  <2>1. UNCHANGED <<disk, installed>>
    BY <1>5 DEF ExecuteOp, persistent
  <2>2. LeftNothing(F)'
    BY <2>1, LeftAsItWas
  <2>3. OrphanPlan(F)'
    BY <1>1, <1>4, <1>5, <2>1 DEF OrphanPlan, FixPlanning, FixOps
  <2> QED BY <2>2, <2>3
<1>6. CASE ~ cmd.dryRun
  <2>1. /\ disk' = Effect(disk, fsops[1])
        /\ installed' = After(installed, fsops[1])
    BY <1>2, <1>6 DEF ExecuteOp, After
  <2>2. CASE cmd.op = "del"
    <3>1. DelPlanned(disk, installed, index, fsops)
      BY <1>6, <2>2 DEF OrphanPlan, FixPlanning
    <3>2. DelPlanned(disk', installed', index, fsops')
      BY <1>1, <1>2, <2>1, <3>1, DelPlannedAfter
    <3>3. OrphanPlan(F)'
      BY <1>1, <2>2, <3>2 DEF OrphanPlan, FixPlanning
    <3>4. CASE IsRemoval(fsops[1])
      <4>1. UNCHANGED installed
        BY <2>1, <3>4 DEF After, IsRemoval
      <4>2. \A q \in Paths \ {Sysroot} : Covered(disk, disk', installed, q)
        BY <1>1, <1>2, <2>1, <3>1, <3>4, DelRemovalCovers
      <4> QED
        BY <1>1, <3>3, <4>1, <4>2, CoveredLeavesNothing
    <3>5. CASE fsops[1].kind = "RENAME_ZIP"
      <4>1. UNCHANGED disk
        BY <2>1, <3>5 DEF Effect
      <4>2. installed' = installed \ {fsops[1].pkg}
        BY <2>1, <3>5 DEF After
      <4> QED
        BY <1>1, <3>1, <3>3, <3>5, <4>1, <4>2, ZipLeavesNothing
    <3> QED
      BY <1>1, <3>1, <3>4, <3>5, TailOf DEF DelPlanned, RemovesOrMoves
  <2>3. CASE cmd.op # "del"
    <3>1. UNCHANGED installed
      BY <1>4, <2>1, <2>3 DEF FixOp, After
    <3>2. \A q \in Paths \ {Sysroot} :
            IsSaved(F, q) \/ Covered(disk, disk', installed, q)
      <4>1. PICK I \in SUBSET Packages, t \in Tree : I = installed \cap F /\ t = disk'
        BY <1>2, <2>1, EffectType
      <4>2. \A q \in Paths \ {Sysroot} : ~ IsSaved(F, q) => ~ IsSaved(I, q)
        BY <4>1 DEF IsSaved
      <4>3. \A q \in Paths \ {Sysroot} : ~ IsSaved(F, q) => Covered(disk, t, I, q)
        BY <1>2, <1>4, <2>1, <2>3, <4>1, <4>2, FixOpCovers
      <4>4. I \in SUBSET installed
        BY <4>1
      <4> QED
        BY <4>1, <4>3, <4>4, CoveredByMore
    <3>3. LeftNothing(F)'
      BY <1>1, <3>1, <3>2, CoveredLeavesNothing
    <3>4. OrphanPlan(F)'
      BY <1>1, <1>4, <2>3, <3>1 DEF OrphanPlan, FixPlanning, FixOps
    <3> QED BY <3>3, <3>4
  <2> QED BY <2>2, <2>3
<1> QED
  BY <1>5, <1>6

\* Only a `fix` has an operation whose path has been freed; when it does nothing
\* the rest of the plan is as it was.
LEMMA OrphanFreedPath ==
  ASSUME NEW F, DelInv, LeftNothing(F), OrphanPlan(F), FreedPathFails
  PROVE  LeftNothing(F)' /\ OrphanPlan(F)'
<1>1. /\ pc = "execute" /\ fsops # <<>> /\ fsops \in Seq(FsOp) /\ fsops' = Tail(fsops)
      /\ UNCHANGED <<disk, installed, pc, cmd, todo, index, pkfsops, current>>
      /\ Head(fsops).kind = "RMDIR_FREED"
  BY DEF FreedPathFails, NextOp, persistent, DelInv, TypeOK
<1>2. Head(fsops) = fsops[1] /\ 1 \in DOMAIN fsops
  BY <1>1, TailOf
<1>3. cmd.op # "del"
  BY <1>1, <1>2 DEF DelInv, DelPlan, AllHarmless, Harmless
<1>4. FixOps(fsops', installed \cap F)
  <2>1. PICK I : I = installed \cap F
    OBVIOUS
  <2>2. FixOps(fsops, I)
    BY <1>3, <2>1 DEF OrphanPlan, FixPlanning
  <2>3. FixOps(fsops', I)
    BY <1>1, <2>2, TailOf DEF FixOps
  <2> QED
    BY <2>1, <2>3
<1>5. OrphanPlan(F)'
  BY <1>1, <1>3, <1>4 DEF OrphanPlan, FixPlanning, FixOps
<1> QED
  BY <1>1, <1>5, LeftAsItWas

\* A process that dies leaves what it was extracting cut off, and nothing else.
LEMMA OrphanCrash ==
  ASSUME NEW F, DelInv, LeftNothing(F), OrphanPlan(F), Crash
  PROVE  LeftNothing(F)' /\ OrphanPlan(F)'
<1>1. OrphanPlan(F)' /\ UNCHANGED installed
  BY OrphanRest DEF Crash
<1>2. TypeOK /\ fsops \in Seq(FsOp) /\ disk \in Tree /\ installed \in SUBSET Packages
  BY DEF DelInv, TypeOK
<1>3. CASE disk' = disk
  BY <1>1, <1>3, LeftAsItWas
<1>4. CASE disk' # disk
  <2>1. fsops # <<>> /\ ~ cmd.dryRun /\ disk' \in CutOff(fsops[1])
    BY <1>2, <1>4, TailOf DEF Crash
  <2>2. fsops[1].kind = "CREATEFILE"
    BY <1>4, <2>1 DEF CutOff
  <2>3. cmd.op # "del"
    BY <1>2, <2>1, <2>2, TailOf DEF OrphanPlan, DelPlanned, RemovesOrMoves, IsRemoval
  <2>4. FixOp(fsops[1], installed \cap F)
    BY <1>2, <2>1, <2>3, TailOf DEF OrphanPlan, FixPlanning, FixOps
  <2>5. \A q \in Paths \ {Sysroot} : Covered(disk, disk', installed, q)
    <3>1. PICK I \in SUBSET Packages : I = installed \cap F
      BY <1>2
    <3>2. \A q \in Paths \ {Sysroot} : Covered(disk, disk', I, q)
      BY <1>2, <2>1, <2>4, <3>1, TailOf, CutOffCovers
    <3> QED
      BY <3>1, <3>2, CoveredByMore
  <2> QED
    BY <1>1, <1>2, <2>5, CoveredLeavesNothing
<1> QED
  BY <1>3, <1>4

\* Every step of runs in which nothing fails.
LEMMA OrphanStep ==
  ASSUME NEW F, DelInv, LeftNothing(F), OrphanPlan(F), [Next]_vars,
         ~ Spend("reads"), ~ Spend("writes"), cmd'.op # "del" => todo' \subseteq F
  PROVE  LeftNothing(F)' /\ OrphanPlan(F)'
<1>3. TypeOK
  BY DEF DelInv
<1>4. ASSUME UNCHANGED <<disk, installed>>, OrphanPlan(F)'
      PROVE  LeftNothing(F)' /\ OrphanPlan(F)'
  BY <1>3, <1>4, LeftAsItWas
<1>5. ASSUME NEW op \in {"del", "fix"}, NEW targets \in SUBSET Packages,
             NEW dryRun \in BOOLEAN, Start(op, targets, dryRun)
      PROVE  LeftNothing(F)' /\ OrphanPlan(F)'
  <2>1. UNCHANGED <<disk, installed>>
    BY <1>5 DEF Start
  <2> QED
    BY <1>3, <1>4, <1>5, <2>1, OrphanStart
<1>6. CASE Plan
  <2>1. CASE BuildIndex
    BY <1>3, <1>4, <2>1, OrphanBuildIndex DEF BuildIndex
  <2>2. CASE PrepareSysroot
    BY <1>3, <1>4, <2>2, OrphanPrepare DEF PrepareSysroot
  <2>3. CASE SysrootUnreadable
    BY <1>3, <2>3 DEF SysrootUnreadable
  <2>4. CASE (\E p \in todo : RefusePackage(p) \/ BeginPackage(p)) \/ Gate
    <3>1. UNCHANGED <<disk, installed>>
      BY <2>4 DEF RefusePackage, BeginPackage, Gate
    <3> QED
      BY <1>3, <1>4, <2>4, <3>1, OrphanPackage
  <2>5. ASSUME NEW q \in remaining, NEW readable \in BOOLEAN,
               \/ InstallMissing(q, readable) \/ UninstallLeaves(q, readable)
               \/ InstallKept(q) \/ InstallConflict(q)
               \/ InstallDivert(q) \/ InstallDivertFails(q) \/ Uninstall(q)
        PROVE  LeftNothing(F)' /\ OrphanPlan(F)'
    <3>1. UNCHANGED <<disk, installed>>
      BY <2>5 DEF InstallMissing, UninstallLeaves, InstallKept, InstallConflict,
         InstallDivert, InstallDivertFails, Uninstall, Visit
    <3>2. OrphanPlan(F)'
      BY <1>3, <2>5, OrphanInstall, OrphanUninstall
    <3> QED
      BY <1>4, <3>1, <3>2
  <2>6. CASE FinishInstall
    BY <1>3, <1>4, <2>6, OrphanFinishInstall DEF FinishInstall
  <2>7. CASE FinishUninstall
    BY <1>3, <1>4, <2>7, OrphanFinishUninstall DEF FinishUninstall
  <2> QED
    BY <1>6, <2>1, <2>2, <2>3, <2>4, <2>5, <2>6, <2>7 DEF Plan
<1>7. CASE Execute
  <2>1. CASE ExecuteOp
    BY <1>3, <2>1, OrphanExecuteOp
  <2>2. CASE OpFails \/ FreedPathFails
    BY <1>3, <2>2, OrphanFreedPath DEF OpFails
  <2>3. CASE FreedPathAborts \/ Exit
    <3>1. Rest /\ UNCHANGED <<disk, installed>>
      BY <2>3 DEF FreedPathAborts, Exit
    <3> QED
      BY <1>4, <3>1, OrphanRest
  <2>4. CASE FinishExecution
    <3>1. /\ pc' = "done" /\ UNCHANGED <<disk, installed, cmd, index, fsops, pkfsops>>
      BY <2>4 DEF FinishExecution, planning
    <3>2. OrphanPlan(F)'
      BY <1>3, <3>1 DEF OrphanPlan, FixPlanning
    <3> QED
      BY <1>4, <3>1, <3>2
  <2> QED
    BY <1>7, <2>1, <2>2, <2>3, <2>4 DEF Execute
<1>8. CASE Crash
  BY <1>3, <1>8, OrphanCrash
<1>9. CASE UNCHANGED vars
  <2>1. UNCHANGED <<disk, installed, pc, cmd, todo, current, remaining, index, statuses,
                    fsops, pkfsops>>
    BY <1>9 DEF vars
  <2>2. DelPlanning' <=> DelPlanning
    BY <2>1 DEF DelPlanning, Dealt
  <2>3. OrphanPlan(F)'
    BY <1>3, <2>1, <2>2 DEF OrphanPlan, FixPlanning
  <2> QED
    BY <1>4, <2>1, <2>3
<1> QED
  BY <1>5, <1>6, <1>7, <1>8, <1>9 DEF Next, Run

LEMMA OrphanNext == OrphanInv /\ [Next]_vars => OrphanInv'
<1> SUFFICES ASSUME OrphanInv, [Next]_vars PROVE OrphanInv'
  OBVIOUS
<1>1. DelInv' /\ TypeOK /\ TypeOK'
  BY DelNext DEF OrphanInv, DelInv
<1>2. Counted' /\ (Quiet' => Quiet /\ ~ Spend("reads") /\ ~ Spend("writes"))
  BY <1>1, QuietStep DEF OrphanInv
<1>3. todo' \subseteq Packages
  BY <1>1 DEF TypeOK
<1>4. Quiet' => LeftNothing(Packages)' /\ OrphanPlan(Packages)'
  BY <1>2, <1>3, OrphanStep DEF OrphanInv
<1> QED
  BY <1>1, <1>2, <1>4 DEF OrphanInv

\* To begin with.
LEMMA OrphanBegins ==
  ASSUME NEW F, Init
  PROVE  LeftNothing(F) /\ OrphanPlan(F)
<1>1. LeftNothing(F)
  BY DEF Init, LeftNothing
<1>2. OrphanPlan(F)
  BY DEF Init, NoCommand, OrphanPlan, FixPlanning, FixOps
<1> QED
  BY <1>1, <1>2

LEMMA OrphanInit == Init => OrphanInv
<1> SUFFICES ASSUME Init PROVE OrphanInv
  OBVIOUS
<1>1. DelInv
  BY TypeInit, DelInit DEF DelInv, DelRest
<1>2. Counted
  BY BoundsAssumption DEF Init, Counted
<1> QED
  BY <1>1, <1>2, OrphanBegins DEF OrphanInv

\* As long as nothing fails, a package whose zip has left the installed
\* directory has left nothing that only it owns, at every step and after every
\* crash, for any packages, trees and sequences of commands.
THEOREM NoOrphansCorrect == Spec => []NoOrphans
<1>1. OrphanInv => NoOrphans
  BY DEF OrphanInv, Quiet, NoOrphans, LeftNothing, RemovedLeavesNothing
<1> QED
  BY <1>1, OrphanInit, OrphanNext, PTL DEF Spec

(***************************************************************************)
(* A `del` while another one runs, for TwoProcesses.  Each takes the        *)
(* other's package for one that stays, so what both claim may be left       *)
(* behind; but what p alone installs at q is dealt with by every plan for   *)
(* p.  The other process only takes claims away, so what is nobody's stays  *)
(* where it is.                                                             *)
(***************************************************************************)
\* No other package installs at q what p does.
Sole(p, q) == \A o \in Packages \ {p} : q \in Claimed(o) => Claims[o][q] # Claims[p][q]

\* Something below q is no package's.
HoldsForeign(t, q) ==
  \E u \in Paths : /\ IsBelow(u, q) /\ t[u] # Missing
                   /\ \A o \in Packages : ~ OnDisk(t, o, u)

\* What p has at q is gone, or a directory in use by others than packages.
LeftInUse(t, p, q) == OnDisk(t, p, q) => Claims[p][q].isDir /\ HoldsForeign(t, q)

\* Once the first n operations are done, what p alone has at q is gone or in use.
Due(t, ops, n, p, q) ==
  Sole(p, q) =>
    \/ LeftInUse(t, p, q)
    \/ \E j \in 1 .. n : ops[j] = RemovalOf(p, q) /\ NothingCleared(ops, j + 1, n, q)

DueBy(t, ops, n, p) == \A q \in Claimed(p) : Due(t, ops, n, p, q)

AllDue(t, ops) ==
  \A i \in DOMAIN ops : ops[i].kind = "RENAME_ZIP" => DueBy(t, ops, i - 1, ops[i].pkg)

\* What is at q is some package's, if anything is.
ClaimsOnly(t, q) == t[q] = Missing \/ \E o \in Packages : OnDisk(t, o, q)

TakesClaims(t, ops) ==
  \A i \in DOMAIN ops : IsRemoval(ops[i]) =>
    ops[i].path # Sysroot /\ ClaimsOnly(t, ops[i].path)

DuePlanned(t, ops) == RemovesOrMoves(ops) /\ TakesClaims(t, ops) /\ AllDue(t, ops)

\* Nothing but claims has gone.
Thinned(t, t2) ==
  \A q \in Paths \ {Sysroot} : t2[q] = t[q] \/ (t2[q] = Missing /\ ClaimsOnly(t, q))

LEMMA BelowIsNotSysroot ==
  ASSUME NEW u \in Paths, NEW q \in Paths, IsBelow(u, q)
  PROVE  u # Sysroot /\ u # q
<1>1. u \in Seq(PathNames) /\ q \in Seq(PathNames)
  BY PathIsSequence
<1>2. Len(q) < Len(u)
  BY <1>1, BelowMeans
<1> QED
  BY <1>1, <1>2 DEF Sysroot

LEMMA ThinnedClaims ==
  ASSUME NEW t, NEW t2, Thinned(t, t2), NEW q \in Paths \ {Sysroot}
  PROVE  /\ \A p \in Packages : OnDisk(t2, p, q) => OnDisk(t, p, q) /\ t2[q] = t[q]
         /\ ClaimsOnly(t, q) => ClaimsOnly(t2, q)
         /\ ~ ClaimsOnly(t, q) => ~ ClaimsOnly(t2, q)
<1>1. t2[q] = t[q] \/ (t2[q] = Missing /\ ClaimsOnly(t, q))
  BY DEF Thinned
<1>2. ASSUME NEW p \in Packages, OnDisk(t2, p, q)
      PROVE  OnDisk(t, p, q) /\ t2[q] = t[q]
  BY <1>1, <1>2 DEF OnDisk, Missing
<1>3. ASSUME NEW p \in Packages, t2[q] = t[q] PROVE OnDisk(t2, p, q) <=> OnDisk(t, p, q)
  BY <1>3 DEF OnDisk
<1> QED
  BY <1>1, <1>2, <1>3 DEF ClaimsOnly

\* What is nobody's stays, so a directory stays in use.
LEMMA ThinnedInUse ==
  ASSUME NEW t, NEW t2, Thinned(t, t2), NEW p \in Packages, NEW q \in Claimed(p),
         LeftInUse(t, p, q)
  PROVE  LeftInUse(t2, p, q)
<1>1. q \in Paths \ {Sysroot}
  BY ClaimsAssumption
<1>2. SUFFICES ASSUME OnDisk(t2, p, q) PROVE Claims[p][q].isDir /\ HoldsForeign(t2, q)
  BY DEF LeftInUse
<1>3. Claims[p][q].isDir /\ HoldsForeign(t, q)
  BY <1>1, <1>2, ThinnedClaims DEF LeftInUse
<1>4. PICK u \in Paths : /\ IsBelow(u, q) /\ t[u] # Missing
                         /\ \A o \in Packages : ~ OnDisk(t, o, u)
  BY <1>3 DEF HoldsForeign
<1>5. u # Sysroot /\ ~ ClaimsOnly(t, u)
  BY <1>1, <1>4, BelowIsNotSysroot DEF ClaimsOnly
<1>6. ~ ClaimsOnly(t2, u)
  BY <1>5, ThinnedClaims
<1> QED
  BY <1>3, <1>4, <1>6 DEF HoldsForeign, ClaimsOnly

LEMMA ThinnedDue ==
  ASSUME NEW t, NEW t2, Thinned(t, t2), NEW ops, NEW n, NEW p \in Packages,
         NEW q \in Claimed(p), Due(t, ops, n, p, q)
  PROVE  Due(t2, ops, n, p, q)
BY ThinnedInUse DEF Due

\* A plan is as good on a tree from which only claims have gone.
LEMMA ThinnedPlan ==
  ASSUME NEW t, NEW t2, Thinned(t, t2), NEW ops \in Seq(FsOp), DuePlanned(t, ops)
  PROVE  DuePlanned(t2, ops)
<1>1. ASSUME NEW i \in DOMAIN ops, IsRemoval(ops[i])
      PROVE  ops[i].path # Sysroot /\ ClaimsOnly(t2, ops[i].path)
  <2>1. ops[i].path # Sysroot /\ ClaimsOnly(t, ops[i].path)
    BY <1>1 DEF DuePlanned, TakesClaims
  <2>2. ops[i].path \in Paths
    BY <1>1, FsOpFields DEF IsRemoval
  <2> QED
    BY <2>1, <2>2, ThinnedClaims
<1>2. ASSUME NEW i \in DOMAIN ops, ops[i].kind = "RENAME_ZIP"
      PROVE  DueBy(t2, ops, i - 1, ops[i].pkg)
  <2>1. ops[i].pkg \in Packages
    BY <1>2, FsOpFields
  <2>2. DueBy(t, ops, i - 1, ops[i].pkg)
    BY <1>2 DEF DuePlanned, AllDue
  <2> QED
    BY <2>1, <2>2, ThinnedDue DEF DueBy
<1> QED
  BY <1>1, <1>2 DEF DuePlanned, TakesClaims, AllDue

LEMMA RemovalThins ==
  ASSUME NEW t \in Tree, NEW op \in FsOp, IsRemoval(op), ClaimsOnly(t, op.path)
  PROVE  Thinned(t, Effect(t, op))
<1>1. PICK t2 \in Tree : t2 = Effect(t, op)
  BY EffectType
<1>2. /\ \A r \in Paths : r # op.path => t2[r] = t[r]
      /\ t2 = t \/ t2[op.path] = Missing
  BY <1>1, RemovalEffect
<1>3. Thinned(t, t2)
  BY <1>2 DEF Thinned
<1> QED
  BY <1>1, <1>3

\* What stops the removal of a directory that p alone has is in use itself: a
\* package that had it would claim the directory too.
LEMMA FailsForForeign ==
  ASSUME NEW t \in Tree, NEW ops \in Seq(FsOp), NEW n \in Nat, NEW p \in Packages,
         DueBy(t, ops, n, p), NEW q \in Claimed(p), Sole(p, q), OnDisk(t, p, q),
         ops[1] = RemovalOf(p, q), NothingCleared(ops, 2, n, q),
         Effect(t, ops[1])[q] # Missing
  PROVE  LeftInUse(t, p, q)
<1>1. q \in Paths \ {Sysroot} /\ Claims[p][q].isDir \in BOOLEAN
  BY ClaimsAssumption DEF Claim
<1>2. t[q].kind = (IF Claims[p][q].isDir THEN "dir" ELSE "file")
  BY DEF OnDisk
<1>3. Claims[p][q].isDir /\ ~ IsEmpty(t, q)
  <2>1. SUFFICES ASSUME ~ (Claims[p][q].isDir /\ ~ IsEmpty(t, q))
                 PROVE  Effect(t, ops[1])[q] = Missing
    OBVIOUS
  <2> QED
    BY <1>1, <1>2, <2>1 DEF RemovalOf, Op, Effect, RemovePath, RemoveDir, Tree
<1>4. PICK u \in Paths : IsBelow(u, q) /\ t[u] # Missing
  BY <1>3 DEF IsEmpty
<1>5. CASE \A o \in Packages : ~ OnDisk(t, o, u)
  BY <1>3, <1>4, <1>5 DEF LeftInUse, HoldsForeign
<1>6. CASE \E o \in Packages : OnDisk(t, o, u)
  <2>1. PICK o \in Packages : OnDisk(t, o, u)
    BY <1>6
  <2>2. ASSUME NEW x \in Packages, u \in Claimed(x) PROVE x = p
    <3>1. q \in Claimed(x) /\ Claims[x][q] = DirClaim
      BY <1>1, <1>4, <2>2, ClaimsLieInDirectories
    <3>2. Claims[p][q] = DirClaim
      BY <1>3, ClaimsAssumption
    <3> QED
      BY <3>1, <3>2 DEF Sole
  <2>3. u \in Claimed(p) /\ OnDisk(t, p, u)
    BY <2>1, <2>2 DEF OnDisk
  <2>4. Sole(p, u)
    BY <2>2 DEF Sole
  <2>5. Due(t, ops, n, p, u)
    BY <2>3 DEF DueBy
  <2>6. ASSUME NEW j \in 1 .. n, ops[j] = RemovalOf(p, u) PROVE FALSE
    <3>1. IsRemoval(ops[j]) /\ ops[j].path = u
      BY <2>6 DEF RemovalOf, Op, IsRemoval
    <3>2. CASE j = 1
      BY <1>1, <1>4, <3>1, <3>2, BelowIsNotSysroot DEF RemovalOf, Op
    <3>3. CASE j # 1
      <4>1. j \in 2 .. n
        BY <3>3
      <4> QED
        BY <1>4, <3>1, <4>1 DEF NothingCleared
    <3> QED BY <3>2, <3>3
  <2>7. LeftInUse(t, p, u)
    BY <2>4, <2>5, <2>6 DEF Due
  <2>8. PICK w \in Paths : /\ IsBelow(w, u) /\ t[w] # Missing
                           /\ \A x \in Packages : ~ OnDisk(t, x, w)
    BY <2>3, <2>7 DEF LeftInUse, HoldsForeign
  <2>9. IsBelow(w, q)
    BY <1>1, <1>4, <2>8, BelowTransitive
  <2> QED
    BY <1>3, <2>8, <2>9 DEF LeftInUse, HoldsForeign
<1> QED
  BY <1>5, <1>6

\* Executing the first operation does a part of what is due.
LEMMA DueAfter ==
  ASSUME NEW t \in Tree, NEW ops \in Seq(FsOp), ops # <<>>,
         NEW n \in 1 .. Len(ops), NEW p \in Packages, DueBy(t, ops, n, p),
         Thinned(t, Effect(t, ops[1]))
  PROVE  DueBy(Effect(t, ops[1]), Tail(ops), n - 1, p)
<1>1. PICK t2 : t2 = Effect(t, ops[1])
  OBVIOUS
<1>2. PICK rest : rest = Tail(ops)
  OBVIOUS
<1>3. /\ n \in Nat /\ n - 1 \in Nat /\ n <= Len(ops)
      /\ \A k \in 1 .. n - 1 : rest[k] = ops[k + 1] /\ k + 1 \in 2 .. n
  BY <1>2, TailOf
<1>4. SUFFICES ASSUME NEW q \in Claimed(p), Sole(p, q), ~ LeftInUse(t2, p, q)
               PROVE  \E j \in 1 .. n - 1 :
                        rest[j] = RemovalOf(p, q) /\ NothingCleared(rest, j + 1, n - 1, q)
  <2>1. DueBy(t2, rest, n - 1, p)
    BY <1>4 DEF DueBy, Due
  <2> QED BY <1>1, <1>2, <2>1
<1>5. /\ ~ LeftInUse(t, p, q) /\ OnDisk(t2, p, q) /\ q \in Paths \ {Sysroot}
  BY <1>1, <1>4, ThinnedInUse, ClaimsAssumption DEF LeftInUse
<1>6. t2[q] # Missing /\ OnDisk(t, p, q)
  BY <1>1, <1>5, ThinnedClaims DEF OnDisk, Missing
<1>7. PICK j \in 1 .. n : ops[j] = RemovalOf(p, q) /\ NothingCleared(ops, j + 1, n, q)
  BY <1>4, <1>5 DEF DueBy, Due
<1>8. ASSUME j = 1 PROVE FALSE
  <2>1. ops[1] = RemovalOf(p, q) /\ NothingCleared(ops, 2, n, q)
    BY <1>7, <1>8
  <2>2. Effect(t, ops[1])[q] # Missing
    BY <1>1, <1>6
  <2>3. LeftInUse(t, p, q)
    BY <1>3, <1>4, <1>6, <2>1, <2>2, FailsForForeign
  <2> QED
    BY <1>5, <2>3
<1>9. j - 1 \in 1 .. n - 1 /\ rest[j - 1] = ops[j]
  BY <1>3, <1>8
<1>10. NothingCleared(rest, (j - 1) + 1, n - 1, q)
  <2> SUFFICES ASSUME NEW k \in (j - 1) + 1 .. n - 1, IsRemoval(rest[k])
               PROVE  ~ IsBelow(rest[k].path, q)
    BY DEF NothingCleared
  <2>1. k \in 1 .. n - 1 /\ k + 1 \in j + 1 .. n
    BY <1>3
  <2>2. rest[k] = ops[k + 1]
    BY <1>3, <2>1
  <2> QED
    BY <1>7, <2>1, <2>2 DEF NothingCleared
<1> QED
  BY <1>7, <1>9, <1>10

\* The rest of a plan is still due, and only claims have gone.
LEMMA DuePlannedAfter ==
  ASSUME NEW t \in Tree, NEW ops \in Seq(FsOp), ops # <<>>, DuePlanned(t, ops)
  PROVE  /\ DuePlanned(Effect(t, ops[1]), Tail(ops))
         /\ Thinned(t, Effect(t, ops[1]))
<1>1. PICK t2 : t2 = Effect(t, ops[1])
  OBVIOUS
<1>2. PICK rest \in Seq(FsOp) : rest = Tail(ops)
  <2>1. Tail(ops) \in Seq(FsOp)
    OBVIOUS
  <2> QED BY <2>1
<1>3. ops[1] \in FsOp /\ 1 \in DOMAIN ops
  BY TailOf
<1>4. Thinned(t, t2)
  <2>1. CASE IsRemoval(ops[1])
    BY <1>1, <1>3, <2>1, RemovalThins DEF DuePlanned, TakesClaims
  <2>2. CASE ops[1].kind = "RENAME_ZIP"
    BY <1>1, <2>2 DEF Effect, Thinned
  <2> QED
    BY <1>3, <2>1, <2>2 DEF DuePlanned, RemovesOrMoves
<1>5. DuePlanned(t2, ops)
  BY <1>4, ThinnedPlan
<1>6. ASSUME NEW i \in DOMAIN rest
      PROVE  /\ i + 1 \in DOMAIN ops /\ rest[i] = ops[i + 1] /\ i \in 1 .. Len(ops)
             /\ (i + 1) - 1 = i
  BY <1>2, <1>6, TailOf
<1>7. RemovesOrMoves(rest) /\ TakesClaims(t2, rest)
  BY <1>5, <1>6 DEF DuePlanned, RemovesOrMoves, TakesClaims
<1>8. ASSUME NEW i \in DOMAIN rest, rest[i].kind = "RENAME_ZIP"
      PROVE  DueBy(t2, rest, i - 1, rest[i].pkg)
  <2>1. /\ i + 1 \in DOMAIN ops /\ rest[i] = ops[i + 1] /\ i \in 1 .. Len(ops)
        /\ (i + 1) - 1 = i
    BY <1>6
  <2>2. rest[i].pkg \in Packages
    BY <1>8, FsOpFields
  <2>3. DueBy(t, ops, i, rest[i].pkg)
    BY <1>8, <2>1 DEF DuePlanned, AllDue
  <2> QED
    BY <1>1, <1>2, <1>4, <2>1, <2>2, <2>3, DueAfter
<1> QED
  BY <1>1, <1>2, <1>4, <1>7, <1>8 DEF DuePlanned, AllDue

\* What is due does not change when operations are put before or after it.
LEMMA DueWithin ==
  ASSUME NEW t, NEW ops, NEW all, NEW n \in Nat, NEW m \in Nat, NEW p, NEW q,
         \A i \in 1 .. m : all[n + i] = ops[i], Due(t, ops, m, p, q)
  PROVE  Due(t, all, n + m, p, q)
<1>1. SUFFICES ASSUME NEW j \in 1 .. m, ops[j] = RemovalOf(p, q),
                      NothingCleared(ops, j + 1, m, q)
               PROVE  \E i \in 1 .. n + m :
                        all[i] = RemovalOf(p, q) /\ NothingCleared(all, i + 1, n + m, q)
  BY DEF Due
<1>2. n + j \in 1 .. n + m /\ all[n + j] = RemovalOf(p, q)
  BY <1>1
<1>3. NothingCleared(all, (n + j) + 1, n + m, q)
  <2> SUFFICES ASSUME NEW k \in (n + j) + 1 .. n + m, IsRemoval(all[k])
               PROVE  ~ IsBelow(all[k].path, q)
    BY DEF NothingCleared
  <2>1. k - n \in j + 1 .. m /\ k - n \in 1 .. m /\ n + (k - n) = k
    OBVIOUS
  <2>2. all[k] = ops[k - n]
    BY <2>1
  <2> QED
    BY <1>1, <2>1, <2>2 DEF NothingCleared
<1> QED
  BY <1>2, <1>3

\* A claim stays due: what is planned later is not below it.
LEMMA DueAppend ==
  ASSUME NEW t, NEW ops \in Seq(FsOp), NEW op \in FsOp, NEW p, NEW q,
         ~ IsBelow(op.path, q), Due(t, ops, Len(ops), p, q)
  PROVE  Due(t, Append(ops, op), Len(Append(ops, op)), p, q)
<1>1. PICK more : more = Append(ops, op)
  OBVIOUS
<1>2. /\ Len(more) = Len(ops) + 1 /\ Len(ops) \in Nat /\ more[Len(ops) + 1] = op
      /\ \A i \in 1 .. Len(ops) : more[i] = ops[i]
  BY <1>1
<1>3. SUFFICES ASSUME NEW j \in 1 .. Len(ops), ops[j] = RemovalOf(p, q),
                      NothingCleared(ops, j + 1, Len(ops), q)
               PROVE  \E i \in 1 .. Len(more) :
                        /\ more[i] = RemovalOf(p, q)
                        /\ NothingCleared(more, i + 1, Len(more), q)
  BY <1>1 DEF Due
<1>4. j \in 1 .. Len(more) /\ more[j] = RemovalOf(p, q)
  BY <1>2, <1>3
<1>5. NothingCleared(more, j + 1, Len(more), q)
  <2> SUFFICES ASSUME NEW k \in j + 1 .. Len(more), IsRemoval(more[k])
               PROVE  ~ IsBelow(more[k].path, q)
    BY DEF NothingCleared
  <2>1. CASE k = Len(ops) + 1
    BY <1>2, <2>1
  <2>2. CASE k # Len(ops) + 1
    <3>1. k \in j + 1 .. Len(ops) /\ k \in 1 .. Len(ops)
      BY <1>2, <2>2
    <3> QED
      BY <1>2, <1>3, <3>1 DEF NothingCleared
  <2> QED BY <2>1, <2>2
<1> QED
  BY <1>4, <1>5

\* The plan for one more package, whose claims are due once its own operations
\* are done.
LEMMA DueFinish ==
  ASSUME NEW t, NEW ops \in Seq(FsOp), NEW own \in Seq(FsOp), NEW p \in Packages,
         DuePlanned(t, ops), \A i \in DOMAIN own : IsRemoval(own[i]),
         TakesClaims(t, own), DueBy(t, own, Len(own), p)
  PROVE  DuePlanned(t, ops \o own \o <<RenameZipOp(p)>>)
<1>1. PICK all : all = ops \o own \o <<RenameZipOp(p)>>
  OBVIOUS
<1>2. PICK n \in Nat, m \in Nat : n = Len(ops) /\ m = Len(own)
  OBVIOUS
<1>3. Joined(ops, own, p, all, n, m)
  BY <1>1, <1>2, PlanWithZip
<1>4. \A i \in DOMAIN all : \/ i \in DOMAIN ops /\ all[i] = ops[i]
                            \/ i - n \in DOMAIN own /\ all[i] = own[i - n]
                            \/ i = n + m + 1
  BY <1>3 DEF Joined
<1>5. ~ IsRemoval(all[n + m + 1]) /\ all[n + m + 1].kind = "RENAME_ZIP"
  BY <1>3 DEF Joined, IsRemoval
<1>6. RemovesOrMoves(all) /\ TakesClaims(t, all)
  BY <1>4, <1>5 DEF DuePlanned, RemovesOrMoves, TakesClaims
<1>7. ASSUME NEW i \in DOMAIN all, all[i].kind = "RENAME_ZIP"
      PROVE  DueBy(t, all, i - 1, all[i].pkg)
  <2>1. CASE i \in DOMAIN ops /\ all[i] = ops[i]
    <3>1. DueBy(t, ops, i - 1, all[i].pkg)
      BY <1>7, <2>1 DEF DuePlanned, AllDue
    <3>2. i - 1 \in Nat /\ 0 + (i - 1) = i - 1 /\ \A k \in 1 .. i - 1 : all[0 + k] = ops[k]
      BY <1>2, <1>3, <2>1 DEF Joined
    <3>3. DueBy(t, all, 0 + (i - 1), all[i].pkg)
      BY <3>1, <3>2, DueWithin DEF DueBy
    <3> QED
      BY <3>2, <3>3
  <2>2. CASE i - n \in DOMAIN own /\ all[i] = own[i - n]
    BY <1>7, <2>2 DEF IsRemoval
  <2>3. CASE i = n + m + 1
    <3>1. DueBy(t, all, n + m, p)
      <4>1. \A k \in 1 .. m : all[n + k] = own[k]
        BY <1>3 DEF Joined
      <4>2. \A q \in Claimed(p) : Due(t, own, m, p, q)
        BY <1>2 DEF DueBy
      <4>3. \A q \in Claimed(p) : Due(t, all, n + m, p, q)
        BY <4>1, <4>2, DueWithin
      <4> QED BY <4>3 DEF DueBy
    <3>2. i - 1 = n + m
      BY <2>3
    <3> QED
      BY <1>3, <2>3, <3>1, <3>2 DEF Joined
  <2> QED
    BY <1>4, <2>1, <2>2, <2>3
<1> QED
  BY <1>1, <1>6, <1>7 DEF DuePlanned, AllDue

(***************************************************************************)
(* The process, when t is the disk.                                         *)
(***************************************************************************)
\* What a status says of a path is so, unless the path has been removed since.
Dated(t) ==
  \A q \in Paths \ {Sysroot} :
    statuses[q].exists => t[q] = Missing \/ statuses[q] = Observed(t[q])

\* What it has simulated away, or not found, no package of the index has alone
\* but the one it plans for.
SeenAway(t) ==
  \A q \in Paths \ {Sysroot} : statuses[q].seen /\ ~ statuses[q].exists =>
    \A o \in index : OnDisk(t, o, q) /\ Sole(o, q) =>
      pc = "plan" /\ o = current /\ q \notin remaining

\* The claims of p that are not in rest have been visited, the last ones first.
VisitedDue(t, ops, p, rest) ==
  \A q \in Claimed(p) \ rest :
    (\A r \in rest : Rank[r] <= Rank[q]) /\ Due(t, ops, Len(ops), p, q)

RacePlanning(t) ==
  /\ \A i \in DOMAIN pkfsops : IsRemoval(pkfsops[i])
  /\ TakesClaims(t, pkfsops)
  /\ Dated(t) /\ SeenAway(t)
  /\ pc = "plan" => current \in index /\ VisitedDue(t, pkfsops, current, remaining)

\* A `fix` has nothing to fix: it can only make the sysroot.
Racing(t) ==
  /\ cmd.op = "del" => ~ cmd.dryRun /\ pc # "idle" /\ DuePlanned(t, fsops)
  /\ cmd.op = "del" /\ pc \in {"choose", "plan"} => RacePlanning(t)
  /\ cmd.op # "del" => todo = {} /\ pc # "plan" /\ FixOps(fsops, {})

\* What others take away meanwhile does not matter.
LEMMA RaceElsewhere ==
  ASSUME TypeOK, NEW t, NEW t2, Thinned(t, t2), Racing(t)
  PROVE  Racing(t2)
<1>1. fsops \in Seq(FsOp) /\ pkfsops \in Seq(FsOp) /\ index \subseteq Packages
  BY DEF TypeOK
<1>2. cmd.op = "del" => DuePlanned(t2, fsops)
  BY <1>1, ThinnedPlan DEF Racing
<1>3. ASSUME cmd.op = "del", pc \in {"choose", "plan"} PROVE RacePlanning(t2)
  <2>1. RacePlanning(t)
    BY <1>3 DEF Racing
  <2>2. TakesClaims(t2, pkfsops)
    <3>1. DuePlanned(t, pkfsops)
      <4>1. \A i \in DOMAIN pkfsops : pkfsops[i].kind # "RENAME_ZIP"
        BY <2>1 DEF RacePlanning, IsRemoval
      <4> QED
        BY <2>1, <4>1 DEF RacePlanning, DuePlanned, RemovesOrMoves, AllDue
    <3>2. DuePlanned(t2, pkfsops)
      BY <1>1, <3>1, ThinnedPlan
    <3> QED
      BY <3>2 DEF DuePlanned
  <2>3. Dated(t2)
    <3>1. Dated(t)
      BY <2>1 DEF RacePlanning
    <3> QED
      BY <3>1 DEF Dated, Thinned
  <2>4. SeenAway(t2)
    <3>1. SeenAway(t)
      BY <2>1 DEF RacePlanning
    <3>2. \A q \in Paths \ {Sysroot}, o \in index : OnDisk(t2, o, q) => OnDisk(t, o, q)
      BY <1>1, ThinnedClaims
    <3> QED
      BY <3>1, <3>2 DEF SeenAway
  <2>5. ASSUME pc = "plan" PROVE VisitedDue(t2, pkfsops, current, remaining)
    <3>1. current \in Packages /\ VisitedDue(t, pkfsops, current, remaining)
      BY <2>1, <2>5 DEF RacePlanning, TypeOK
    <3> QED
      BY <3>1, ThinnedDue DEF VisitedDue
  <2> QED
    BY <2>1, <2>2, <2>3, <2>4, <2>5 DEF RacePlanning
<1> QED
  BY <1>2, <1>3 DEF Racing

\* Nothing is planned: of a process that is gone, and of one that starts.
LEMMA NothingDue == ASSUME NEW t PROVE DuePlanned(t, <<>>) /\ FixOps(<<>>, {})
BY DEF DuePlanned, RemovesOrMoves, TakesClaims, AllDue, FixOps

LEMMA RaceRest ==
  ASSUME NEW t, Rest
  PROVE  Racing(t)'
<1>1. cmd'.op # "del" /\ todo' = {} /\ pc' # "plan" /\ fsops' = <<>>
  BY DEF Rest, NoCommand
<1> QED
  BY <1>1, NothingDue DEF Racing

LEMMA RaceInit ==
  ASSUME NEW t, Init
  PROVE  Racing(t)
<1>1. cmd.op # "del" /\ todo = {} /\ pc # "plan" /\ fsops = <<>>
  BY DEF Init, NoCommand
<1> QED
  BY <1>1, NothingDue DEF Racing

LEMMA RaceStart ==
  ASSUME NEW t, NothingPlanned, Racing(t),
         NEW op \in {"del", "fix"}, NEW targets \in SUBSET Packages,
         Start(op, targets, FALSE), op = "fix" => targets = {} /\ installed = {}
  PROVE  Racing(t)'
<1>1. /\ pc = "idle" /\ pc' \in {"index", "done"} /\ fsops' = <<>>
      /\ cmd'.op = op /\ ~ cmd'.dryRun
      /\ op = "fix" => todo' = {} \/ todo' = todo
  BY DEF Start, NothingPlanned
<1>2. cmd.op # "del" /\ todo = {}
  BY <1>1 DEF Racing
<1> QED
  BY <1>1, <1>2, NothingDue DEF Racing

\* Up to the first package.
LEMMA RaceBegins ==
  ASSUME TypeOK, NothingPlanned, NEW t, Racing(t), BuildIndex \/ PrepareSysroot
  PROVE  Racing(t)'
<1>1. CASE BuildIndex
  <2>1. /\ fsops = <<>> /\ pkfsops = <<>> /\ statuses = NoStatuses /\ pc = "index"
        /\ pc' \in {"prepare", "choose"}
        /\ UNCHANGED <<cmd, todo, fsops, pkfsops, statuses>>
    BY <1>1 DEF BuildIndex, NothingPlanned
  <2>2. RacePlanning(t)' \/ pc' # "choose"
    BY <2>1 DEF RacePlanning, TakesClaims, Dated, SeenAway, NoStatuses, Unseen
  <2> QED
    BY <2>1, <2>2 DEF Racing
<1>2. CASE PrepareSysroot
  <2>1. /\ pc' = "choose" /\ cmd.op = "fix" /\ UNCHANGED <<cmd, todo>>
        /\ fsops' = fsops \/ fsops' = Append(fsops, Op("MKDIR", Sysroot))
    BY <1>2, Zenon DEF PrepareSysroot, NothingPlanned
  <2>2. todo = {} /\ FixOps(fsops, {}) /\ fsops \in Seq(FsOp)
    BY <2>1 DEF Racing, TypeOK
  <2>3. FixOp(Op("MKDIR", Sysroot), {}) /\ Op("MKDIR", Sysroot) \in FsOp
    BY PathsAssumption DEF FixOp, Op, FsOp
  <2>4. FixOps(fsops', {})
    BY <2>1, <2>2, <2>3, FixOpsAppend
  <2> QED
    BY <2>1, <2>2, <2>4 DEF Racing
<1> QED
  BY <1>1, <1>2

\* A package is chosen from the index, and none of its claims is visited yet.
LEMMA RacePackage ==
  ASSUME TypeOK, NothingPlanned, NEW t, Racing(t),
         (\E p \in todo : RefusePackage(p) \/ BeginPackage(p)) \/ Gate
  PROVE  Racing(t)'
<1>1. ASSUME NEW p \in todo, RefusePackage(p) PROVE Racing(t)'
  <2>1. /\ UNCHANGED <<pc, cmd, current, remaining, index, statuses, fsops, pkfsops>>
        /\ todo' \subseteq todo
    BY <1>1 DEF RefusePackage
  <2>2. RacePlanning(t)' <=> RacePlanning(t)
    BY <2>1 DEF RacePlanning, Dated, SeenAway
  <2> QED
    BY <2>1, <2>2 DEF Racing
<1>2. ASSUME NEW p \in todo, BeginPackage(p) PROVE Racing(t)'
  <2>1. cmd.op = "del" /\ pc = "choose" /\ todo # {}
    BY <1>2 DEF Racing, BeginPackage
  <2>2. /\ pc' = "plan" /\ current' = p /\ remaining' = Claimed(p) /\ p \in index
        /\ UNCHANGED <<cmd, index, statuses, fsops, pkfsops>>
    BY <1>2, <2>1 DEF BeginPackage, ContainsPackage
  <2>3. RacePlanning(t)
    BY <2>1 DEF Racing
  <2>4. SeenAway(t)'
    <3>1. SeenAway(t)
      BY <2>3 DEF RacePlanning
    <3> QED
      BY <2>1, <2>2, <3>1 DEF SeenAway
  <2>5. VisitedDue(t, pkfsops, current, remaining)'
    BY <2>2 DEF VisitedDue
  <2>6. Dated(t)'
    BY <2>2, <2>3 DEF RacePlanning, Dated
  <2>7. RacePlanning(t)'
    BY <2>2, <2>3, <2>4, <2>5, <2>6 DEF RacePlanning
  <2> QED
    BY <2>1, <2>2, <2>7 DEF Racing
<1>3. CASE Gate
  <2>1. pc' \in {"execute", "done"} /\ UNCHANGED <<cmd, todo, fsops>>
    BY <1>3 DEF Gate, planning
  <2> QED
    BY <2>1 DEF Racing
<1> QED
  BY <1>1, <1>2, <1>3

\* What one package of the index has alone at the claim visited is what is seen
\* there.
LEMMA RaceSees ==
  ASSUME TypeOK, RacePlanning(disk), pc = "plan", NEW q \in remaining,
         NEW o \in index, OnDisk(disk, o, q), Sole(o, q)
  PROVE  Look(q, TRUE)[q] = Observed(disk[q])
<1>1. q \in Paths \ {Sysroot} /\ statuses \in [Paths -> Status]
  BY ClaimsAssumption DEF TypeOK
<1>2. Dated(disk) /\ SeenAway(disk)
  BY DEF RacePlanning
<1>3. statuses[q].seen => statuses[q].exists
  BY <1>1, <1>2 DEF SeenAway
<1>4. disk[q] # Missing
  BY DEF OnDisk, Missing
<1>5. statuses[q].seen => statuses[q] = Observed(disk[q])
  BY <1>1, <1>2, <1>3, <1>4 DEF Dated
<1> QED
  BY <1>1, <1>5 DEF Look, EnsureActual

\* Whatever is removed was seen, and is some package's if it is still there.
LEMMA RaceLooks ==
  ASSUME TypeOK, RacePlanning(disk), pc = "plan", NEW q \in remaining,
         Look(q, TRUE)[q].exists
  PROVE  disk[q] = Missing \/ Look(q, TRUE)[q] = Observed(disk[q])
<1>1. q \in Paths \ {Sysroot} /\ statuses \in [Paths -> Status]
  BY ClaimsAssumption DEF TypeOK
<1>2. statuses[q].exists => disk[q] = Missing \/ statuses[q] = Observed(disk[q])
  BY <1>1 DEF RacePlanning, Dated
<1> QED
  BY <1>1, <1>2 DEF Look, EnsureActual

\* A claim the package has alone is removed.
LEMMA RaceVisited ==
  ASSUME TypeOK, RacePlanning(disk), pc = "plan", cmd.op = "del", NEW q \in remaining,
         Uninstall(q) \/ UninstallLeaves(q, TRUE)
  PROVE  Due(disk, pkfsops', Len(pkfsops'), current, q)
<1>1. /\ q \in Paths /\ current \in Packages /\ q \in Claimed(current)
      /\ current \in index /\ pkfsops \in Seq(FsOp) /\ disk \in Tree
      /\ index \subseteq Packages
  BY AtClaim DEF TypeOK, RacePlanning
<1>2. CASE Uninstall(q)
  <2>1. PICK op \in FsOp : op = RemovalOf(current, q)
    BY <1>1, PlannedOps DEF RemovalOf
  <2>2. pkfsops' = Append(pkfsops, op)
    BY <1>2, <2>1 DEF Uninstall, RemovalOf
  <2>3. /\ Len(pkfsops) + 1 \in 1 .. Len(pkfsops') /\ pkfsops'[Len(pkfsops) + 1] = op
        /\ Len(pkfsops') = Len(pkfsops) + 1 /\ Len(pkfsops) \in Nat
    BY <1>1, <2>2
  <2>4. NothingCleared(pkfsops', (Len(pkfsops) + 1) + 1, Len(pkfsops'), q)
    BY <2>3 DEF NothingCleared
  <2> QED
    BY <2>1, <2>3, <2>4 DEF Due
<1>3. CASE UninstallLeaves(q, TRUE)
  <2>1. SUFFICES ASSUME OnDisk(disk, current, q), Sole(current, q) PROVE FALSE
    BY DEF Due, LeftInUse
  <2>2. Look(q, TRUE)[q] = Observed(disk[q])
    BY <1>1, <2>1, RaceSees
  <2>3. IsMatch(Observed(disk[q]), Claims[current][q])
    BY <1>1, <2>1, OnDiskMatches
  <2>4. MatchesOther(Look(q, TRUE), index, current, q)
    <3>1. MatchesUs(Look(q, TRUE), current, q)
      BY <2>2, <2>3 DEF MatchesUs
    <3> QED
      BY <1>3, <3>1 DEF UninstallLeaves
  <2>5. PICK o \in index \ {current} :
          q \in Claimed(o) /\ IsMatch(Look(q, TRUE)[q], Claims[o][q])
    BY <2>4 DEF MatchesOther
  <2>6. Claims[o][q] \in Claim /\ Claims[current][q] \in Claim
    BY <1>1, <2>5, ClaimsAssumption
  <2>7. IsMatch(Look(q, TRUE)[q], Claims[current][q])
    BY <2>2, <2>3
  <2>8. Claims[o][q] = Claims[current][q]
    <3>1. PICK a \in Claim, b \in Claim : a = Claims[o][q] /\ b = Claims[current][q]
      BY <2>6
    <3>2. a.isDir = b.isDir /\ a.crc = b.crc
      BY <2>5, <2>7, <3>1 DEF IsMatch
    <3>3. a = b
      BY <3>2 DEF Claim
    <3> QED
      BY <3>1, <3>3
  <2> QED
    BY <1>1, <2>1, <2>5, <2>8 DEF Sole
<1> QED
  BY <1>2, <1>3

LEMMA RaceUninstall ==
  ASSUME TypeOK, NEW t, t = disk, Racing(t), NEW q \in remaining,
         NEW readable \in BOOLEAN, Uninstall(q) \/ UninstallLeaves(q, readable),
         ~ Spend("reads")
  PROVE  Racing(t)'
<1>1. /\ pc = "plan" /\ cmd.op = "del" /\ IsNext(q) /\ remaining' = remaining \ {q}
      /\ UNCHANGED <<disk, pc, cmd, todo, current, index, fsops>>
      /\ Uninstall(q) \/ UninstallLeaves(q, TRUE)
  <2>1. CASE Uninstall(q)
    BY <2>1 DEF Uninstall, Visit
  <2>2. CASE UninstallLeaves(q, readable)
    <3>1. readable = TRUE
      BY <2>2 DEF UninstallLeaves, Visit, ReadFault
    <3> QED
      BY <2>2, <3>1 DEF UninstallLeaves, Visit
  <2> QED BY <2>1, <2>2
<1>2. RacePlanning(disk) /\ RacePlanning(t)
  BY <1>1 DEF Racing
<1>3. /\ q \in Paths \ {Sysroot} /\ current \in Packages /\ q \in Claimed(current)
      /\ current \in index /\ pkfsops \in Seq(FsOp) /\ disk \in Tree
      /\ index \subseteq Packages /\ remaining \subseteq Claimed(current)
      /\ statuses \in [Paths -> Status] /\ Look(q, TRUE) \in [Paths -> Status]
  BY <1>1, <1>2, AtClaim, ClaimsAssumption DEF TypeOK, RacePlanning
<1>4. PICK op \in FsOp : op = RemovalOf(current, q)
  BY <1>3, PlannedOps DEF RemovalOf
<1>5. IsRemoval(op) /\ op.path = q
  BY <1>4 DEF RemovalOf, Op, IsRemoval
<1>6. pkfsops' = pkfsops \/ (pkfsops' = Append(pkfsops, op) /\ Uninstall(q))
  BY <1>1, <1>4 DEF Uninstall, UninstallLeaves, RemovalOf
<1>7. /\ \A i \in DOMAIN pkfsops' : IsRemoval(pkfsops'[i])
      /\ TakesClaims(t, pkfsops')
  <2>1. CASE pkfsops' = pkfsops
    BY <1>2, <2>1 DEF RacePlanning
  <2>2. CASE pkfsops' = Append(pkfsops, op) /\ Uninstall(q)
    <3>1. IsMatch(Look(q, TRUE)[q], Claims[current][q])
      BY <2>2 DEF Uninstall, MatchesUs
    <3>2. disk[q] = Missing \/ Look(q, TRUE)[q] = Observed(disk[q])
      BY <1>1, <1>2, <3>1, RaceLooks DEF IsMatch
    <3>3. ClaimsOnly(t, op.path)
      BY <1>3, <1>5, <3>1, <3>2, MatchesOnDisk DEF ClaimsOnly
    <3>4. \A i \in DOMAIN pkfsops' :
            pkfsops'[i] = op \/ (i \in DOMAIN pkfsops /\ pkfsops'[i] = pkfsops[i])
      BY <1>3, <2>2
    <3> QED
      BY <1>2, <1>3, <1>5, <3>3, <3>4 DEF RacePlanning, TakesClaims
  <2> QED
    BY <1>6, <2>1, <2>2
<1>8. ASSUME NEW r \in Paths \ {Sysroot}
      PROVE  \/ statuses'[r] = statuses[r]
             \/ r = q /\ statuses'[r].exists /\ statuses'[r] = Observed(t[r])
             \/ r = q /\ ~ statuses'[r].exists
  <2>1. CASE r # q
    BY <1>1, <1>3, <2>1
       DEF Uninstall, UninstallLeaves, EmitGone, Look, EnsureActual
  <2>2. CASE r = q /\ UninstallLeaves(q, TRUE)
    BY <1>3, <2>2 DEF UninstallLeaves, Look, EnsureActual
  <2>3. CASE r = q /\ Uninstall(q)
    <3>1. statuses'[r].exists = FALSE
      BY <1>3, <2>3 DEF Uninstall, EmitGone, Status
    <3> QED BY <2>3, <3>1
  <2> QED
    BY <1>1, <2>1, <2>2, <2>3
<1>9. Dated(t)'
  BY <1>2, <1>8 DEF RacePlanning, Dated
<1>10. ASSUME NEW r \in Paths \ {Sysroot}, statuses'[r].seen, ~ statuses'[r].exists,
              NEW o \in index, OnDisk(t, o, r), Sole(o, r)
       PROVE  o = current /\ r \notin remaining'
  <2>1. CASE r # q
    <3>1. statuses'[r] = statuses[r]
      BY <1>1, <1>3, <2>1
         DEF Uninstall, UninstallLeaves, EmitGone, Look, EnsureActual
    <3>2. o = current /\ r \notin remaining
      BY <1>1, <1>2, <1>10, <3>1 DEF RacePlanning, SeenAway
    <3> QED
      BY <1>1, <3>2
  <2>2. CASE r = q
    <3>1. Look(q, TRUE)[q] = Observed(disk[q])
      BY <1>1, <1>2, <1>10, <2>2, RaceSees
    <3>2. q \in Claimed(o) /\ IsMatch(Look(q, TRUE)[q], Claims[o][q])
      BY <1>3, <1>10, <2>2, <3>1, OnDiskMatches
    <3>3. CASE Uninstall(q)
      <4>1. ~ MatchesOther(Look(q, TRUE), index, current, q)
        BY <3>3 DEF Uninstall
      <4> QED
        BY <1>1, <2>2, <3>2, <4>1 DEF MatchesOther
    <3>4. CASE UninstallLeaves(q, TRUE)
      <4>1. statuses' = Look(q, TRUE)
        BY <3>4 DEF UninstallLeaves
      <4> QED
        BY <1>10, <2>2, <3>2, <4>1 DEF IsMatch
    <3> QED
      BY <1>1, <3>3, <3>4
  <2> QED
    BY <2>1, <2>2
<1>11. SeenAway(t)'
  BY <1>1, <1>10 DEF SeenAway
<1>12. ASSUME NEW v \in Claimed(current) \ remaining'
       PROVE  /\ \A r \in remaining' : Rank[r] <= Rank[v]
              /\ Due(t, pkfsops', Len(pkfsops'), current, v)
  <2>1. CASE v = q
    <3>1. Due(t, pkfsops', Len(pkfsops'), current, q)
      BY <1>1, <1>2, RaceVisited
    <3> QED
      BY <1>1, <2>1, <3>1 DEF IsNext
  <2>2. CASE v # q
    <3>1. v \in Claimed(current) \ remaining
      BY <1>1, <1>12, <2>2
    <3>2. /\ \A r \in remaining : Rank[r] <= Rank[v]
          /\ Due(t, pkfsops, Len(pkfsops), current, v)
      BY <1>1, <1>2, <3>1 DEF RacePlanning, VisitedDue
    <3>3. ~ IsBelow(q, v)
      <4>1. v \in Paths
        BY <1>3, <3>1, ClaimsAssumption
      <4>2. Rank[q] \in Int /\ Rank[v] \in Int
        BY <1>3, <4>1, RankAssumption
      <4>3. IsBelow(q, v) => Rank[v] < Rank[q]
        BY <1>3, <4>1, RankAssumption
      <4> QED
        BY <3>2, <4>2, <4>3
    <3>4. Due(t, pkfsops', Len(pkfsops'), current, v)
      <4>1. CASE pkfsops' = pkfsops
        BY <3>2, <4>1
      <4>2. CASE pkfsops' = Append(pkfsops, op)
        <5>1. ~ IsBelow(op.path, v)
          BY <1>5, <3>3
        <5>2. PICK ops \in Seq(FsOp) : ops = pkfsops
          BY <1>3
        <5>3. Due(t, Append(ops, op), Len(Append(ops, op)), current, v)
          BY <3>2, <5>1, <5>2, DueAppend
        <5> QED
          BY <4>2, <5>2, <5>3
      <4> QED
        BY <1>6, <4>1, <4>2
    <3> QED
      BY <1>1, <3>2, <3>4
  <2> QED
    BY <2>1, <2>2
<1>13. VisitedDue(t, pkfsops', current, remaining')
  BY <1>12 DEF VisitedDue
<1>14. RacePlanning(t)'
  BY <1>1, <1>3, <1>7, <1>9, <1>11, <1>13 DEF RacePlanning
<1> QED
  BY <1>1, <1>14 DEF Racing

LEMMA RaceFinish ==
  ASSUME TypeOK, NEW t, Racing(t), FinishUninstall
  PROVE  Racing(t)'
<1>1. /\ pc = "plan" /\ cmd.op = "del" /\ remaining = {}
      /\ pc' = "choose" /\ pkfsops' = <<>> /\ index' = index \ {current}
      /\ fsops' = fsops \o pkfsops \o <<RenameZipOp(current)>>
      /\ UNCHANGED <<cmd, statuses>>
  BY DEF FinishUninstall, RemoveClaims
<1>2. /\ RacePlanning(t) /\ DuePlanned(t, fsops) /\ current \in Packages
      /\ fsops \in Seq(FsOp) /\ pkfsops \in Seq(FsOp)
  BY <1>1 DEF Racing, TypeOK
<1>3. DueBy(t, pkfsops, Len(pkfsops), current)
  BY <1>1, <1>2 DEF RacePlanning, VisitedDue, DueBy
<1>4. DuePlanned(t, fsops')
  <2>1. (\A i \in DOMAIN pkfsops : IsRemoval(pkfsops[i])) /\ TakesClaims(t, pkfsops)
    BY <1>2 DEF RacePlanning
  <2> QED
    BY <1>1, <1>2, <1>3, <2>1, DueFinish
<1>5. RacePlanning(t)'
  <2>1. TakesClaims(t, pkfsops')
    BY <1>1 DEF TakesClaims
  <2>2. Dated(t)'
    BY <1>1, <1>2 DEF RacePlanning, Dated
  <2>3. SeenAway(t)'
    <3>1. SeenAway(t)
      BY <1>2 DEF RacePlanning
    <3> QED
      BY <1>1, <3>1 DEF SeenAway
  <2> QED
    BY <1>1, <2>1, <2>2, <2>3 DEF RacePlanning
<1> QED
  BY <1>1, <1>4, <1>5 DEF Racing

(***************************************************************************)
(* The steps of the process, and what they do to the disk.                   *)
(***************************************************************************)
\* What packages that are gone had alone is gone, or in use.
SolesGone(t, I) ==
  \A p \in Packages \ I : \A q \in Claimed(p) : Sole(p, q) => LeftInUse(t, p, q)

LEMMA ThinnedSoles ==
  ASSUME NEW t, NEW t2, Thinned(t, t2), NEW I, SolesGone(t, I)
  PROVE  SolesGone(t2, I)
BY ThinnedInUse DEF SolesGone

LEMMA RaceExecuteOp ==
  ASSUME TypeOK, Racing(disk), SolesGone(disk, installed), ExecuteOp
  PROVE  (Racing(disk) /\ SolesGone(disk, installed))' /\ Thinned(disk, disk')
<1>1. /\ pc = "execute" /\ fsops # <<>> /\ fsops \in Seq(FsOp) /\ fsops' = Tail(fsops)
      /\ UNCHANGED <<pc, cmd, todo>>
  BY DEF ExecuteOp, NextOp, TypeOK
<1>2. /\ disk \in Tree /\ installed \in SUBSET Packages
      /\ fsops[1] \in FsOp /\ Head(fsops) = fsops[1] /\ 1 \in DOMAIN fsops
  BY <1>1, TailOf DEF TypeOK
<1>3. CASE cmd.op = "del"
  <2>1. /\ disk' = Effect(disk, fsops[1])
        /\ installed' = After(installed, fsops[1])
    BY <1>2, <1>3 DEF ExecuteOp, After, Racing
  <2>2. DuePlanned(disk, fsops)
    BY <1>3 DEF Racing
  <2>3. DuePlanned(disk', fsops') /\ Thinned(disk, disk')
    BY <1>1, <1>2, <2>1, <2>2, DuePlannedAfter
  <2>4. Racing(disk)'
    BY <1>1, <1>3, <2>3 DEF Racing
  <2>5. SolesGone(disk', installed)
    BY <2>3, ThinnedSoles
  <2>6. SolesGone(disk', installed')
    <3>1. CASE fsops[1].kind = "RENAME_ZIP"
      <4>1. PICK p \in Packages : p = fsops[1].pkg
        BY <1>2, <3>1, FsOpFields
      <4>2. DueBy(disk, fsops, 1 - 1, p)
        BY <1>2, <2>2, <3>1, <4>1 DEF DuePlanned, AllDue
      <4>3. ASSUME NEW q \in Claimed(p), Sole(p, q) PROVE LeftInUse(disk', p, q)
        <5>1. LeftInUse(disk, p, q)
          BY <4>2, <4>3 DEF DueBy, Due
        <5> QED
          BY <2>3, <5>1, ThinnedInUse
      <4>4. installed' = installed \ {p}
        BY <2>1, <3>1, <4>1 DEF After
      <4> QED
        BY <2>5, <4>3, <4>4 DEF SolesGone
    <3>2. CASE fsops[1].kind # "RENAME_ZIP"
      BY <2>1, <2>5, <3>2 DEF After
    <3> QED BY <3>1, <3>2
  <2> QED
    BY <2>3, <2>4, <2>6
<1>4. CASE cmd.op # "del"
  <2>1. FixOps(fsops, {}) /\ todo = {} /\ FixOps(fsops', {})
    BY <1>1, <1>4, TailOf DEF Racing, FixOps
  <2>2. FixOp(fsops[1], {})
    BY <1>2, <2>1 DEF FixOps
  <2>3. fsops[1].kind = "MKDIR" /\ fsops[1].path = Sysroot
    BY <1>2, <2>2, FsOpFields DEF FixOp
  <2>4. Thinned(disk, disk') /\ UNCHANGED installed
    BY <1>2, <2>3 DEF ExecuteOp, persistent, Effect, MakeDir, Tree, Thinned
  <2>5. SolesGone(disk', installed)
    BY <2>4, ThinnedSoles
  <2> QED
    BY <1>1, <1>4, <2>1, <2>4, <2>5 DEF Racing
<1> QED
  BY <1>3, <1>4

\* Neither a `del` nor a `fix` of no package holds a path that has been freed.
LEMMA RaceFreesNoPath ==
  ASSUME TypeOK, Racing(disk), FreedPathFails
  PROVE  FALSE
<1>1. fsops # <<>> /\ fsops \in Seq(FsOp) /\ Head(fsops).kind = "RMDIR_FREED"
  BY DEF FreedPathFails, NextOp, TypeOK
<1>2. Head(fsops) = fsops[1] /\ 1 \in DOMAIN fsops
  BY <1>1, TailOf
<1>3. CASE cmd.op = "del"
  BY <1>1, <1>2, <1>3 DEF Racing, DuePlanned, RemovesOrMoves, IsRemoval
<1>4. CASE cmd.op # "del"
  BY <1>1, <1>2, <1>4 DEF Racing, FixOps, FixOp
<1> QED
  BY <1>3, <1>4

\* A process that dies was extracting nothing.
LEMMA RaceCrash ==
  ASSUME TypeOK, Racing(disk), Crash
  PROVE  UNCHANGED <<disk, installed>> /\ Rest
<1>1. Rest /\ UNCHANGED installed
  BY DEF Crash
<1>2. CASE pc = "execute" /\ fsops # <<>> /\ ~ cmd.dryRun
  <2>1. /\ disk' \in CutOff(fsops[1]) /\ fsops[1] \in FsOp /\ 1 \in DOMAIN fsops
    BY <1>2, TailOf DEF Crash, TypeOK
  <2>2. fsops[1].kind # "CREATEFILE"
    <3>1. CASE cmd.op = "del"
      BY <2>1, <3>1 DEF Racing, DuePlanned, RemovesOrMoves, IsRemoval
    <3>2. CASE cmd.op # "del"
      BY <2>1, <3>2 DEF Racing, FixOps, FixOp
    <3> QED BY <3>1, <3>2
  <2> QED
    BY <1>1, <2>1, <2>2 DEF CutOff
<1>3. CASE ~ (pc = "execute" /\ fsops # <<>> /\ ~ cmd.dryRun)
  BY <1>1, <1>3 DEF Crash
<1> QED
  BY <1>2, <1>3

LEMMA RaceStep ==
  ASSUME TypeOK, NothingPlanned, Racing(disk), SolesGone(disk, installed),
         Run \/ Crash, ~ Spend("reads"), ~ Spend("writes")
  PROVE  (Racing(disk) /\ SolesGone(disk, installed))' /\ Thinned(disk, disk')
<1>1. PICK t : t = disk
  OBVIOUS
<1>2. ASSUME UNCHANGED <<disk, installed>>, Racing(t)'
      PROVE  (Racing(disk) /\ SolesGone(disk, installed))' /\ Thinned(disk, disk')
  <2>1. Racing(disk)'
    BY <1>1, <1>2
  <2>2. SolesGone(disk, installed)'
    BY <1>2 DEF SolesGone
  <2>3. Thinned(disk, disk')
    BY <1>2 DEF Thinned
  <2> QED
    BY <2>1, <2>2, <2>3
<1>3. ASSUME Rest, UNCHANGED <<disk, installed>>
      PROVE  (Racing(disk) /\ SolesGone(disk, installed))' /\ Thinned(disk, disk')
  BY <1>2, <1>3, RaceRest
<1>4. Racing(t)
  BY <1>1
<1>5. CASE BuildIndex \/ PrepareSysroot
  <2>1. UNCHANGED <<disk, installed>>
    BY <1>5 DEF BuildIndex, PrepareSysroot
  <2> QED
    BY <1>2, <1>4, <1>5, <2>1, RaceBegins
<1>6. CASE (\E p \in todo : RefusePackage(p) \/ BeginPackage(p)) \/ Gate
  <2>1. UNCHANGED <<disk, installed>>
    BY <1>6 DEF RefusePackage, BeginPackage, Gate
  <2> QED
    BY <1>2, <1>4, <1>6, <2>1, RacePackage
<1>7. ASSUME NEW q \in remaining, NEW readable \in BOOLEAN,
             \/ InstallMissing(q, readable) \/ UninstallLeaves(q, readable)
             \/ InstallKept(q) \/ InstallConflict(q)
             \/ InstallDivert(q) \/ InstallDivertFails(q) \/ Uninstall(q)
      PROVE  (Racing(disk) /\ SolesGone(disk, installed))' /\ Thinned(disk, disk')
  <2>1. pc = "plan" /\ UNCHANGED <<disk, installed>>
    BY <1>7 DEF InstallMissing, UninstallLeaves, InstallKept, InstallConflict,
       InstallDivert, InstallDivertFails, Uninstall, Visit
  <2>2. cmd.op = "del"
    BY <2>1 DEF Racing
  <2>3. Uninstall(q) \/ UninstallLeaves(q, readable)
    BY <1>7, <2>2 DEF InstallMissing, InstallKept, InstallConflict,
       InstallDivert, InstallDivertFails, Visit
  <2> QED
    BY <1>1, <1>2, <1>4, <2>1, <2>3, RaceUninstall
<1>8. CASE FinishInstall \/ FinishUninstall
  <2>1. FinishUninstall
    BY <1>8 DEF FinishInstall, Racing
  <2>2. UNCHANGED <<disk, installed>>
    BY <2>1 DEF FinishUninstall
  <2> QED
    BY <1>2, <1>4, <2>1, <2>2, RaceFinish
<1>9. CASE SysrootUnreadable \/ OpFails
  BY <1>9 DEF SysrootUnreadable, OpFails
<1>10. CASE ExecuteOp \/ FreedPathFails
  BY <1>1, <1>10, RaceExecuteOp, RaceFreesNoPath
<1>11. CASE FreedPathAborts \/ Exit
  BY <1>3, <1>11 DEF FreedPathAborts, Exit
<1>12. CASE FinishExecution
  <2>1. /\ pc = "execute" /\ pc' = "done"
        /\ UNCHANGED <<disk, installed, cmd, todo, fsops>>
    BY <1>12 DEF FinishExecution, planning
  <2>2. Racing(t)'
    BY <1>4, <2>1 DEF Racing
  <2> QED
    BY <1>2, <2>1, <2>2
<1>13. CASE Crash
  BY <1>3, <1>13, RaceCrash
<1> QED
  BY <1>5, <1>6, <1>7, <1>8, <1>9, <1>10, <1>11, <1>12, <1>13
     DEF Run, Plan, Execute

\* A step of the process, in which only packages of F are to be fixed.
Goes(F) ==
  \/ Run \/ Crash
  \/ \E op \in {"del", "fix"}, targets \in SUBSET Packages :
       /\ Start(op, targets, FALSE)
       /\ op = "fix" => (IF targets = {} THEN installed ELSE targets) \subseteq F

\* What is so while the process is the only one that runs.
Alone == DelInv /\ LeftNothing({}) /\ OrphanPlan({})

LEMMA RaceCounts ==
  ASSUME TypeOK, NothingPlanned, Counted, NEW F, Goes(F)
  PROVE  /\ TypeOK' /\ NothingPlanned' /\ Counted'
         /\ Quiet' => Quiet /\ ~ Spend("reads") /\ ~ Spend("writes")
<1>1. Next
  BY DEF Goes, Next
<1>2. NothingPlanned'
  <2>1. CASE Run \/ Crash
    BY <2>1, NothingPlannedNext
  <2>2. ASSUME NEW op, NEW targets, Start(op, targets, FALSE) PROVE NothingPlanned'
    BY <2>2 DEF Start, NothingPlanned
  <2> QED
    BY <2>1, <2>2 DEF Goes
<1> QED
  BY <1>1, <1>2, TypeNext, QuietStep

LEMMA RaceNext ==
  ASSUME TypeOK, NothingPlanned, Racing(disk), SolesGone(disk, installed), Goes({}),
         ~ Spend("reads"), ~ Spend("writes")
  PROVE  /\ (Racing(disk) /\ SolesGone(disk, installed))' /\ Thinned(disk, disk')
         /\ pc # "idle" \/ pc' # "idle"
         /\ Alone => Alone'
<1>1. /\ (Racing(disk) /\ SolesGone(disk, installed))' /\ Thinned(disk, disk')
      /\ pc # "idle" \/ pc' # "idle"
  <2>1. CASE Run \/ Crash
    <3>1. pc # "idle"
      BY <2>1 DEF Run, Plan, Execute, BuildIndex, PrepareSysroot, SysrootUnreadable,
         RefusePackage, BeginPackage, InstallMissing, UninstallLeaves, InstallKept,
         InstallConflict, InstallDivert, InstallDivertFails, Uninstall, Visit,
         FinishInstall, FinishUninstall, Gate, ExecuteOp, OpFails, NextOp,
         FreedPathFails, FreedPathAborts, FinishExecution, Exit, Crash
    <3> QED
      BY <2>1, <3>1, RaceStep
  <2>2. ASSUME NEW op \in {"del", "fix"}, NEW targets \in SUBSET Packages,
               Start(op, targets, FALSE),
               op = "fix" => (IF targets = {} THEN installed ELSE targets) \subseteq {}
        PROVE  /\ (Racing(disk) /\ SolesGone(disk, installed))'
               /\ Thinned(disk, disk') /\ pc' # "idle"
    <3>1. UNCHANGED <<disk, installed>> /\ pc' # "idle"
      BY <2>2 DEF Start
    <3>2. op = "fix" => targets = {} /\ installed = {}
      BY <2>2
    <3>3. PICK t : t = disk
      OBVIOUS
    <3>4. Racing(t)'
      BY <2>2, <3>2, <3>3, RaceStart
    <3>5. Racing(disk)'
      BY <3>1, <3>3, <3>4
    <3>6. SolesGone(disk, installed)' /\ Thinned(disk, disk')
      BY <3>1 DEF SolesGone, Thinned
    <3> QED
      BY <3>1, <3>5, <3>6
  <2> QED
    BY <2>1, <2>2 DEF Goes
<1>2. ASSUME Alone PROVE Alone'
  <2>1. Next
    BY DEF Goes, Next
  <2>2. cmd'.op # "del" => todo' \subseteq {}
    BY <1>1 DEF Racing
  <2>3. DelInv'
    BY <1>2, <2>1, DelNext DEF Alone
  <2> QED
    BY <1>2, <2>1, <2>2, <2>3, OrphanStep DEF Alone
<1> QED
  BY <1>1, <1>2

\* A process that is not running minds nothing of what happens meanwhile.
LEMMA AloneAtRest ==
  ASSUME TypeOK', NothingPlanned', NEW t, Racing(t)', pc' = "idle", LeftNothing({})'
  PROVE  Alone'
<1>1. cmd'.op # "del" /\ todo' = {} /\ FixOps(fsops', {}) /\ pkfsops' = <<>>
  BY DEF Racing, NothingPlanned
<1>2. DelInv'
  BY <1>1, DelOther DEF DelInv, DelRest
<1>3. OrphanPlan({})'
  <2>1. installed' \cap {} = {}
    OBVIOUS
  <2>2. FixOps(pkfsops', {})
    BY <1>1, NothingDue
  <2> QED
    BY <1>1, <2>1, <2>2 DEF OrphanPlan, FixPlanning
<1> QED
  BY <1>2, <1>3 DEF Alone

\* A process goes on as before while another one takes claims away.
LEMMA RacingElsewhere ==
  ASSUME TypeOK, NEW t, NEW t2, Thinned(t, t2), Racing(t),
         UNCHANGED <<pc, cmd, planning>>
  PROVE  Racing(t2)'
<1>1. Racing(t2)
  BY RaceElsewhere
<1>2. UNCHANGED <<pc, cmd, todo, current, remaining, index, statuses, fsops, pkfsops>>
  BY DEF planning
<1>3. RacePlanning(t2)' <=> RacePlanning(t2)
  BY <1>2 DEF RacePlanning, Dated, SeenAway
<1> QED
  BY <1>1, <1>2, <1>3 DEF Racing

LEMMA AloneInit ==
  ASSUME Init
  PROVE  TypeOK /\ NothingPlanned /\ Counted /\ Alone /\ SolesGone(disk, installed)
<1>1. TypeOK /\ DelInv
  BY TypeInit, DelInit DEF DelInv, DelRest
<1>2. NothingPlanned
  BY <1>1 DEF DelInv
<1>3. Counted /\ SolesGone(disk, installed)
  BY BoundsAssumption DEF Init, Counted, SolesGone
<1> QED
  BY <1>1, <1>2, <1>3, OrphanBegins DEF Alone

LEMMA AloneStays ==
  ASSUME Alone, UNCHANGED vars
  PROVE  Alone'
<1>1. UNCHANGED <<disk, installed, todo, cmd, left>>
  BY DEF vars, planning
<1>2. DelInv' /\ TypeOK
  BY DelNext DEF Alone, DelInv
<1>3. ~ Spend("reads") /\ ~ Spend("writes")
  BY <1>1, <1>2 DEF Spend, TypeOK
<1>4. cmd.op # "del" => todo \subseteq {}
  BY DEF Alone, OrphanPlan
<1> QED
  BY <1>1, <1>2, <1>3, <1>4, OrphanStep DEF Alone
=============================================================================
