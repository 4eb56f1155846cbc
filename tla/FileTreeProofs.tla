--------------------------- MODULE FileTreeProofs ---------------------------
(***************************************************************************)
(* Lemmas about the trees and paths of FileTree that the proofs about its   *)
(* users share, and least-number induction, in the form they use it.        *)
(***************************************************************************)
EXTENDS FileTree, WellFoundedInduction, SequenceTheorems, TLAPS

(***************************************************************************)
(* The calls of FileTree keep a tree a tree.                                *)
(***************************************************************************)
\* A node is known by its kind, and a file by its checksum.
LEMMA NodeFields ==
  ASSUME NEW n \in Node
  PROVE  /\ n.kind \in {"missing", "file", "dir"}
         /\ n.crc \in Crcs
         /\ n.kind = "missing" <=> n = Missing
         /\ n.kind = "dir" <=> n = Directory
         /\ n.kind = "file" => n = File(n.crc)
BY CrcsAssumption DEF Node, Missing, Directory, File

\* mkdir, rmdir, remove, rename and the extraction of a file map trees to trees.
LEMMA CallsType ==
  ASSUME NEW t \in Tree, NEW p \in Paths, NEW c \in Crcs, NEW to \in Paths
  PROVE  /\ MakeDir(t, p) \in Tree
         /\ RemoveDir(t, p) \in Tree
         /\ RemovePath(t, p) \in Tree
         /\ WriteFile(t, p, c) \in Tree
         /\ Rename(t, p, to) \in Tree
<1> USE CrcsAssumption DEF Tree, Node, Missing, Directory, File
<1>1. MakeDir(t, p) \in Tree
  BY DEF MakeDir
<1>2. RemoveDir(t, p) \in Tree
  BY DEF RemoveDir
<1>3. RemovePath(t, p) \in Tree
  BY DEF RemovePath
<1>4. WriteFile(t, p, c) \in Tree
  BY DEF WriteFile
<1>5. Rename(t, p, to) \in Tree
  BY DEF Rename
<1> QED
  BY <1>1, <1>2, <1>3, <1>4, <1>5

(***************************************************************************)
(* Paths, and what lies above a node.                                       *)
(***************************************************************************)
\* A set of naturals has a least element: the form in which the proofs below
\* do induction.
LEMMA LeastNatural ==
  ASSUME NEW T \in SUBSET Nat, T # {}
  PROVE  \E n \in T : \A m \in T : n <= m
<1> DEFINE R == OpToRel(<, Nat)
<1>1. \A m, n \in Nat : m < n => <<m, n>> \in R
  <2> SUFFICES ASSUME NEW m \in Nat, NEW n \in Nat, m < n PROVE <<m, n>> \in R
    OBVIOUS
  <2>1. R = {ss \in Nat \X Nat : ss[1] < ss[2]}
    BY DEF OpToRel
  <2>2. <<m, n>> \in {ss \in Nat \X Nat : ss[1] < ss[2]}
    OBVIOUS
  <2> QED BY <2>1, <2>2
<1>2. \E x \in T : \A y \in T : ~ (<<y, x>> \in R)
  BY WFMin, NatLessThanWellFounded
<1> HIDE DEF R
<1>3. PICK x \in T : \A y \in T : ~ (<<y, x>> \in R)
  BY <1>2
<1>4. ASSUME NEW y \in T PROVE x <= y
  <2>1. x \in Nat /\ y \in Nat
    OBVIOUS
  <2>2. ~ (y < x)
    BY <1>1, <1>3, <2>1
  <2> QED BY <2>1, <2>2
<1> QED
  BY <1>4

PathNames == UNION {{q[i] : i \in DOMAIN q} : q \in Paths}

LEMMA PathIsSequence ==
  ASSUME NEW q \in Paths
  PROVE  q \in Seq(PathNames) /\ Len(q) \in Nat
BY PathsAssumption DEF PathNames

\* q lies below p when it goes on where p ends.
LEMMA BelowMeans ==
  ASSUME NEW q \in Seq(PathNames), NEW p \in Seq(PathNames)
  PROVE  IsBelow(q, p) <=> Len(p) < Len(q) /\ \A i \in 1 .. Len(p) : q[i] = p[i]
<1>1. ASSUME IsBelow(q, p)
      PROVE  Len(p) < Len(q) /\ \A i \in 1 .. Len(p) : q[i] = p[i]
  <2>1. Len(p) <= Len(q) /\ SubSeq(p, 1, Len(p)) = SubSeq(q, 1, Len(p)) /\ p # q
    BY <1>1 DEF IsBelow, IsStrictPrefix, IsPrefix
  <2>2. ASSUME NEW i \in 1 .. Len(p) PROVE q[i] = p[i]
    BY <2>1, <2>2
  <2>3. ASSUME Len(p) = Len(q) PROVE FALSE
    BY <2>1, <2>2, <2>3
  <2> QED
    BY <2>1, <2>2, <2>3
<1>2. ASSUME Len(p) < Len(q), \A i \in 1 .. Len(p) : q[i] = p[i]
      PROVE  IsBelow(q, p)
  <2>1. SubSeq(p, 1, Len(p)) = SubSeq(q, 1, Len(p))
    BY <1>2
  <2> QED
    BY <1>2, <2>1 DEF IsBelow, IsStrictPrefix, IsPrefix
<1> QED
  BY <1>1, <1>2

\* The first k names of a path are a path, above it unless they are all of it.
LEMMA PathAbove ==
  ASSUME NEW q \in Paths, NEW k \in 0 .. Len(q)
  PROVE  /\ SubSeq(q, 1, k) \in Paths
         /\ Len(SubSeq(q, 1, k)) = k
         /\ \A i \in 1 .. k : SubSeq(q, 1, k)[i] = q[i]
         /\ k < Len(q) => IsBelow(q, SubSeq(q, 1, k))
         /\ k = Len(q) => SubSeq(q, 1, k) = q
         /\ k > 0 => SubSeq(q, 1, k) # Sysroot
                       /\ Front(SubSeq(q, 1, k)) = SubSeq(q, 1, k - 1)
<1>0. q \in Seq(PathNames) /\ Len(q) \in Nat
  BY PathIsSequence
<1>1. SubSeq(q, 1, k) \in Paths
  BY PathsAssumption
<1>2. /\ Len(SubSeq(q, 1, k)) = k
      /\ \A i \in 1 .. k : SubSeq(q, 1, k)[i] = q[i]
  BY <1>0
<1>3. k < Len(q) => IsBelow(q, SubSeq(q, 1, k))
  BY <1>0, <1>1, <1>2, PathIsSequence, BelowMeans
<1>4. k = Len(q) => SubSeq(q, 1, k) = q
  BY <1>0
<1>5. k > 0 => SubSeq(q, 1, k) # Sysroot
  BY <1>2 DEF Sysroot
<1>6. k > 0 => Front(SubSeq(q, 1, k)) = SubSeq(q, 1, k - 1)
  <2> SUFFICES ASSUME k > 0
               PROVE  SubSeq(SubSeq(q, 1, k), 1, k - 1) = SubSeq(q, 1, k - 1)
    BY <1>2 DEF Front
  <2> DEFINE s == SubSeq(q, 1, k)
  <2>1. s \in Seq(PathNames) /\ Len(s) = k /\ \A i \in 1 .. k : s[i] = q[i]
    BY <1>0, <1>2
  <2> HIDE DEF s
  <2>2. SubSeq(s, 1, k - 1) = SubSeq(q, 1, k - 1)
    BY <1>0, <2>1
  <2> QED
    BY <2>2 DEF s
<1> QED
  BY <1>1, <1>2, <1>3, <1>4, <1>5, <1>6

\* All that lies above a path is cut from it.
LEMMA BelowIsCut ==
  ASSUME NEW q \in Paths, NEW p \in Paths, IsBelow(q, p)
  PROVE  p = SubSeq(q, 1, Len(p)) /\ Len(p) < Len(q)
<1>1. /\ q \in Seq(PathNames) /\ p \in Seq(PathNames)
      /\ Len(p) < Len(q) /\ \A i \in 1 .. Len(p) : q[i] = p[i]
  BY PathIsSequence, BelowMeans
<1>2. Len(p) \in 0 .. Len(q)
  BY <1>1
<1>3. /\ SubSeq(q, 1, Len(p)) \in Seq(PathNames)
      /\ Len(SubSeq(q, 1, Len(p))) = Len(p)
      /\ \A i \in 1 .. Len(p) : SubSeq(q, 1, Len(p))[i] = q[i]
  BY <1>2, PathAbove, PathIsSequence
<1>4. p = SubSeq(q, 1, Len(p))
  <2> DEFINE s == SubSeq(q, 1, Len(p))
  <2>1. s \in Seq(PathNames) /\ Len(s) = Len(p) /\ \A i \in 1 .. Len(p) : s[i] = p[i]
    BY <1>1, <1>3
  <2> HIDE DEF s
  <2>2. p = s
    BY <1>1, <2>1
  <2> QED
    BY <2>2 DEF s
<1> QED
  BY <1>1, <1>4

\* The parent is the nearest path above.
LEMMA FrontAbove ==
  ASSUME NEW q \in Paths, q # Sysroot
  PROVE  /\ Front(q) \in Paths /\ IsBelow(q, Front(q))
         /\ Len(q) > 0 /\ Len(Front(q)) = Len(q) - 1
         /\ \A p \in Paths : IsBelow(q, p) <=> p = Front(q) \/ IsBelow(Front(q), p)
<1>1. q \in Seq(PathNames) /\ Len(q) \in Nat /\ Len(q) > 0
  BY PathIsSequence DEF Sysroot
<1>2. Front(q) = SubSeq(q, 1, Len(q) - 1)
  BY DEF Front
<1>3. /\ Front(q) \in Paths /\ IsBelow(q, Front(q)) /\ Len(Front(q)) = Len(q) - 1
      /\ \A i \in 1 .. Len(q) - 1 : Front(q)[i] = q[i]
  <2> DEFINE n == Len(q) - 1
  <2>1. n \in 0 .. Len(q) /\ n < Len(q)
    BY <1>1
  <2> HIDE DEF n
  <2>2. /\ SubSeq(q, 1, n) \in Paths /\ IsBelow(q, SubSeq(q, 1, n))
        /\ Len(SubSeq(q, 1, n)) = n
        /\ \A i \in 1 .. n : SubSeq(q, 1, n)[i] = q[i]
    BY <2>1, PathAbove
  <2> QED
    BY <1>2, <2>2 DEF n
<1>4. ASSUME NEW p \in Paths
      PROVE  IsBelow(q, p) <=> p = Front(q) \/ IsBelow(Front(q), p)
  <2>1. p \in Seq(PathNames) /\ Front(q) \in Seq(PathNames) /\ Len(p) \in Nat
    BY <1>3, PathIsSequence
  <2>2. ASSUME IsBelow(q, p), p # Front(q) PROVE IsBelow(Front(q), p)
    <3>1. Len(p) < Len(q) /\ \A i \in 1 .. Len(p) : q[i] = p[i]
      BY <1>1, <2>1, <2>2, BelowMeans
    <3>2. Len(p) # Len(q) - 1
      BY <1>2, <2>2, <3>1, BelowIsCut
    <3> QED
      BY <1>1, <1>3, <2>1, <3>1, <3>2, BelowMeans
  <2>3. ASSUME IsBelow(Front(q), p) PROVE IsBelow(q, p)
    BY <1>1, <1>3, <2>1, <2>3, BelowMeans
  <2> QED
    BY <1>3, <2>2, <2>3
<1> QED
  BY <1>1, <1>3, <1>4

\* In a well-formed tree all that lies above a node is a directory.
LEMMA NodesLieInDirectories ==
  ASSUME NEW t \in Tree, WellFormed(t), NEW q \in Paths, t[q].kind # "missing",
         NEW p \in Paths, IsBelow(q, p)
  PROVE  t[p] = Directory
<1> DEFINE Above(k) == SubSeq(q, 1, Len(q) - k)
           Bad == {k \in Nat : 1 <= k /\ k <= Len(q) /\ t[Above(k)].kind # "dir"}
<1>0. Len(q) \in Nat
  BY PathIsSequence
<1>1. ASSUME NEW k \in Nat, k < Len(q)
      PROVE  /\ Above(k) \in Paths \ {Sysroot}
             /\ Front(Above(k)) = Above(k + 1)
             /\ k = 0 => Above(k) = q
  <2>1. Len(q) - k \in 0 .. Len(q) /\ Len(q) - k > 0
    BY <1>0, <1>1
  <2>2. (Len(q) - k) - 1 = Len(q) - (k + 1)
    BY <1>0, <1>1
  <2> QED
    BY <2>1, <2>2, PathAbove
<1>2. Bad = {}
  <2> SUFFICES ASSUME Bad # {} PROVE FALSE
    OBVIOUS
  <2>1. PICK k \in Bad : \A m \in Bad : k <= m
    BY LeastNatural
  <2>2. k - 1 \in Nat /\ k - 1 < Len(q) /\ k - 1 \notin Bad
    BY <1>0, <2>1
  <2>3. /\ Above(k - 1) \in Paths \ {Sysroot}
        /\ Front(Above(k - 1)) = Above(k)
        /\ k - 1 = 0 => Above(k - 1) = q
    <3>1. (k - 1) + 1 = k
      OBVIOUS
    <3> QED
      BY <1>1, <2>2, <3>1
  <2>4. t[Above(k - 1)].kind # "missing"
    <3>1. CASE k - 1 = 0
      BY <2>3, <3>1
    <3>2. CASE k - 1 # 0
      BY <2>2, <3>2
    <3> QED BY <3>1, <3>2
  <2>5. t[Above(k)].kind = "dir"
    BY <2>3, <2>4 DEF WellFormed
  <2> QED
    BY <2>5
<1>3. p = Above(Len(q) - Len(p)) /\ Len(p) \in Nat /\ Len(p) < Len(q)
  <2>1. Len(q) - (Len(q) - Len(p)) = Len(p) /\ Len(p) \in Nat
    BY <1>0, PathIsSequence
  <2> QED
    BY <2>1, BelowIsCut
<1>4. Len(q) - Len(p) \in Nat /\ 1 <= Len(q) - Len(p) /\ Len(q) - Len(p) <= Len(q)
  BY <1>0, <1>3
<1>5. t[Above(Len(q) - Len(p))].kind = "dir"
  BY <1>2, <1>4
<1>6. t[p].kind = "dir"
  BY <1>3, <1>5
<1> QED
  BY <1>6, NodeFields DEF Tree

(***************************************************************************)
(* The calls of FileTree keep a tree well formed.                           *)
(***************************************************************************)
LEMMA CallsWellFormed ==
  ASSUME NEW t \in Tree, WellFormed(t), NEW p \in Paths, NEW c \in Crcs
  PROVE  /\ WellFormed(MakeDir(t, p))
         /\ WellFormed(RemoveDir(t, p))
         /\ WellFormed(RemovePath(t, p))
         /\ WellFormed(WriteFile(t, p, c))
<1>1. \A q \in Paths \ {Sysroot} :
        /\ Front(q) \in Paths /\ IsBelow(q, Front(q)) /\ Front(q) # q
        /\ t[q].kind # "missing" => t[Front(q)].kind = "dir"
  BY FrontAbove DEF WellFormed, IsBelow, IsStrictPrefix
<1>2. WellFormed(MakeDir(t, p))
  BY <1>1 DEF WellFormed, MakeDir, HasParent, Tree, Missing, Directory
<1>3. ASSUME t[p].kind = "file" \/ IsEmpty(t, p)
      PROVE  WellFormed([t EXCEPT ![p] = Missing])
  <2> SUFFICES ASSUME NEW q \in Paths \ {Sysroot}, q # p, t[q].kind # "missing"
               PROVE  Front(q) # p
    BY <1>1 DEF WellFormed, Tree, Missing
  <2> QED
    BY <1>1, <1>3 DEF IsEmpty, Missing
<1>4. WellFormed(RemoveDir(t, p)) /\ WellFormed(RemovePath(t, p))
  BY <1>3 DEF RemoveDir, RemovePath
<1>5. WellFormed(WriteFile(t, p, c))
  <2> SUFFICES ASSUME CanWrite(t, p)
               PROVE  WellFormed([t EXCEPT ![p] = File(c)])
    BY DEF WriteFile
  <2> QED
    BY <1>1 DEF CanWrite, WellFormed, HasParent, Tree, File
<1> QED
  BY <1>2, <1>4, <1>5

\* Dropping the last element of a concatenation, and of a suffix.
LEMMA FrontOfConcat ==
  ASSUME NEW S, NEW a \in Seq(S), NEW b \in Seq(S), Len(b) > 0
  PROVE  /\ Front(a \o b) = a \o Front(b)
         /\ a \o b # <<>>
<1>1. /\ Front(b) \in Seq(S) /\ Len(Front(b)) = Len(b) - 1
      /\ \A i \in 1 .. Len(b) - 1 : Front(b)[i] = b[i]
  <2>1. Len(b) \in Nat /\ \A i \in 1 .. Len(b) - 1 : b[i] \in S
    <3>1. Len(b) \in Nat
      OBVIOUS
    <3>2. ASSUME NEW i \in 1 .. Len(b) - 1 PROVE b[i] \in S
      <4>1. i \in 1 .. Len(b)
        BY <3>1
      <4> QED BY <4>1, ElementOfSeq
    <3> QED BY <3>1, <3>2
  <2>2. PICK n \in Nat : n = Len(b) - 1
    <3>1. Len(b) - 1 \in Nat
      BY <2>1
    <3> QED BY <3>1
  <2>3. /\ SubSeq(b, 1, n) \in Seq(S) /\ Len(SubSeq(b, 1, n)) = n
        /\ \A i \in 1 .. n : SubSeq(b, 1, n)[i] = b[i]
    BY <2>1, <2>2, SubSeqProperties
  <2> QED
    BY <2>2, <2>3 DEF Front
<1>2. /\ a \o b \in Seq(S) /\ Len(a \o b) = Len(a) + Len(b)
      /\ \A i \in 1 .. Len(a) + Len(b) :
           (a \o b)[i] = IF i <= Len(a) THEN a[i] ELSE b[i - Len(a)]
  BY ConcatProperties
<1>3. /\ a \o Front(b) \in Seq(S) /\ Len(a \o Front(b)) = Len(a) + Len(b) - 1
      /\ \A i \in 1 .. Len(a) + Len(b) - 1 :
           (a \o Front(b))[i] = IF i <= Len(a) THEN a[i] ELSE b[i - Len(a)]
  <2> DEFINE f == Front(b)
  <2> HIDE DEF f
  <2>1. f \in Seq(S) /\ Len(f) = Len(b) - 1 /\ \A i \in 1 .. Len(b) - 1 : f[i] = b[i]
    BY <1>1 DEF f
  <2>2. /\ a \o f \in Seq(S) /\ Len(a \o f) = Len(a) + Len(f)
        /\ \A i \in 1 .. Len(a) + Len(f) :
             (a \o f)[i] = IF i <= Len(a) THEN a[i] ELSE f[i - Len(a)]
    BY <2>1, ConcatProperties
  <2> QED
    BY <2>1, <2>2 DEF f
<1>4. /\ Front(a \o b) \in Seq(S) /\ Len(Front(a \o b)) = Len(a) + Len(b) - 1
      /\ \A i \in 1 .. Len(a) + Len(b) - 1 : Front(a \o b)[i] = (a \o b)[i]
  <2> DEFINE c == a \o b
  <2>1. c \in Seq(S) /\ Len(c) = Len(a) + Len(b) /\ Len(c) > 0
    BY <1>2
  <2> HIDE DEF c
  <2>2. /\ Front(c) \in Seq(S) /\ Len(Front(c)) = Len(c) - 1
        /\ \A i \in 1 .. Len(c) - 1 : Front(c)[i] = c[i]
    BY <2>1 DEF Front
  <2> QED
    BY <2>1, <2>2 DEF c
<1>5. \A i \in 1 .. Len(a) + Len(b) - 1 : i \in 1 .. Len(a) + Len(b)
  OBVIOUS
<1>6. Front(a \o b) = a \o Front(b)
  <2> DEFINE c == Front(a \o b)
             d == a \o Front(b)
  <2>1. /\ c \in Seq(S) /\ d \in Seq(S) /\ Len(c) = Len(d)
        /\ \A i \in 1 .. Len(c) : c[i] = d[i]
    BY <1>2, <1>3, <1>4, <1>5
  <2> HIDE DEF c, d
  <2>2. c = d
    BY <2>1, SeqEqual
  <2> QED
    BY <2>2 DEF c, d
<1> QED
  BY <1>2, <1>6

LEMMA FrontOfSuffix ==
  ASSUME NEW S, NEW q \in Seq(S), NEW n \in Nat, n < Len(q)
  PROVE  /\ SubSeq(q, n + 1, Len(q)) \in Seq(S)
         /\ Len(SubSeq(q, n + 1, Len(q))) > 0
         /\ SubSeq(Front(q), n + 1, Len(q) - 1) = Front(SubSeq(q, n + 1, Len(q)))
<1> DEFINE r == SubSeq(q, n + 1, Len(q))
<1>1. /\ r \in Seq(S) /\ Len(r) = Len(q) - n
      /\ \A i \in 1 .. Len(q) - n : r[i] = q[n + i]
  OBVIOUS
<1>2. /\ Front(q) \in Seq(S) /\ Len(Front(q)) = Len(q) - 1
      /\ \A i \in 1 .. Len(q) - 1 : Front(q)[i] = q[i]
  BY DEF Front
<1>3. /\ Front(r) \in Seq(S) /\ Len(Front(r)) = Len(q) - n - 1
      /\ \A i \in 1 .. Len(q) - n - 1 : Front(r)[i] = q[n + i]
  <2> HIDE DEF r
  <2>1. /\ Front(r) \in Seq(S) /\ Len(Front(r)) = Len(r) - 1
        /\ \A i \in 1 .. Len(r) - 1 : Front(r)[i] = r[i]
    BY <1>1 DEF Front
  <2> QED
    BY <1>1, <2>1
<1>4. /\ SubSeq(Front(q), n + 1, Len(q) - 1) \in Seq(S)
      /\ Len(SubSeq(Front(q), n + 1, Len(q) - 1)) = Len(q) - n - 1
      /\ \A i \in 1 .. Len(q) - n - 1 :
           SubSeq(Front(q), n + 1, Len(q) - 1)[i] = q[n + i]
  <2> DEFINE f == Front(q)
  <2>1. f \in Seq(S) /\ Len(f) = Len(q) - 1 /\ \A i \in 1 .. Len(q) - 1 : f[i] = q[i]
    BY <1>2
  <2> HIDE DEF f
  <2>2. /\ SubSeq(f, n + 1, Len(q) - 1) \in Seq(S)
        /\ Len(SubSeq(f, n + 1, Len(q) - 1)) = Len(q) - n - 1
        /\ \A i \in 1 .. Len(q) - n - 1 : SubSeq(f, n + 1, Len(q) - 1)[i] = f[n + i]
    BY <2>1
  <2>3. \A i \in 1 .. Len(q) - n - 1 : n + i \in 1 .. Len(q) - 1
    OBVIOUS
  <2> QED
    BY <2>1, <2>2, <2>3 DEF f
<1>5. SubSeq(Front(q), n + 1, Len(q) - 1) = Front(r)
  <2> HIDE DEF r
  <2> QED
    <3> DEFINE c == SubSeq(Front(q), n + 1, Len(q) - 1)
               d == Front(r)
    <3>1. /\ c \in Seq(S) /\ d \in Seq(S) /\ Len(c) = Len(d)
          /\ \A i \in 1 .. Len(c) : c[i] = d[i]
      BY <1>3, <1>4
    <3> HIDE DEF c, d
    <3>2. c = d
      BY <3>1, SeqEqual
    <3> QED
      BY <3>2 DEF c, d
<1> QED
  BY <1>1, <1>5

\* Where the source of what is renamed to `to` lies, and what its parent is.
LEMMA SourceFacts ==
  ASSUME NEW from \in Paths, NEW to \in Paths, NEW q \in Paths
  PROVE  /\ q = to => Source(q, from, to) = from
         /\ IsBelow(q, to) =>
              /\ q # Sysroot /\ Source(q, from, to) # Sysroot
              /\ Front(q) \in Paths
              /\ Front(q) = to \/ IsBelow(Front(q), to)
              /\ Front(Source(q, from, to)) = Source(Front(q), from, to)
<1>1. /\ from \in Seq(PathNames) /\ to \in Seq(PathNames) /\ q \in Seq(PathNames)
      /\ Len(from) \in Nat /\ Len(to) \in Nat /\ Len(q) \in Nat
  BY PathIsSequence
<1>2. ASSUME q = to PROVE Source(q, from, to) = from
  <2>1. SubSeq(q, Len(to) + 1, Len(q)) = <<>>
    BY <1>1, <1>2, SubSeqEmpty
  <2>2. from \o <<>> = from
    BY <1>1, ConcatEmptySeq
  <2> QED
    BY <2>1, <2>2 DEF Source
<1>3. ASSUME IsBelow(q, to)
      PROVE  /\ q # Sysroot /\ Source(q, from, to) # Sysroot
             /\ Front(q) \in Paths
             /\ Front(q) = to \/ IsBelow(Front(q), to)
             /\ Front(Source(q, from, to)) = Source(Front(q), from, to)
  <2>1. Len(to) < Len(q)
    BY <1>1, <1>3, BelowMeans
  <2>2. q # Sysroot
    BY <2>1, <1>1 DEF Sysroot
  <2>3. /\ Front(q) \in Paths /\ Len(Front(q)) = Len(q) - 1
        /\ Front(q) = to \/ IsBelow(Front(q), to)
    BY <1>3, <2>2, FrontAbove
  <2> DEFINE rest == SubSeq(q, Len(to) + 1, Len(q))
  <2>4. /\ rest \in Seq(PathNames) /\ Len(rest) > 0
        /\ SubSeq(Front(q), Len(to) + 1, Len(q) - 1) = Front(rest)
    BY <1>1, <2>1, FrontOfSuffix
  <2> HIDE DEF rest
  <2>5. Front(from \o rest) = from \o Front(rest) /\ from \o rest # <<>>
    BY <1>1, <2>4, FrontOfConcat
  <2>6. /\ Source(q, from, to) = from \o rest
        /\ Source(Front(q), from, to) = from \o Front(rest)
    BY <2>3, <2>4 DEF Source, rest
  <2> QED
    BY <2>2, <2>3, <2>5, <2>6 DEF Sysroot
<1> QED
  BY <1>2, <1>3

LEMMA BelowTransitive ==
  ASSUME NEW q \in Paths, NEW p \in Paths, NEW r \in Paths,
         IsBelow(q, p), IsBelow(p, r)
  PROVE  IsBelow(q, r)
<1>1. q \in Seq(PathNames) /\ p \in Seq(PathNames) /\ r \in Seq(PathNames)
  BY PathIsSequence
<1>2. /\ Len(p) < Len(q) /\ \A i \in 1 .. Len(p) : q[i] = p[i]
      /\ Len(r) < Len(p) /\ \A i \in 1 .. Len(r) : p[i] = r[i]
  BY <1>1, BelowMeans
<1>3. Len(r) < Len(q) /\ \A i \in 1 .. Len(r) : q[i] = r[i]
  BY <1>1, <1>2
<1> QED
  BY <1>1, <1>3, BelowMeans

LEMMA RenameWellFormed ==
  ASSUME NEW t \in Tree, WellFormed(t), NEW from \in Paths, NEW to \in Paths
  PROVE  WellFormed(Rename(t, from, to))
<1> SUFFICES ASSUME CanRename(t, from, to) PROVE WellFormed(Rename(t, from, to))
  BY DEF Rename
<1> DEFINE At(q, p) == q = p \/ IsBelow(q, p)
           Src(q) == Source(q, from, to)
           u == [q \in Paths |->
                  IF At(q, to) THEN IF Src(q) \in Paths THEN t[Src(q)] ELSE Missing
                  ELSE IF At(q, from) THEN Missing
                  ELSE t[q]]
<1>1. u = Rename(t, from, to)
  BY DEF Rename
<1>2. /\ \A q \in Paths : At(q, to) =>
           u[q] = IF Src(q) \in Paths THEN t[Src(q)] ELSE Missing
      /\ \A q \in Paths : ~ At(q, to) /\ At(q, from) => u[q] = Missing
      /\ \A q \in Paths : ~ At(q, to) /\ ~ At(q, from) => u[q] = t[q]
  OBVIOUS
<1> SUFFICES ASSUME NEW q \in Paths \ {Sysroot}, u[q].kind # "missing"
             PROVE  u[Front(q)].kind = "dir"
  BY <1>1 DEF WellFormed
<1> HIDE DEF u
<1>3. /\ Front(q) \in Paths
      /\ \A p \in Paths : IsBelow(q, p) <=> p = Front(q) \/ IsBelow(Front(q), p)
  BY FrontAbove
<1>4. ~ IsBelow(to, from) /\ from # to /\ HasParent(t, to)
  BY DEF CanRename
<1>5. Missing.kind = "missing"
  BY DEF Missing
<1>6. CASE q = to
  <2>1. t[Front(q)].kind = "dir"
    BY <1>4, <1>6 DEF HasParent
  <2>2. ~ At(Front(q), to)
    <3>1. ~ IsBelow(q, q)
      BY DEF IsBelow, IsStrictPrefix
    <3> QED BY <1>3, <1>6, <3>1
  <2>3. ~ At(Front(q), from)
    BY <1>3, <1>4, <1>6
  <2> QED
    BY <1>2, <1>3, <2>1, <2>2, <2>3
<1>7. CASE IsBelow(q, to)
  <2>1. Src(q) \in Paths /\ t[Src(q)].kind # "missing"
    BY <1>2, <1>5, <1>7
  <2>2. /\ Src(q) # Sysroot /\ Front(Src(q)) = Src(Front(q))
        /\ At(Front(q), to)
    BY <1>7, SourceFacts
  <2> HIDE DEF Src
  <2>3. Front(Src(q)) \in Paths
    BY <2>1, <2>2, FrontAbove
  <2>4. t[Front(Src(q))].kind = "dir"
    BY <2>1, <2>2 DEF WellFormed
  <2> QED
    BY <1>2, <1>3, <2>2, <2>3, <2>4
<1>8. CASE ~ At(q, to)
  <2>1. ~ At(q, from) /\ u[q] = t[q]
    BY <1>2, <1>5, <1>8
  <2>2. t[Front(q)].kind = "dir"
    BY <2>1 DEF WellFormed
  <2>3. ~ At(Front(q), to) /\ ~ At(Front(q), from)
    BY <1>3, <1>8, <2>1
  <2> QED
    BY <1>2, <1>3, <2>2, <2>3
<1> QED
  BY <1>6, <1>7, <1>8
=============================================================================
