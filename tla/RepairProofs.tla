---------------------------- MODULE RepairProofs ----------------------------
(***************************************************************************)
(* FixRepairsOne and UserFilesKept: a plan of `fix` is a run of trees that  *)
(* keep the user's files, and that ends in one where the package is whole.  *)
(* The first sections are about such runs, paths and trees; then come what  *)
(* one claim adds to a plan, the plan of a package, and the process.        *)
(***************************************************************************)
EXTENDS OrphanProofs

(***************************************************************************)
(* What a plan leads to: executed from t it makes s of it, and every tree   *)
(* on the way is in K.                                                      *)
(***************************************************************************)
IsRun(T, ops) == \A i \in 1 .. Len(ops) : T[i] = Effect(T[i - 1], ops[i])

Leads(K, t, ops, s) ==
  \E T \in [0 .. Len(ops) -> K] : T[0] = t /\ T[Len(ops)] = s /\ IsRun(T, ops)

\* An empty plan leads nowhere else.
LEMMA LeadsNowhere ==
  ASSUME NEW K, NEW t \in K
  PROVE  Leads(K, t, <<>>, t)
<1> DEFINE T == [i \in 0 .. 0 |-> t]
<1>1. T \in [0 .. 0 -> K] /\ T[0] = t
  OBVIOUS
<1>2. Len(<<>>) = 0
  OBVIOUS
<1>3. IsRun(T, <<>>)
  BY <1>2 DEF IsRun
<1> QED
  BY <1>1, <1>2, <1>3 DEF Leads

LEMMA LeadsEnds ==
  ASSUME NEW K, NEW t, NEW s, Leads(K, t, <<>>, s)
  PROVE  s = t /\ t \in K
<1>1. Len(<<>>) = 0
  OBVIOUS
<1> QED
  BY <1>1 DEF Leads

LEMMA LeadsByOne ==
  ASSUME NEW K, NEW t \in K, NEW op \in FsOp, Effect(t, op) \in K
  PROVE  Leads(K, t, <<op>>, Effect(t, op))
<1> DEFINE T == [i \in 0 .. 1 |-> IF i = 0 THEN t ELSE Effect(t, op)]
<1>1. T \in [0 .. 1 -> K] /\ T[0] = t /\ T[1] = Effect(t, op)
  OBVIOUS
<1>2. Len(<<op>>) = 1 /\ <<op>>[1] = op
  OBVIOUS
<1> HIDE DEF T
<1>3. IsRun(T, <<op>>)
  BY <1>1, <1>2 DEF IsRun
<1> QED
  BY <1>1, <1>2, <1>3 DEF Leads

\* One plan after another.
LEMMA LeadsOn ==
  ASSUME NEW K, NEW t, NEW s, NEW r, NEW ops1 \in Seq(FsOp), NEW ops2 \in Seq(FsOp),
         Leads(K, t, ops1, s), Leads(K, s, ops2, r)
  PROVE  Leads(K, t, ops1 \o ops2, r)
<1>1. PICK T1 \in [0 .. Len(ops1) -> K] :
         T1[0] = t /\ T1[Len(ops1)] = s /\ IsRun(T1, ops1)
  BY DEF Leads
<1>2. PICK T2 \in [0 .. Len(ops2) -> K] :
         T2[0] = s /\ T2[Len(ops2)] = r /\ IsRun(T2, ops2)
  BY DEF Leads
<1>3. PICK m \in Nat : m = Len(ops1)
  OBVIOUS
<1>4. PICK n \in Nat : n = Len(ops2)
  OBVIOUS
<1>5. /\ Len(ops1 \o ops2) = m + n
      /\ \A i \in 1 .. m : (ops1 \o ops2)[i] = ops1[i]
      /\ \A i \in m + 1 .. m + n : (ops1 \o ops2)[i] = ops2[i - m]
  BY <1>3, <1>4
<1>6. PICK ops : ops = ops1 \o ops2
  OBVIOUS
<1> DEFINE T == [i \in 0 .. m + n |-> IF i <= m THEN T1[i] ELSE T2[i - m]]
<1>7. T \in [0 .. m + n -> K]
  <2> SUFFICES ASSUME NEW i \in 0 .. m + n
               PROVE  (IF i <= m THEN T1[i] ELSE T2[i - m]) \in K
    OBVIOUS
  <2>1. CASE i <= m
    BY <1>1, <1>3, <2>1
  <2>2. CASE ~ i <= m
    <3>1. i - m \in 0 .. n
      BY <2>2
    <3> QED
      BY <1>2, <1>4, <2>2, <3>1
  <2> QED
    BY <2>1, <2>2
<1>8. T[0] = t /\ T[m + n] = r
  <2>1. T[0] = t
    BY <1>1
  <2>2. CASE n = 0
    BY <1>1, <1>2, <1>3, <1>4, <2>2
  <2>3. CASE n # 0
    <3>1. m + n \in 0 .. m + n /\ ~ (m + n <= m) /\ (m + n) - m = n
      BY <2>3
    <3>2. T[m + n] = T2[n]
      BY <3>1
    <3> QED
      BY <1>2, <1>4, <2>1, <3>2
  <2> QED
    BY <2>1, <2>2, <2>3
<1>9. ASSUME NEW i \in 1 .. m + n PROVE T[i] = Effect(T[i - 1], ops[i])
  <2>1. CASE i <= m
    <3>1. T[i] = T1[i] /\ T[i - 1] = T1[i - 1] /\ ops[i] = ops1[i]
      BY <1>5, <1>6, <2>1
    <3> QED
      BY <1>1, <1>3, <2>1, <3>1 DEF IsRun
  <2>2. CASE i > m
    <3>1. PICK j \in 1 .. n : j = i - m
      BY <2>2
    <3>2. T[i] = T2[j] /\ ops[i] = ops2[j]
      <4>1. i \in m + 1 .. m + n /\ ~ (i <= m) /\ i \in 0 .. m + n
        BY <2>2
      <4>2. T[i] = T2[i - m]
        BY <4>1
      <4> QED
        BY <1>5, <1>6, <3>1, <4>1, <4>2
    <3>3. T[i - 1] = T2[j - 1]
      <4>1. CASE j = 1
        <5>1. i - 1 = m /\ m \in 0 .. m + n
          BY <3>1, <4>1
        <5>2. T[i - 1] = T1[m]
          BY <5>1
        <5> QED
          BY <1>1, <1>2, <1>3, <4>1, <5>2
      <4>2. CASE j # 1
        <5>1. i - 1 \in 0 .. m + n /\ ~ (i - 1 <= m) /\ (i - 1) - m = j - 1
          BY <3>1, <4>2
        <5> QED
          BY <5>1
      <4> QED
        BY <4>1, <4>2
    <3>4. T2[j] = Effect(T2[j - 1], ops2[j])
      BY <1>2, <1>4 DEF IsRun
    <3> QED
      BY <3>2, <3>3, <3>4
  <2> QED
    BY <2>1, <2>2
<1> HIDE DEF T
<1>10. IsRun(T, ops) /\ Len(ops) = m + n
  BY <1>5, <1>6, <1>9 DEF IsRun
<1> QED
  BY <1>6, <1>7, <1>8, <1>10 DEF Leads

\* The rest of a plan, once its first operation has been executed.
LEMMA LeadsAfter ==
  ASSUME NEW K, NEW t, NEW s, NEW ops \in Seq(FsOp), ops # <<>>, Leads(K, t, ops, s)
  PROVE  Leads(K, Effect(t, Head(ops)), Tail(ops), s) /\ t \in K
<1>1. PICK T \in [0 .. Len(ops) -> K] :
         T[0] = t /\ T[Len(ops)] = s /\ IsRun(T, ops)
  BY DEF Leads
<1>2. PICK n \in Nat : n = Len(ops) /\ n >= 1
  BY TailOf
<1>3. PICK rest \in Seq(FsOp) : rest = Tail(ops)
  BY TailOf
<1>4. /\ Len(rest) = n - 1 /\ Head(ops) = ops[1]
      /\ \A i \in 1 .. n - 1 : rest[i] = ops[i + 1]
  BY <1>2, <1>3, TailOf
<1> DEFINE U == [i \in 0 .. n - 1 |-> T[i + 1]]
<1>5. U \in [0 .. n - 1 -> K] /\ U[0] = T[1] /\ U[n - 1] = T[n]
  <2>1. \A i \in 0 .. n - 1 : i + 1 \in 0 .. n
    BY <1>2
  <2>2. 0 \in 0 .. n - 1 /\ n - 1 \in 0 .. n - 1 /\ (n - 1) + 1 = n /\ 0 + 1 = 1
    BY <1>2
  <2> QED
    BY <1>1, <1>2, <2>1, <2>2
<1>6. ASSUME NEW i \in 1 .. n - 1 PROVE U[i] = Effect(U[i - 1], rest[i])
  <2>1. i \in 0 .. n - 1 /\ i - 1 \in 0 .. n - 1 /\ (i - 1) + 1 = i /\ i + 1 \in 1 .. n
        /\ (i + 1) - 1 = i
    BY <1>2
  <2>2. U[i] = T[i + 1] /\ U[i - 1] = T[i]
    BY <2>1
  <2>3. T[i + 1] = Effect(T[(i + 1) - 1], ops[i + 1])
    BY <1>1, <1>2, <2>1 DEF IsRun
  <2> QED
    BY <1>4, <2>1, <2>2, <2>3
<1>7. T[1] = Effect(t, Head(ops)) /\ t \in K
  <2>1. 1 \in 1 .. n /\ 1 - 1 = 0 /\ 0 \in 0 .. n
    BY <1>2
  <2>2. T[1] = Effect(T[1 - 1], ops[1])
    BY <1>1, <1>2, <2>1 DEF IsRun
  <2> QED
    BY <1>1, <1>2, <1>4, <2>1, <2>2
<1> HIDE DEF U
<1>8. IsRun(U, rest)
  BY <1>4, <1>6 DEF IsRun
<1> QED
  BY <1>1, <1>2, <1>3, <1>4, <1>5, <1>7, <1>8 DEF Leads

LEMMA LeadsWider ==
  ASSUME NEW K, NEW K2, K \subseteq K2, NEW t, NEW ops, NEW s, Leads(K, t, ops, s)
  PROVE  Leads(K2, t, ops, s)
BY DEF Leads

(***************************************************************************)
(* Where a package whose files have their saved names to themselves puts    *)
(* what is in its way.                                                      *)
(***************************************************************************)
AtOrBelow(x, q) == x = q \/ IsBelow(x, q)

\* Of two paths above or at a third one is the other or lies below it.
LEMMA OnOnePath ==
  ASSUME NEW x \in Paths, NEW p \in Paths, NEW q \in Paths,
         AtOrBelow(x, p), AtOrBelow(x, q)
  PROVE  AtOrBelow(p, q) \/ IsBelow(q, p)
BY AboveOnePath DEF AtOrBelow

LEMMA NotBelowItself ==
  ASSUME NEW q \in Paths
  PROVE  ~ IsBelow(q, q)
BY PathIsSequence, BelowIsCut

LEMMA ClaimPaths ==
  ASSUME NEW p \in Packages, NEW q \in Claimed(p)
  PROVE  q \in Paths \ {Sysroot} /\ Save(q) \in Paths
BY ClaimsAssumption, SaveAssumption

\* No claim lies at or below a saved name.
LEMMA ClaimsElsewhere ==
  ASSUME NEW p \in Packages, SavesApart(p), NEW q \in Claimed(p), NEW r \in Claimed(p)
  PROVE  ~ AtOrBelow(q, Save(r))
BY DEF SavesApart, IsSaved, AtOrBelow

\* Nothing lies below two saved names.
LEMMA SavedApart ==
  ASSUME NEW p \in Packages, SavesApart(p), NEW q \in Claimed(p), NEW r \in Claimed(p),
         NEW x \in Paths, AtOrBelow(x, Save(q)), AtOrBelow(x, Save(r))
  PROVE  q = r
<1>1. Save(q) \in Paths /\ Save(r) \in Paths /\ q \in Paths /\ r \in Paths
  BY ClaimPaths
<1>2. ~ IsBelow(q, Save(r)) /\ ~ IsBelow(r, Save(q))
  BY ClaimsElsewhere DEF AtOrBelow
<1>3. ~ IsBelow(Save(q), Save(r)) /\ ~ IsBelow(Save(r), Save(q))
  BY <1>1, <1>2, AboveSaved
<1>4. Save(q) = Save(r)
  BY <1>1, <1>3, OnOnePath DEF AtOrBelow
<1> QED
  BY <1>4, SaveAssumption DEF SavesDiffer

\* A claim above a saved name is a directory above the claim that is saved there.
LEMMA ClaimAboveSaved ==
  ASSUME NEW p \in Packages, SavesApart(p), NEW q \in Claimed(p), NEW r \in Claimed(p),
         NEW x \in Paths, AtOrBelow(x, Save(r)), AtOrBelow(x, q)
  PROVE  IsBelow(r, q)
<1>1. Save(r) \in Paths /\ q \in Paths /\ r \in Paths
  BY ClaimPaths
<1>2. ~ AtOrBelow(q, Save(r))
  BY ClaimsElsewhere
<1>3. IsBelow(Save(r), q)
  BY <1>1, <1>2, OnOnePath
<1> QED
  BY <1>1, <1>3, AboveSaved

\* What follows r in a sequence that begins with r.
LEMMA SuffixAfter ==
  ASSUME NEW S, NEW u \in Seq(S), NEW r \in Seq(S), NEW b,
         b = SubSeq(u, Len(r) + 1, Len(u)),
         Len(r) < Len(u), \A i \in 1 .. Len(r) : u[i] = r[i]
  PROVE  b \in Seq(S) /\ Len(b) > 0 /\ r \o b = u
<1>1. Len(r) \in Nat /\ Len(u) \in Nat
  OBVIOUS
<1>2. PICK k \in Nat, n \in Nat : k = Len(r) /\ n = Len(u) /\ k < n
  BY <1>1
<1>3. /\ b \in Seq(S) /\ Len(b) = n - k
      /\ \A i \in 1 .. n - k : b[i] = u[k + i]
  <2>1. b = SubSeq(u, k + 1, n)
    BY <1>2
  <2>2. ASSUME NEW i \in k + 1 .. n PROVE u[i] \in S
    <3>1. i \in 1 .. Len(u)
      BY <1>2
    <3> QED
      BY <3>1, ElementOfSeq
  <2>3. /\ SubSeq(u, k + 1, n) \in Seq(S)
        /\ Len(SubSeq(u, k + 1, n)) = IF k + 1 <= n THEN n - (k + 1) + 1 ELSE 0
        /\ \A i \in 1 .. n - (k + 1) + 1 : SubSeq(u, k + 1, n)[i] = u[(k + 1) + i - 1]
    <3>1. k + 1 \in Int /\ n \in Int
      BY <1>2
    <3> QED
      BY <2>2, <3>1, SubSeqProperties
  <2>4. /\ b \in Seq(S)
        /\ Len(b) = IF k + 1 <= n THEN n - (k + 1) + 1 ELSE 0
        /\ \A i \in 1 .. n - (k + 1) + 1 : b[i] = u[(k + 1) + i - 1]
    BY ONLY <2>1, <2>3
  <2>5. k + 1 <= n /\ n - (k + 1) + 1 = n - k
    BY <1>2
  <2>6. ASSUME NEW i \in 1 .. n - k PROVE b[i] = u[k + i]
    <3>1. (k + 1) + i - 1 = k + i
      OBVIOUS
    <3> QED
      BY <2>4, <2>5, <3>1
  <2> QED
    BY <2>4, <2>5, <2>6
<1>4. PICK w : w = r \o b
  OBVIOUS
<1>5. /\ w \in Seq(S) /\ Len(w) = n
      /\ \A i \in 1 .. n : w[i] = IF i <= k THEN r[i] ELSE b[i - k]
  <2>1. /\ r \o b \in Seq(S)
        /\ Len(r \o b) = Len(r) + Len(b)
        /\ \A i \in 1 .. Len(r) + Len(b) :
             (r \o b)[i] = IF i <= Len(r) THEN r[i] ELSE b[i - Len(r)]
    BY <1>3, ConcatProperties
  <2>2. Len(r) + Len(b) = n
    BY <1>2, <1>3
  <2> QED
    BY <1>2, <1>4, <2>1, <2>2
<1>6. ASSUME NEW i \in 1 .. n PROVE w[i] = u[i]
  <2>1. CASE i <= k
    BY <1>2, <1>5, <2>1
  <2>2. CASE ~ i <= k
    <3>1. i - k \in 1 .. n - k /\ k + (i - k) = i
      BY <2>2
    <3>2. w[i] = b[i - k]
      BY <1>5, <2>2
    <3> QED
      BY <1>3, <3>1, <3>2
  <2> QED
    BY <2>1, <2>2
<1>7. w = u
  <2>1. Len(w) = Len(u) /\ \A i \in 1 .. Len(w) : w[i] = u[i]
    BY <1>2, <1>5, <1>6
  <2> QED
    BY <1>5, <2>1, SeqEqual
<1> QED
  BY <1>2, <1>3, <1>4, <1>7

LEMMA SuffixOfConcat ==
  ASSUME NEW S, NEW a \in Seq(S), NEW b \in Seq(S), Len(b) > 0, NEW v, v = a \o b
  PROVE  /\ v \in Seq(S) /\ Len(a) < Len(v)
         /\ \A i \in 1 .. Len(a) : v[i] = a[i]
         /\ SubSeq(v, Len(a) + 1, Len(v)) = b
<1>1. Len(a) \in Nat /\ Len(b) \in Nat
  OBVIOUS
<1>2. PICK m \in Nat, n \in Nat : m = Len(a) /\ n = Len(b) /\ n > 0
  BY <1>1
<1>3. /\ a \o b \in Seq(S)
      /\ Len(a \o b) = Len(a) + Len(b)
      /\ \A i \in 1 .. Len(a) + Len(b) :
           (a \o b)[i] = IF i <= Len(a) THEN a[i] ELSE b[i - Len(a)]
  BY ConcatProperties
<1>4. v \in Seq(S) /\ Len(v) = m + n /\ \A i \in 1 .. m : v[i] = a[i]
  BY <1>2, <1>3
<1>5. SubSeq(v, m + 1, m + n) = b
  <2>1. m + 1 \in Len(a) + 1 .. Len(a) + Len(b) /\ m + n \in Len(a) + 1 .. Len(a) + Len(b)
    BY <1>2
  <2>2. SubSeq(a \o b, m + 1, m + n) = SubSeq(b, m + 1 - Len(a), m + n - Len(a))
    BY ONLY <2>1, SubSeqOfConcat2, a \in Seq(S), b \in Seq(S)
  <2>3. m + 1 - Len(a) = 1 /\ m + n - Len(a) = Len(b)
    BY <1>2
  <2>4. SubSeq(b, 1, Len(b)) = b
    BY SubSeqFull
  <2> QED
    BY <2>2, <2>3, <2>4
<1>6. Len(a) = m /\ Len(v) = m + n
  BY <1>2, <1>4
<1>7. SubSeq(v, Len(a) + 1, Len(v)) = b
  BY ONLY <1>5, <1>6
<1>8. Len(a) < Len(v)
  BY <1>2, <1>6
<1>9. \A i \in 1 .. Len(a) : v[i] = a[i]
  BY <1>4, <1>6
<1> QED
  BY <1>4, <1>7, <1>8, <1>9

\* The end of u after r put after a, and put back after r.
LEMMA SuffixMoves ==
  ASSUME NEW S, NEW u \in Seq(S), NEW r \in Seq(S), NEW a \in Seq(S), NEW v,
         v = a \o SubSeq(u, Len(r) + 1, Len(u)),
         Len(r) < Len(u), \A i \in 1 .. Len(r) : u[i] = r[i]
  PROVE  /\ v \in Seq(S) /\ Len(a) < Len(v)
         /\ \A i \in 1 .. Len(a) : v[i] = a[i]
         /\ r \o SubSeq(v, Len(a) + 1, Len(v)) = u
<1>1. PICK b : b = SubSeq(u, Len(r) + 1, Len(u))
  OBVIOUS
<1>2. b \in Seq(S) /\ Len(b) > 0 /\ r \o b = u
  BY <1>1, SuffixAfter
<1>3. v = a \o b
  BY <1>1
<1>4. /\ v \in Seq(S) /\ Len(a) < Len(v)
      /\ \A i \in 1 .. Len(a) : v[i] = a[i]
      /\ SubSeq(v, Len(a) + 1, Len(v)) = b
  BY <1>2, <1>3, SuffixOfConcat
<1> QED
  BY <1>2, <1>4

\* Where a path below a claim is moved to, and back.
LEMMA MovedAndBack ==
  ASSUME NEW p \in Packages, NEW r \in Claimed(p), NEW u \in Paths, AtOrBelow(u, r)
  PROVE  /\ Source(u, Save(r), r) \in Paths
         /\ AtOrBelow(Source(u, Save(r), r), Save(r))
         /\ Source(Source(u, Save(r), r), r, Save(r)) = u
<1>1. r \in Paths /\ Save(r) \in Paths
  BY ClaimPaths
<1>2. /\ r \in Seq(PathNames) /\ Save(r) \in Seq(PathNames) /\ u \in Seq(PathNames)
      /\ Len(r) \in Nat /\ Len(Save(r)) \in Nat /\ Len(u) \in Nat
  BY <1>1, PathIsSequence
<1>3. CASE u = r
  <2>1. Source(u, Save(r), r) = Save(r)
    BY <1>1, <1>3, SourceFacts
  <2>2. Source(Save(r), r, Save(r)) = r
    BY <1>1, SourceFacts
  <2> QED
    BY <1>1, <1>3, <2>1, <2>2 DEF AtOrBelow
<1>4. CASE IsBelow(u, r)
  <2>1. Len(r) < Len(u) /\ \A i \in 1 .. Len(r) : u[i] = r[i]
    BY <1>2, <1>4, BelowMeans
  <2>2. PICK v : v = Source(u, Save(r), r)
    OBVIOUS
  <2>3. /\ v \in Seq(PathNames) /\ Len(Save(r)) < Len(v)
        /\ \A i \in 1 .. Len(Save(r)) : v[i] = Save(r)[i]
        /\ Source(v, r, Save(r)) = u
    BY <1>2, <2>1, <2>2, SuffixMoves DEF Source
  <2>4. IsBelow(v, Save(r))
    BY <1>2, <2>3, BelowMeans
  <2>5. v \in Paths
    BY <1>4, <2>2, SaveAssumption
  <2> QED
    BY <2>2, <2>3, <2>4, <2>5 DEF AtOrBelow
<1> QED
  BY <1>3, <1>4 DEF AtOrBelow

(***************************************************************************)
(* The user's files.  A tree keeps them, of those on t0, if each is where   *)
(* it was or below the .zpksave name of a claim in V, the claims visited.   *)
(***************************************************************************)
Users(t0) ==
  {u \in Paths : /\ t0[u].kind = "file"
                 /\ \A p \in Packages : ~ OnDisk(t0, p, u)
                 /\ ~ IsSaved(Packages, u)}

KeptIn(t, t0, V, u) ==
  t[u] = t0[u] \/ \E r \in V : AtOrBelow(u, r) /\ t[Source(u, Save(r), r)] = t0[u]

Keeping(t0, V) == {t \in Tree : \A u \in Users(t0) : KeptIn(t, t0, V, u)}

LEMMA UserFacts ==
  ASSUME NEW t0 \in Tree, NEW u \in Users(t0), NEW p \in Packages
  PROVE  /\ u \in Paths /\ t0[u] # Missing
         /\ \A r \in Claimed(p) : ~ AtOrBelow(u, Save(r))
BY DEF Users, IsSaved, AtOrBelow, Missing

\* More claims, or more nodes where nothing was, keep what was kept.
LEMMA KeepingMore ==
  ASSUME NEW t0, NEW V, NEW W, V \subseteq W
  PROVE  Keeping(t0, V) \subseteq Keeping(t0, W)
BY DEF Keeping, KeptIn

LEMMA KeepingBegins ==
  ASSUME NEW t0 \in Tree, NEW V
  PROVE  t0 \in Keeping(t0, V)
BY DEF Keeping, KeptIn

LEMMA AdditionKeeps ==
  ASSUME NEW p \in Packages, NEW V \in SUBSET Claimed(p), NEW t0 \in Tree,
         NEW t \in Keeping(t0, V), NEW t2 \in Tree,
         \A x \in Paths : t2[x] = t[x] \/ t[x] = Missing
  PROVE  t2 \in Keeping(t0, V)
<1> SUFFICES ASSUME NEW u \in Users(t0) PROVE KeptIn(t2, t0, V, u)
  BY DEF Keeping
<1>1. u \in Paths /\ t0[u] # Missing /\ KeptIn(t, t0, V, u)
  BY UserFacts DEF Keeping, Users, Missing
<1>2. CASE t[u] = t0[u]
  BY <1>1, <1>2 DEF KeptIn
<1>3. ASSUME NEW r \in V, AtOrBelow(u, r), t[Source(u, Save(r), r)] = t0[u]
      PROVE  KeptIn(t2, t0, V, u)
  <2>1. Source(u, Save(r), r) \in Paths
    BY <1>1, <1>3, MovedAndBack
  <2>2. t2[Source(u, Save(r), r)] = t0[u]
    BY <1>1, <1>3, <2>1
  <2> QED
    BY <1>3, <2>2 DEF KeptIn
<1> QED
  BY <1>1, <1>2, <1>3 DEF KeptIn

\* What is saved under the .zpksave name of another claim is out of the way.
LEMMA ClearingKeeps ==
  ASSUME NEW p \in Packages, SavesApart(p), NEW V \in SUBSET Claimed(p),
         NEW q \in Claimed(p) \ V, NEW t0 \in Tree,
         NEW t \in Keeping(t0, V), NEW t2 \in Tree,
         \A x \in Paths : t2[x] = t[x] \/ AtOrBelow(x, Save(q))
  PROVE  t2 \in Keeping(t0, V)
<1> SUFFICES ASSUME NEW u \in Users(t0) PROVE KeptIn(t2, t0, V, u)
  BY DEF Keeping
<1>1. u \in Paths /\ ~ AtOrBelow(u, Save(q)) /\ KeptIn(t, t0, V, u)
  BY UserFacts DEF Keeping
<1>2. CASE t[u] = t0[u]
  BY <1>1, <1>2 DEF KeptIn
<1>3. ASSUME NEW r \in V, AtOrBelow(u, r), t[Source(u, Save(r), r)] = t0[u]
      PROVE  KeptIn(t2, t0, V, u)
  <2>1. PICK x \in Paths : x = Source(u, Save(r), r) /\ AtOrBelow(x, Save(r))
    BY <1>1, <1>3, MovedAndBack
  <2>2. ~ AtOrBelow(x, Save(q))
    BY <2>1, SavedApart
  <2>3. t2[Source(u, Save(r), r)] = t0[u]
    BY <1>3, <2>1, <2>2
  <2> QED
    BY <1>3, <2>3 DEF KeptIn
<1> QED
  BY <1>1, <1>2, <1>3 DEF KeptIn

\* Nor is it below a claim that is visited later, and what is there moves with
\* the claim.
LEMMA DiversionKeeps ==
  ASSUME NEW p \in Packages, SavesApart(p), NEW V \in SUBSET Claimed(p),
         NEW q \in Claimed(p) \ V, \A v \in V : ~ IsBelow(v, q), NEW t0 \in Tree,
         NEW t \in Keeping(t0, V), CanRename(t, q, Save(q)),
         NEW t2 \in Tree, t2 = Rename(t, q, Save(q))
  PROVE  t2 \in Keeping(t0, V \cup {q})
<1> SUFFICES ASSUME NEW u \in Users(t0) PROVE KeptIn(t2, t0, V \cup {q}, u)
  BY DEF Keeping
<1>1. u \in Paths /\ ~ AtOrBelow(u, Save(q)) /\ KeptIn(t, t0, V, u)
  BY UserFacts DEF Keeping
<1>2. \A x \in Paths :
        t2[x] = IF AtOrBelow(x, Save(q))
                  THEN IF Source(x, q, Save(q)) \in Paths
                         THEN t[Source(x, q, Save(q))] ELSE Missing
                  ELSE IF AtOrBelow(x, q) THEN Missing ELSE t[x]
  BY DEF Rename, AtOrBelow
<1>3. CASE t[u] = t0[u] /\ ~ AtOrBelow(u, q)
  BY <1>1, <1>2, <1>3 DEF KeptIn
<1>4. CASE t[u] = t0[u] /\ AtOrBelow(u, q)
  <2>1. PICK x \in Paths : /\ x = Source(u, Save(q), q) /\ AtOrBelow(x, Save(q))
                           /\ Source(x, q, Save(q)) = u
    BY <1>1, <1>4, MovedAndBack
  <2>2. t2[x] = t[u]
    BY <1>1, <1>2, <2>1
  <2> QED
    BY <1>4, <2>1, <2>2 DEF KeptIn
<1>5. ASSUME NEW r \in V, AtOrBelow(u, r), t[Source(u, Save(r), r)] = t0[u]
      PROVE  KeptIn(t2, t0, V \cup {q}, u)
  <2>1. PICK x \in Paths : x = Source(u, Save(r), r) /\ AtOrBelow(x, Save(r))
    BY <1>1, <1>5, MovedAndBack
  <2>2. ~ AtOrBelow(x, Save(q))
    BY <2>1, SavedApart
  <2>3. ~ AtOrBelow(x, q)
    BY <2>1, ClaimAboveSaved
  <2>4. t2[x] = t0[u]
    BY <1>2, <1>5, <2>1, <2>2, <2>3
  <2> QED
    BY <1>5, <2>1, <2>4 DEF KeptIn
<1> QED
  BY <1>1, <1>3, <1>4, <1>5 DEF KeptIn
(***************************************************************************)
(* What rm_rf of a path leads to.                                           *)
(***************************************************************************)
\* An order of removal names each path it finds once, files before directories,
\* and inner directories first.
LEMMA OrderFacts ==
  ASSUME disk \in Tree, NEW r \in Paths, NEW order \in RemovalOrders(r)
  PROVE  \E n \in Nat :
           /\ order \in [1 .. n -> Present(r)]
           /\ \A i, j \in 1 .. n : order[i] = order[j] => i = j
           /\ \A x \in Present(r) : \E i \in 1 .. n : order[i] = x
           /\ \A i, j \in 1 .. n : i < j => ~ IsBelow(order[j], order[i])
<1>1. IsFiniteSet(Present(r))
  <2>1. Present(r) \in SUBSET Paths
    BY DEF Present
  <2> QED
    BY <2>1, FS_Subset, PathsAssumption
<1>2. PICK n \in Nat : n = Cardinality(Present(r))
  BY <1>1, FS_CardinalityType
<1>3. /\ order \in [1 .. n -> Present(r)]
      /\ \A i, j \in 1 .. n : order[i] = order[j] => i = j
      /\ \A i, j \in 1 .. n : i < j => ~ IsBelow(order[j], order[i])
  BY <1>2 DEF RemovalOrders, SetToSeqs
<1>4. order \in Surjection(1 .. n, Present(r))
  <2>1. order \in Injection(1 .. n, Present(r))
    BY <1>3 DEF Injection, IsInjective
  <2>2. Cardinality(1 .. n) = n
    <3>1. Cardinality(1 .. n) = IF 1 > n THEN 0 ELSE n - 1 + 1
      BY FS_Interval
    <3> QED
      BY <3>1
  <2> QED
    BY <1>1, <1>2, <2>1, <2>2, FS_Injection
<1> QED
  BY <1>3, <1>4 DEF Surjection

SameBelow(s, t, r) == \A x \in Paths : AtOrBelow(x, r) => s[x] = t[x]

OtherBelow(s, r) == {t \in Tree : \A x \in Paths : t[x] = s[x] \/ AtOrBelow(x, r)}

Cleared(t, s, r) ==
  \A x \in Paths : t[x] = IF AtOrBelow(x, r) THEN Missing ELSE s[x]

LEMMA ClearingLeads ==
  ASSUME disk \in Tree, NEW r \in Paths, NEW removals \in RmRf(r), NEW K,
         NEW s \in Tree, SameBelow(s, disk, r), OtherBelow(s, r) \subseteq K
  PROVE  \E t \in Tree : Leads(K, s, removals, t) /\ Cleared(t, s, r)
<1>0. \A x \in Paths : AtOrBelow(x, r) => s[x] = disk[x]
  BY DEF SameBelow
<1>1. PICK order \in RemovalOrders(r) :
        removals = [i \in DOMAIN order |->
                      IF disk[order[i]].kind = "dir" THEN Op("RMDIR_FREED", order[i])
                                                     ELSE Op("REMOVEFILE", order[i])]
  BY DEF RmRf
<1>2. PICK n \in Nat :
        /\ order \in [1 .. n -> Present(r)]
        /\ \A i, j \in 1 .. n : order[i] = order[j] => i = j
        /\ \A x \in Present(r) : \E i \in 1 .. n : order[i] = x
        /\ \A i, j \in 1 .. n : i < j => ~ IsBelow(order[j], order[i])
  BY OrderFacts
<1>3. \A x \in Present(r) : x \in Paths /\ AtOrBelow(x, r) /\ disk[x] # Missing
  BY DEF Present, AtOrBelow
<1>4. Len(removals) = n
  BY <1>1, <1>2
<1> DEFINE Gone(i, x) == \E j \in 1 .. i : order[j] = x
           T == [i \in 0 .. n |-> [x \in Paths |-> IF Gone(i, x) THEN Missing ELSE s[x]]]
<1>5. ASSUME NEW i \in 0 .. n
      PROVE  /\ T[i] \in Tree /\ T[i] \in K
             /\ \A x \in Paths : T[i][x] = IF Gone(i, x) THEN Missing ELSE s[x]
  <2>1. \A x \in Paths : T[i][x] = IF Gone(i, x) THEN Missing ELSE s[x]
    OBVIOUS
  <2>2. T[i] \in Tree
    BY DEF Tree, Node
  <2>3. ASSUME NEW x \in Paths, Gone(i, x) PROVE AtOrBelow(x, r)
    BY <1>2, <1>3, <2>3
  <2> HIDE DEF T
  <2>4. \A x \in Paths : T[i][x] = s[x] \/ AtOrBelow(x, r)
    BY <2>1, <2>3
  <2> QED
    BY <2>1, <2>2, <2>4 DEF OtherBelow
<1> HIDE DEF T
<1>6. T \in [0 .. n -> K]
  <2>1. T = [i \in 0 .. n |-> T[i]]
    BY DEF T
  <2> QED
    BY <1>5, <2>1
<1>7. T[0] = s
  <2>1. T[0] \in Tree /\ \A x \in Paths : T[0][x] = s[x]
    BY <1>5
  <2> QED
    BY <2>1 DEF Tree
<1>8. \A x \in Paths : T[n][x] = IF AtOrBelow(x, r) THEN Missing ELSE s[x]
  <2> SUFFICES ASSUME NEW x \in Paths
               PROVE  T[n][x] = IF AtOrBelow(x, r) THEN Missing ELSE s[x]
    OBVIOUS
  <2>1. T[n][x] = IF Gone(n, x) THEN Missing ELSE s[x]
    BY <1>5
  <2>2. Gone(n, x) => AtOrBelow(x, r)
    BY <1>2, <1>3
  <2>3. AtOrBelow(x, r) /\ ~ Gone(n, x) => s[x] = Missing
    <3>1. AtOrBelow(x, r) /\ ~ Gone(n, x) => x \notin Present(r)
      BY <1>2
    <3> QED
      BY <1>0, <3>1 DEF Present, AtOrBelow
  <2> QED
    BY <2>1, <2>2, <2>3
<1>9. ASSUME NEW i \in 1 .. n PROVE T[i] = Effect(T[i - 1], removals[i])
  <2>1. i - 1 \in 0 .. n /\ i \in 0 .. n
    OBVIOUS
  <2>2. PICK y \in Present(r) : y = order[i]
    BY <1>2
  <2>3. y \in Paths /\ AtOrBelow(y, r) /\ s[y] = disk[y] /\ s[y] # Missing
    BY <1>0, <1>3, <2>2
  <2>4. ~ Gone(i - 1, y)
    BY <1>2, <2>2
  <2>5. PICK t \in Tree : t = T[i - 1]
    BY <1>5, <2>1
  <2>6. t[y] = disk[y]
    BY <1>5, <2>1, <2>3, <2>4, <2>5
  <2>7. \A x \in Paths : Gone(i, x) <=> Gone(i - 1, x) \/ x = y
    BY <2>2
  <2>8. T[i] = [t EXCEPT ![y] = Missing]
    <3>1. /\ T[i] \in Tree
          /\ \A x \in Paths : T[i][x] = IF x = y THEN Missing ELSE t[x]
      BY <1>5, <2>1, <2>5, <2>7
    <3> QED
      BY <3>1 DEF Tree
  <2>9. disk[y].kind = "dir" => IsEmpty(t, y)
    <3> SUFFICES ASSUME NEW x \in Paths, IsBelow(x, y) PROVE t[x] = Missing
      BY DEF IsEmpty
    <3>1. AtOrBelow(x, r)
      BY <2>3, BelowTransitive DEF AtOrBelow
    <3>2. CASE disk[x] = Missing
      <4>1. s[x] = Missing
        BY <1>0, <3>1, <3>2
      <4> QED
        BY <1>5, <2>1, <2>5, <4>1
    <3>3. CASE disk[x] # Missing
      <4>1. x \in Present(r)
        BY <3>1, <3>3 DEF Present, AtOrBelow
      <4>2. PICK j \in 1 .. n : order[j] = x
        BY <1>2, <4>1
      <4>3. ~ i < j
        BY <1>2, <2>2, <4>2
      <4>4. i # j
        BY <2>2, <2>3, <4>2, NotBelowItself
      <4>5. j \in 1 .. i - 1
        BY <4>3, <4>4
      <4>6. Gone(i - 1, x)
        BY <4>2, <4>5
      <4> QED
        BY <1>5, <2>1, <2>5, <4>6
    <3> QED
      BY <3>2, <3>3
  <2>10. removals[i] = IF disk[y].kind = "dir" THEN Op("RMDIR_FREED", y)
                                               ELSE Op("REMOVEFILE", y)
    BY <1>1, <1>2, <2>2
  <2>11. disk[y].kind \in {"file", "dir"}
    BY <2>3, NodeFields DEF Tree
  <2>12. CASE disk[y].kind = "dir"
    <3>1. removals[i].kind = "RMDIR_FREED" /\ removals[i].path = y
      BY <2>10, <2>12 DEF Op
    <3>2. Effect(t, removals[i]) = RemoveDir(t, y)
      BY <3>1 DEF Effect
    <3> QED
      BY <2>5, <2>6, <2>8, <2>9, <2>12, <3>2 DEF RemoveDir
  <2>13. CASE disk[y].kind = "file"
    <3>1. removals[i].kind = "REMOVEFILE" /\ removals[i].path = y
      BY <2>10, <2>13 DEF Op
    <3>2. Effect(t, removals[i]) = RemovePath(t, y)
      BY <3>1 DEF Effect
    <3> QED
      BY <2>5, <2>6, <2>8, <2>13, <3>2 DEF RemovePath
  <2> QED
    BY <2>11, <2>12, <2>13
<1>10. Leads(K, s, removals, T[n])
  <2>1. IsRun(T, removals)
    BY <1>4, <1>9 DEF IsRun
  <2> QED
    BY <1>4, <1>6, <1>7, <2>1 DEF Leads
<1> QED
  BY <1>5, <1>8, <1>10 DEF Cleared
(***************************************************************************)
(* What planning makes of a package p, of which the claims V have been      *)
(* visited and the claims R have not: a tree s, reached from the disk t,    *)
(* that has V and is as the disk where the rest of the planning looks.      *)
(***************************************************************************)
Visited(p, V, R) ==
  /\ R \subseteq Claimed(p) /\ V = Claimed(p) \ R
  /\ \A v \in V, r \in R : Rank[v] <= Rank[r]

FirstOf(q, R) == q \in R /\ \A r \in R : Rank[q] <= Rank[r]

Simulated(s, t, p, V, R) ==
  /\ s \in Tree /\ WellFormed(s)
  /\ \A r \in R, x \in Paths : x = r \/ AtOrBelow(x, Save(r)) => s[x] = t[x]
  /\ t[Sysroot].kind # "file" =>
       s[Sysroot] = Directory /\ \A v \in V : OnDisk(s, p, v)

\* An installation where nothing is, in a directory, does what it is for; and
\* whether it does or not it changes nothing else.
LEMMA InstallEffect ==
  ASSUME NEW p \in Packages, NEW q \in Claimed(p), NEW t \in Tree, t[q] = Missing
  PROVE  /\ Effect(t, InstallOp(p, q)) \in Tree
         /\ \A x \in Paths : x # q => Effect(t, InstallOp(p, q))[x] = t[x]
         /\ HasParent(t, q) => OnDisk(Effect(t, InstallOp(p, q)), p, q)
<1>1. q \in Paths /\ Claims[p][q] \in Claim
      /\ (Claims[p][q].isDir => Claims[p][q] = DirClaim)
  BY ClaimsAssumption
<1>2. Effect(t, InstallOp(p, q)) \in Tree
  BY EffectType, PlannedOps
<1>3. t[q].kind = "missing"
  BY DEF Missing
<1>4. CASE Claims[p][q].isDir
  <2>1. InstallOp(p, q).kind = "MKDIR" /\ InstallOp(p, q).path = q
    BY <1>4 DEF InstallOp, Op
  <2>2. Effect(t, InstallOp(p, q)) = MakeDir(t, q)
    BY <2>1 DEF Effect
  <2>3. \A x \in Paths : x # q => MakeDir(t, q)[x] = t[x]
    BY DEF MakeDir, Tree
  <2>4. ASSUME HasParent(t, q) PROVE OnDisk(MakeDir(t, q), p, q)
    <3>1. MakeDir(t, q)[q] = Directory
      BY <1>1, <2>4 DEF MakeDir, Tree
    <3> QED
      BY <1>1, <1>4, <3>1 DEF OnDisk, Directory, DirClaim
  <2> QED
    BY <1>2, <2>2, <2>3, <2>4
<1>5. CASE ~ Claims[p][q].isDir
  <2>1. PICK c \in Crcs : c = Claims[p][q].crc
    BY <1>1 DEF Claim
  <2>2. InstallOp(p, q).kind = "CREATEFILE" /\ InstallOp(p, q).path = q
        /\ InstallOp(p, q).crc = c
    BY <1>5, <2>1 DEF InstallOp, CreateFileOp
  <2>3. Effect(t, InstallOp(p, q)) = WriteFile(t, q, c)
    BY <2>2 DEF Effect
  <2>4. \A x \in Paths : x # q => WriteFile(t, q, c)[x] = t[x]
    BY DEF WriteFile, Tree
  <2>5. ASSUME HasParent(t, q) PROVE OnDisk(WriteFile(t, q, c), p, q)
    <3>1. WriteFile(t, q, c)[q] = File(c)
      BY <1>1, <1>3, <2>5 DEF WriteFile, CanWrite, Tree
    <3> QED
      BY <1>1, <1>5, <2>1, <3>1 DEF OnDisk, File
  <2> QED
    BY <1>2, <2>3, <2>4, <2>5
<1> QED
  BY <1>4, <1>5

\* What the claim visited next is to the others.
LEMMA NextClaim ==
  ASSUME NEW p \in Packages, NEW V, NEW R, Visited(p, V, R),
         NEW q, FirstOf(q, R)
  PROVE  /\ Visited(p, V \cup {q}, R \ {q})
         /\ q \in Paths \ {Sysroot} /\ q \in Claimed(p) \ V /\ V \in SUBSET Claimed(p)
         /\ \A v \in V : ~ IsBelow(v, q)
         /\ Front(q) = Sysroot \/ (Front(q) \in V /\ Claims[p][Front(q)] = DirClaim)
<1>1. /\ q \in Paths \ {Sysroot} /\ q \in Claimed(p) \ V
      /\ V \in SUBSET Claimed(p) /\ Claimed(p) \subseteq Paths \ {Sysroot}
  BY ClaimsAssumption DEF Visited, FirstOf
<1>2. Visited(p, V \cup {q}, R \ {q})
  <2>1. R \ {q} \subseteq Claimed(p) /\ V \cup {q} = Claimed(p) \ (R \ {q})
    BY <1>1 DEF Visited
  <2>2. \A v \in V \cup {q}, r \in R \ {q} : Rank[v] <= Rank[r]
    BY DEF Visited, FirstOf
  <2> QED
    BY <2>1, <2>2 DEF Visited
<1>3. \A v \in V : ~ IsBelow(v, q)
  <2> SUFFICES ASSUME NEW v \in V, IsBelow(v, q) PROVE FALSE
    OBVIOUS
  <2>1. Rank[v] <= Rank[q] /\ Rank[q] < Rank[v]
    BY <1>1, RankAssumption DEF Visited, FirstOf
  <2>2. Rank[v] \in Int /\ Rank[q] \in Int
    BY <1>1, RankAssumption
  <2> QED
    BY <2>1, <2>2
<1>4. ASSUME Front(q) # Sysroot
      PROVE  Front(q) \in V /\ Claims[p][Front(q)] = DirClaim
  <2>1. Front(q) \in Claimed(p) /\ Claims[p][Front(q)] = DirClaim
    BY <1>1, <1>4, ClaimsAssumption
  <2>2. Front(q) \in Paths /\ IsBelow(q, Front(q))
    BY <1>1, FrontAbove
  <2>3. Rank[Front(q)] < Rank[q] /\ Rank[q] \in Int /\ Rank[Front(q)] \in Int
    BY <1>1, <2>2, RankAssumption
  <2>4. Front(q) \notin R
    BY <2>3 DEF FirstOf
  <2> QED
    BY <2>1, <2>4 DEF Visited
<1> QED
  BY <1>1, <1>2, <1>3, <1>4

\* A claim at which nothing is.
LEMMA InstallationLeads ==
  ASSUME NEW t \in Tree, NEW t0 \in Tree, NEW p \in Packages, SavesApart(p),
         NEW V, NEW R, Visited(p, V, R),
         NEW q, FirstOf(q, R), t[q] = Missing,
         NEW s \in Keeping(t0, V), Simulated(s, t, p, V, R)
  PROVE  \E s2 : /\ Leads(Keeping(t0, V), s, <<InstallOp(p, q)>>, s2)
                 /\ Simulated(s2, t, p, V \cup {q}, R \ {q})
<1>1. /\ q \in Paths \ {Sysroot} /\ q \in Claimed(p) \ V /\ V \in SUBSET Claimed(p)
      /\ Front(q) = Sysroot \/ (Front(q) \in V /\ Claims[p][Front(q)] = DirClaim)
  BY NextClaim
<1>2. s \in Tree /\ WellFormed(s) /\ s[q] = Missing /\ R \subseteq Claimed(p)
  BY <1>1 DEF Simulated, Visited, FirstOf
<1>3. PICK s2 : s2 = Effect(s, InstallOp(p, q))
  OBVIOUS
<1>4. /\ s2 \in Tree /\ \A x \in Paths : x # q => s2[x] = s[x]
      /\ HasParent(s, q) => OnDisk(s2, p, q)
  BY <1>1, <1>2, <1>3, InstallEffect
<1>5. WellFormed(s2) /\ InstallOp(p, q) \in FsOp
  BY <1>1, <1>2, <1>3, EffectWellFormed, PlannedOps
<1>6. s2 \in Keeping(t0, V)
  <2>1. \A x \in Paths : s2[x] = s[x] \/ s[x] = Missing
    BY <1>2, <1>4
  <2> QED
    BY <1>1, <1>4, <2>1, AdditionKeeps
<1>7. ASSUME NEW r \in R \ {q}, NEW x \in Paths, x = r \/ AtOrBelow(x, Save(r))
      PROVE  s2[x] = t[x]
  <2>1. x # q
    BY <1>1, <1>2, <1>7, ClaimsElsewhere
  <2> QED
    BY <1>4, <1>7, <2>1 DEF Simulated
<1>8. ASSUME t[Sysroot].kind # "file"
      PROVE  s2[Sysroot] = Directory /\ \A v \in V \cup {q} : OnDisk(s2, p, v)
  <2>1. s[Sysroot] = Directory /\ \A v \in V : OnDisk(s, p, v)
    BY <1>8 DEF Simulated
  <2>2. HasParent(s, q)
    <3>1. CASE Front(q) = Sysroot
      BY <2>1, <3>1 DEF HasParent, Directory
    <3>2. CASE Front(q) \in V /\ Claims[p][Front(q)] = DirClaim
      BY <2>1, <3>2 DEF HasParent, OnDisk, DirClaim
    <3> QED
      BY <1>1, <3>1, <3>2
  <2>3. s2[Sysroot] = Directory
    BY <1>1, <1>4, <2>1, PathsAssumption
  <2>4. ASSUME NEW v \in V PROVE OnDisk(s2, p, v)
    <3>1. v \in Paths /\ v # q
      BY <1>1, ClaimPaths
    <3> QED
      BY <1>4, <2>1, <3>1 DEF OnDisk
  <2> QED
    BY <1>4, <2>2, <2>3, <2>4
<1>9. Leads(Keeping(t0, V), s, <<InstallOp(p, q)>>, s2)
  BY <1>3, <1>5, <1>6, LeadsByOne
<1>10. Simulated(s2, t, p, V \cup {q}, R \ {q})
  BY <1>4, <1>5, <1>7, <1>8 DEF Simulated
<1> QED
  BY <1>9, <1>10
\* Nothing is left of what lay at or below r.
LEMMA ClearedWellFormed ==
  ASSUME NEW s \in Tree, WellFormed(s), NEW r \in Paths, NEW t \in Tree,
         \A x \in Paths : t[x] = IF AtOrBelow(x, r) THEN Missing ELSE s[x]
  PROVE  WellFormed(t)
<1> SUFFICES ASSUME NEW x \in Paths \ {Sysroot}, t[x].kind # "missing"
             PROVE  t[Front(x)].kind = "dir"
  BY DEF WellFormed
<1>1. Front(x) \in Paths /\ IsBelow(x, Front(x))
      /\ (IsBelow(x, r) <=> r = Front(x) \/ IsBelow(Front(x), r))
  BY FrontAbove
<1>2. ~ AtOrBelow(x, r) /\ t[x] = s[x]
  BY DEF Missing
<1>3. ~ AtOrBelow(Front(x), r)
  BY <1>1, <1>2 DEF AtOrBelow
<1>4. s[Front(x)].kind = "dir"
  BY <1>2 DEF WellFormed
<1> QED
  BY <1>1, <1>3, <1>4

\* A claim at which something else is: what is saved under its name is removed,
\* what is there is saved, and it is installed.
LEMMA RenameMoves ==
  ASSUME NEW t \in Tree, WellFormed(t), NEW p \in Packages, SavesApart(p),
         NEW q \in Claimed(p), t[q] # Missing,
         \A x \in Paths : AtOrBelow(x, Save(q)) => t[x] = Missing
  PROVE  /\ CanRename(t, q, Save(q))
         /\ Rename(t, q, Save(q)) \in Tree
         /\ \A x \in Paths : ~ AtOrBelow(x, Save(q)) =>
              Rename(t, q, Save(q))[x] = IF AtOrBelow(x, q) THEN Missing ELSE t[x]
         /\ HasParent(Rename(t, q, Save(q)), q)
<1>1. q \in Paths \ {Sysroot} /\ Save(q) \in Paths /\ Save(q) # q
  BY ClaimPaths, SaveAssumption
<1>2. ~ AtOrBelow(q, Save(q))
  BY ClaimsElsewhere
<1>3. Front(q) \in Paths /\ IsBelow(q, Front(q))
  BY <1>1, FrontAbove
<1>4. IsBelow(Save(q), Front(q)) /\ ~ IsBelow(Save(q), q)
  <2>1. ~ IsBelow(q, q)
    BY <1>1, NotBelowItself
  <2> QED
    BY <1>1, <1>3, <2>1, AboveSaved
<1>5. Save(q) # Sysroot
  <2>1. ~ IsBelow(Sysroot, Front(q))
    BY <1>3, PathsAssumption, BelowIsCut, PathIsSequence DEF Sysroot
  <2> QED
    BY <1>4, <2>1
<1>6. t[Front(q)].kind = "dir"
  <2>1. t[q].kind # "missing"
    BY <1>1, NodeFields DEF Tree
  <2> QED
    BY <1>1, <2>1 DEF WellFormed
<1>7. Front(Save(q)) = Front(q)
  <2>1. /\ Front(Save(q)) \in Paths /\ IsBelow(Save(q), Front(Save(q)))
        /\ \A a \in Paths : IsBelow(Save(q), a) <=> a = Front(Save(q)) \/ IsBelow(Front(Save(q)), a)
    BY <1>1, <1>5, FrontAbove
  <2>2. IsBelow(q, Front(Save(q)))
    BY <1>1, <2>1, AboveSaved
  <2>3. Front(Save(q)) = Front(q) \/ IsBelow(Front(q), Front(Save(q)))
    BY <1>1, <2>1, <2>2, FrontAbove
  <2>4. Front(q) = Front(Save(q)) \/ IsBelow(Front(Save(q)), Front(q))
    BY <1>3, <1>4, <2>1
  <2>5. ~ (IsBelow(Front(q), Front(Save(q))) /\ IsBelow(Front(Save(q)), Front(q)))
    BY <1>3, <2>1, BelowTransitive, NotBelowItself
  <2> QED
    BY <2>3, <2>4, <2>5
<1>8. HasParent(t, Save(q))
  BY <1>6, <1>7 DEF HasParent
<1>9. t[Save(q)] = Missing /\ IsEmpty(t, Save(q))
  BY <1>1 DEF AtOrBelow, IsEmpty
<1>10. CanRename(t, q, Save(q))
  <2>1. t[q].kind \in {"file", "dir"} /\ t[Save(q)].kind = "missing"
    BY <1>1, <1>9, NodeFields DEF Tree, Missing
  <2> QED
    BY <1>1, <1>4, <1>8, <1>9, <2>1 DEF CanRename
<1>11. Rename(t, q, Save(q)) \in Tree
  BY <1>1, CallsType, CrcsAssumption
<1>12. \A x \in Paths : ~ AtOrBelow(x, Save(q)) =>
         Rename(t, q, Save(q))[x] = IF AtOrBelow(x, q) THEN Missing ELSE t[x]
  BY <1>10 DEF Rename, AtOrBelow
<1>13. HasParent(Rename(t, q, Save(q)), q)
  <2>1. ~ AtOrBelow(Front(q), q)
    BY <1>1, <1>3, BelowTransitive, NotBelowItself DEF AtOrBelow
  <2>2. ~ AtOrBelow(Front(q), Save(q))
    BY <1>1, <1>3, <1>4, BelowTransitive, NotBelowItself DEF AtOrBelow
  <2>3. Rename(t, q, Save(q))[Front(q)] = t[Front(q)]
    BY <1>3, <1>12, <2>1, <2>2
  <2> QED
    BY <1>6, <2>3 DEF HasParent
<1> QED
  BY <1>10, <1>11, <1>12, <1>13
LEMMA DiversionLeads ==
  ASSUME disk \in Tree, WellFormed(disk), NEW t0 \in Tree,
         NEW p \in Packages, SavesApart(p), NEW V, NEW R, Visited(p, V, R),
         NEW q, FirstOf(q, R), disk[q] # Missing, ~ OnDisk(disk, p, q),
         NEW removals \in RmRf(Save(q)),
         NEW s \in Keeping(t0, V), Simulated(s, disk, p, V, R)
  PROVE  \E s1, s2, s3 :
           /\ Leads(Keeping(t0, V), s, removals, s1)
           /\ Leads(Keeping(t0, V \cup {q}), s1, <<RenameOp(q, Save(q))>>, s2)
           /\ Leads(Keeping(t0, V \cup {q}), s2, <<InstallOp(p, q)>>, s3)
           /\ Simulated(s3, disk, p, V \cup {q}, R \ {q})
<1>1. /\ q \in Paths \ {Sysroot} /\ q \in Claimed(p) \ V /\ V \in SUBSET Claimed(p)
      /\ \A v \in V : ~ IsBelow(v, q)
  BY NextClaim
<1>2. PICK W : W = V \cup {q}
  OBVIOUS
<1>3. /\ s \in Tree /\ WellFormed(s) /\ s[q] = disk[q]
      /\ \A x \in Paths : AtOrBelow(x, Save(q)) => s[x] = disk[x]
      /\ R \subseteq Claimed(p) /\ q \in R
  <2>1. R \subseteq Claimed(p) /\ q \in R
    BY DEF Visited, FirstOf
  <2> QED
    BY <1>1, <2>1 DEF Simulated
<1>4. Save(q) \in Paths /\ ~ AtOrBelow(q, Save(q)) /\ ~ AtOrBelow(Sysroot, Save(q))
      /\ ~ AtOrBelow(Sysroot, q)
  <2>1. Save(q) \in Paths /\ ~ AtOrBelow(q, Save(q))
    BY <1>1, ClaimPaths, ClaimsElsewhere
  <2>2. ~ IsBelow(Sysroot, Save(q)) /\ ~ IsBelow(Sysroot, q)
    BY <1>1, <2>1, PathsAssumption, BelowIsCut, PathIsSequence DEF Sysroot
  <2>3. Save(q) # Sysroot
    <3>1. IsBelow(q, Front(q)) /\ Front(q) \in Paths
      BY <1>1, FrontAbove
    <3>2. IsBelow(Save(q), Front(q))
      BY <1>1, <3>1, AboveSaved
    <3>3. ~ IsBelow(Sysroot, Front(q))
      BY <3>1, PathsAssumption, BelowIsCut, PathIsSequence DEF Sysroot
    <3> QED
      BY <3>2, <3>3
  <2> QED
    BY <1>1, <2>1, <2>2, <2>3 DEF AtOrBelow
<1>5. PICK s1 \in Tree :
        /\ Leads(Keeping(t0, V), s, removals, s1)
        /\ \A x \in Paths : s1[x] = IF AtOrBelow(x, Save(q)) THEN Missing ELSE s[x]
  <2>1. OtherBelow(s, Save(q)) \subseteq Keeping(t0, V)
    BY <1>1, ClearingKeeps DEF OtherBelow
  <2>2. SameBelow(s, disk, Save(q))
    BY <1>3 DEF SameBelow
  <2>3. \E t \in Tree : Leads(Keeping(t0, V), s, removals, t) /\ Cleared(t, s, Save(q))
    BY <1>3, <1>4, <2>1, <2>2, ClearingLeads
  <2> QED
    BY <2>3 DEF Cleared
<1>6. s1 \in Keeping(t0, V) /\ WellFormed(s1) /\ s1[q] # Missing
  <2>1. s1 \in Keeping(t0, V)
    <3>1. \A x \in Paths : s1[x] = s[x] \/ AtOrBelow(x, Save(q))
      BY <1>5
    <3> QED
      BY <1>1, <1>5, <3>1, ClearingKeeps
  <2>2. WellFormed(s1)
    BY <1>3, <1>4, <1>5, ClearedWellFormed
  <2>3. s1[q] = s[q]
    BY <1>1, <1>4, <1>5
  <2> QED
    BY <1>3, <2>1, <2>2, <2>3
<1>7. PICK s2 : s2 = Rename(s1, q, Save(q))
  OBVIOUS
<1>8. /\ CanRename(s1, q, Save(q)) /\ s2 \in Tree /\ HasParent(s2, q)
      /\ \A x \in Paths : ~ AtOrBelow(x, Save(q)) =>
           s2[x] = IF AtOrBelow(x, q) THEN Missing ELSE s[x]
  <2>1. \A x \in Paths : AtOrBelow(x, Save(q)) => s1[x] = Missing
    BY <1>5
  <2>2. /\ CanRename(s1, q, Save(q)) /\ s2 \in Tree /\ HasParent(s2, q)
        /\ \A x \in Paths : ~ AtOrBelow(x, Save(q)) =>
             s2[x] = IF AtOrBelow(x, q) THEN Missing ELSE s1[x]
    BY <1>1, <1>6, <1>7, <2>1, RenameMoves
  <2> QED
    BY <1>5, <2>2
<1>9. s2 \in Keeping(t0, W) /\ WellFormed(s2) /\ s2[q] = Missing
  <2>1. s2 \in Keeping(t0, V \cup {q})
    BY <1>1, <1>6, <1>7, <1>8, DiversionKeeps
  <2>2. WellFormed(s2)
    BY <1>1, <1>4, <1>6, <1>7, RenameWellFormed
  <2>3. s2[q] = Missing
    BY <1>1, <1>4, <1>8 DEF AtOrBelow
  <2> QED
    BY <1>2, <2>1, <2>2, <2>3
<1>10. Leads(Keeping(t0, W), s1, <<RenameOp(q, Save(q))>>, s2)
  <2>1. RenameOp(q, Save(q)) \in FsOp
    BY <1>1, PlannedOps
  <2>2. Effect(s1, RenameOp(q, Save(q))) = s2
    BY <1>7 DEF Effect, RenameOp
  <2>3. s1 \in Keeping(t0, W)
    BY <1>2, <1>6, KeepingMore
  <2> QED
    BY <1>9, <2>1, <2>2, <2>3, LeadsByOne
<1>11. PICK s3 : s3 = Effect(s2, InstallOp(p, q))
  OBVIOUS
<1>12. /\ s3 \in Tree /\ WellFormed(s3) /\ OnDisk(s3, p, q)
       /\ \A x \in Paths : x # q => s3[x] = s2[x]
  <2>1. /\ s3 \in Tree /\ OnDisk(s3, p, q)
        /\ \A x \in Paths : x # q => s3[x] = s2[x]
    BY <1>1, <1>8, <1>9, <1>11, InstallEffect
  <2>2. WellFormed(s3)
    BY <1>1, <1>8, <1>9, <1>11, EffectWellFormed, PlannedOps
  <2> QED
    BY <2>1, <2>2
<1>13. Leads(Keeping(t0, W), s2, <<InstallOp(p, q)>>, s3)
  <2>1. s3 \in Keeping(t0, W)
    <3>1. \A x \in Paths : s3[x] = s2[x] \/ s2[x] = Missing
      BY <1>9, <1>12
    <3>2. W \in SUBSET Claimed(p)
      BY <1>1, <1>2
    <3> QED
      BY <1>9, <1>12, <3>1, <3>2, AdditionKeeps
  <2> QED
    BY <1>1, <1>9, <1>11, <2>1, LeadsByOne, PlannedOps
<1>14. ASSUME NEW r \in R \ {q}, IsBelow(r, q), NEW x \in Paths, IsBelow(x, q)
       PROVE  disk[x] = Missing
  <2>1. r \in Claimed(p) /\ disk[q].kind # "missing" /\ disk[x].kind \in {"missing", "file", "dir"}
    BY <1>1, <1>3, <1>14, NodeFields DEF Tree
  <2>2. Claims[p][q] = DirClaim
    BY <1>1, <1>14, <2>1, ClaimsLieInDirectories
  <2>3. disk[q] # Directory
    BY <1>1, <2>2 DEF OnDisk, DirClaim, Directory
  <2>4. disk[x].kind = "missing"
    BY <1>1, <1>14, <2>3, NodesLieInDirectories
  <2> QED
    BY <2>4, NodeFields DEF Tree
<1>15. ASSUME NEW r \in R \ {q}, NEW x \in Paths, x = r \/ AtOrBelow(x, Save(r))
       PROVE  s3[x] = disk[x]
  <2>1. r \in Claimed(p) /\ r # q /\ r \in Paths /\ Save(r) \in Paths /\ s[x] = disk[x]
    BY <1>3, <1>15, ClaimPaths DEF Simulated
  <2>2. x # q
    BY <1>1, <1>15, <2>1, ClaimsElsewhere
  <2>3. ~ AtOrBelow(x, Save(q))
    BY <1>1, <1>15, <2>1, ClaimsElsewhere, SavedApart
  <2>4. s3[x] = IF AtOrBelow(x, q) THEN Missing ELSE disk[x]
    BY <1>8, <1>12, <2>1, <2>2, <2>3
  <2>5. ASSUME AtOrBelow(x, q) PROVE disk[x] = Missing
    <3>1. IsBelow(x, q)
      BY <2>2, <2>5 DEF AtOrBelow
    <3>2. IsBelow(r, q)
      BY <1>1, <1>15, <2>1, <2>5, <3>1, ClaimAboveSaved
    <3> QED
      BY <1>14, <3>1, <3>2
  <2> QED
    BY <2>4, <2>5
<1>16. ASSUME disk[Sysroot].kind # "file"
       PROVE  s3[Sysroot] = Directory /\ \A v \in W : OnDisk(s3, p, v)
  <2>1. s[Sysroot] = Directory /\ \A v \in V : OnDisk(s, p, v)
    BY <1>16 DEF Simulated
  <2>2. s3[Sysroot] = Directory
    BY <1>1, <1>4, <1>8, <1>12, <2>1, PathsAssumption
  <2>3. ASSUME NEW v \in V PROVE OnDisk(s3, p, v)
    <3>1. v \in Paths /\ v # q /\ v \in Claimed(p)
      BY <1>1, ClaimPaths
    <3>2. ~ AtOrBelow(v, Save(q)) /\ ~ AtOrBelow(v, q)
      BY <1>1, <3>1, ClaimsElsewhere DEF AtOrBelow
    <3>3. s3[v] = s[v]
      BY <1>8, <1>12, <3>1, <3>2
    <3> QED
      BY <2>1, <3>3 DEF OnDisk
  <2> QED
    BY <1>2, <1>12, <2>2, <2>3
<1>17. Simulated(s3, disk, p, W, R \ {q})
  BY <1>12, <1>15, <1>16 DEF Simulated
<1> QED
  BY <1>2, <1>5, <1>10, <1>13, <1>17
(***************************************************************************)
(* What has been planned of a package p, of which the claims R are still to *)
(* be visited: the operations f before it and the operations k for it lead  *)
(* from the tree t the planning looks at to what the planning takes it to   *)
(* be, and keep the user's files on the way.                                *)
(***************************************************************************)
PlanLeads(t, f, k, p, R) ==
  /\ Visited(p, Claimed(p) \ R, R)
  /\ \E m, s : /\ Leads(Keeping(t, Claimed(p) \ R), t, f, m)
               /\ Leads(Keeping(t, Claimed(p) \ R), m, k, s)
               /\ Simulated(s, t, p, Claimed(p) \ R, R)

LEMMA LeadsInto ==
  ASSUME NEW K, NEW t, NEW ops \in Seq(FsOp), NEW s, Leads(K, t, ops, s)
  PROVE  s \in K
<1>1. Len(ops) \in 0 .. Len(ops)
  OBVIOUS
<1> QED
  BY <1>1 DEF Leads

LEMMA LeadsFrom ==
  ASSUME NEW K, NEW t, NEW ops \in Seq(FsOp), NEW s, Leads(K, t, ops, s)
  PROVE  t \in K
<1>1. 0 \in 0 .. Len(ops)
  OBVIOUS
<1> QED
  BY <1>1 DEF Leads

LEMMA TailType ==
  ASSUME NEW ops \in Seq(FsOp), ops # <<>>
  PROVE  Tail(ops) \in Seq(FsOp)
OBVIOUS

\* The sysroot is made, or there, unless a file is in its place.
LEMMA PlanBegins ==
  ASSUME NEW t \in Tree, WellFormed(t), NEW p \in Packages, NEW f,
         f = IF t[Sysroot].kind = "dir" THEN <<>> ELSE <<Op("MKDIR", Sysroot)>>
  PROVE  PlanLeads(t, f, <<>>, p, Claimed(p))
<1> DEFINE R == Claimed(p)
           K == Keeping(t, R \ R)
<1>1. Visited(p, R \ R, R) /\ R \ R = {} /\ Sysroot \in Paths
  BY PathsAssumption DEF Visited
<1>2. t \in K
  BY KeepingBegins
<1>3. t[Sysroot].kind \in {"missing", "file", "dir"}
      /\ (t[Sysroot].kind = "missing" <=> t[Sysroot] = Missing)
      /\ (t[Sysroot].kind = "dir" <=> t[Sysroot] = Directory)
  BY <1>1, NodeFields DEF Tree
<1> HIDE DEF K
<1>4. ASSUME NEW s \in K, WellFormed(s), Leads(K, t, f, s),
             \A x \in Paths : x # Sysroot => s[x] = t[x],
             t[Sysroot].kind # "file" => s[Sysroot] = Directory
      PROVE  PlanLeads(t, f, <<>>, p, R)
  <2>1. Leads(K, s, <<>>, s)
    BY <1>4, LeadsNowhere
  <2>2. ASSUME NEW r \in R, NEW x \in Paths, x = r \/ AtOrBelow(x, Save(r))
        PROVE  s[x] = t[x]
    <3>1. r \in Paths \ {Sysroot} /\ Save(r) \in Paths
      BY ClaimPaths
    <3>2. Save(r) # Sysroot
      <4>1. IsBelow(r, Front(r)) /\ Front(r) \in Paths
        BY <3>1, FrontAbove
      <4>2. IsBelow(Save(r), Front(r))
        BY <4>1, AboveSaved
      <4> QED
        BY <4>1, <4>2, <1>1, BelowIsCut, PathIsSequence DEF Sysroot
    <3>3. ~ IsBelow(Sysroot, Save(r))
      BY <1>1, <3>1, BelowIsCut, PathIsSequence DEF Sysroot
    <3>4. x # Sysroot
      BY <2>2, <3>1, <3>2, <3>3 DEF AtOrBelow
    <3> QED
      BY <1>4, <3>4
  <2>3. s \in Tree
    BY DEF K, Keeping
  <2>4. Simulated(s, t, p, R \ R, R)
    BY <1>4, <2>2, <2>3 DEF Simulated
  <2> QED
    BY <1>1, <1>4, <2>1, <2>4 DEF PlanLeads, K
<1>5. CASE t[Sysroot].kind = "dir"
  <2>1. Leads(K, t, f, t)
    BY <1>2, <1>5, LeadsNowhere
  <2> QED
    BY <1>2, <1>3, <1>4, <1>5, <2>1
<1>6. CASE t[Sysroot].kind # "dir"
  <2>1. PICK op \in FsOp : op = Op("MKDIR", Sysroot)
    BY <1>1 DEF FsOp, Op
  <2>2. f = <<op>>
    BY <1>6, <2>1
  <2>3. PICK s : s = MakeDir(t, Sysroot)
    OBVIOUS
  <2>4. Effect(t, op) = s
    BY <2>1, <2>3 DEF Effect, Op
  <2>5. /\ s \in Tree /\ WellFormed(s)
        /\ \A x \in Paths : x # Sysroot => s[x] = t[x]
        /\ \A x \in Paths : s[x] = t[x] \/ t[x] = Missing
        /\ t[Sysroot] = Missing => s[Sysroot] = Directory
    <3>1. s \in Tree /\ WellFormed(s)
      BY <1>1, <2>3, CallsType, CallsWellFormed, CrcsAssumption
    <3>2. /\ \A x \in Paths : x # Sysroot => s[x] = t[x]
          /\ \A x \in Paths : s[x] = t[x] \/ t[x] = Missing
          /\ t[Sysroot] = Missing => s[Sysroot] = Directory
      BY <1>1, <2>3 DEF MakeDir, HasParent, Tree
    <3> QED
      BY <3>1, <3>2
  <2>6. s \in K
    <3>1. R \ R \in SUBSET Claimed(p)
      OBVIOUS
    <3> QED
      BY <1>2, <2>5, <3>1, AdditionKeeps DEF K
  <2>7. Leads(K, t, f, s)
    BY <1>2, <2>2, <2>4, <2>6, LeadsByOne
  <2> QED
    BY <1>3, <1>4, <1>6, <2>5, <2>6, <2>7
<1> QED
  BY <1>5, <1>6

\* One claim after the other: V before q is visited, W after it.
PlanUpTo(t, f, k, p, q, R, V, W, m, s) ==
  /\ W = Claimed(p) \ (R \ {q}) /\ W = V \cup {q}
  /\ q \in R /\ q \in Claimed(p)
  /\ Visited(p, V, R) /\ Visited(p, W, R \ {q})
  /\ Keeping(t, V) \subseteq Keeping(t, W)
  /\ Leads(Keeping(t, W), t, f, m) /\ Leads(Keeping(t, W), m, k, s)
  /\ s \in Keeping(t, V) /\ Simulated(s, t, p, V, R)

LEMMA PlanGoesOn ==
  ASSUME NEW t \in Tree, NEW f \in Seq(FsOp), NEW k \in Seq(FsOp),
         NEW p \in Packages, NEW R, NEW q, FirstOf(q, R), PlanLeads(t, f, k, p, R)
  PROVE  \E V, W, m, s : PlanUpTo(t, f, k, p, q, R, V, W, m, s)
<1>1. Visited(p, Claimed(p) \ R, R)
  BY DEF PlanLeads
<1>2. q \in R /\ R \subseteq Claimed(p)
  BY <1>1 DEF Visited, FirstOf
<1>3. (Claimed(p) \ R) \cup {q} = Claimed(p) \ (R \ {q})
  BY <1>2
<1>4. PICK V : V = Claimed(p) \ R
  OBVIOUS
<1>5. PICK W : W = Claimed(p) \ (R \ {q})
  OBVIOUS
<1>6. Visited(p, V, R) /\ Visited(p, W, R \ {q})
  <2>1. Visited(p, V \cup {q}, R \ {q})
    BY <1>1, <1>4, NextClaim
  <2> QED
    BY <1>1, <1>3, <1>4, <1>5, <2>1
<1>7. PICK m, s : /\ Leads(Keeping(t, V), t, f, m)
                  /\ Leads(Keeping(t, V), m, k, s)
                  /\ Simulated(s, t, p, V, R)
  BY <1>4 DEF PlanLeads
<1>8. Keeping(t, V) \subseteq Keeping(t, W)
  <2>1. V \subseteq W
    BY <1>4, <1>5
  <2> QED
    BY <2>1, KeepingMore
<1>9. Leads(Keeping(t, W), t, f, m) /\ Leads(Keeping(t, W), m, k, s)
  BY <1>7, <1>8, LeadsWider
<1>10. s \in Keeping(t, V)
  BY <1>7, LeadsInto
<1>11. W = V \cup {q} /\ q \in Claimed(p)
  BY <1>2, <1>3, <1>4, <1>5
<1>12. PlanUpTo(t, f, k, p, q, R, V, W, m, s)
  BY <1>2, <1>5, <1>6, <1>7, <1>8, <1>9, <1>10, <1>11 DEF PlanUpTo
<1> QED
  BY <1>12

LEMMA PlanKept ==
  ASSUME NEW t \in Tree, NEW f \in Seq(FsOp), NEW k \in Seq(FsOp),
         NEW p \in Packages, NEW R, NEW q, FirstOf(q, R), PlanLeads(t, f, k, p, R),
         OnDisk(t, p, q)
  PROVE  PlanLeads(t, f, k, p, R \ {q})
<1>0. PICK V, W, m, s : PlanUpTo(t, f, k, p, q, R, V, W, m, s)
  BY PlanGoesOn
<1>1. /\ W = Claimed(p) \ (R \ {q}) /\ W = V \cup {q}
      /\ q \in R /\ q \in Claimed(p) /\ Visited(p, W, R \ {q})
      /\ Leads(Keeping(t, W), t, f, m) /\ Leads(Keeping(t, W), m, k, s)
      /\ Simulated(s, t, p, V, R)
  BY <1>0 DEF PlanUpTo
<1>2. Simulated(s, t, p, W, R \ {q})
  <2>1. q \in Paths
    BY <1>1, ClaimPaths
  <2>2. s[q] = t[q]
    BY <1>1, <2>1 DEF Simulated
  <2>3. OnDisk(s, p, q)
    BY <2>2 DEF OnDisk
  <2> QED
    BY <1>1, <2>3 DEF Simulated
<1> QED
  BY <1>1, <1>2 DEF PlanLeads

LEMMA PlanMissing ==
  ASSUME NEW t \in Tree, NEW f \in Seq(FsOp), NEW k \in Seq(FsOp),
         NEW p \in Packages, SavesApart(p),
         NEW R, NEW q, FirstOf(q, R), PlanLeads(t, f, k, p, R), t[q] = Missing
  PROVE  PlanLeads(t, f, Append(k, InstallOp(p, q)), p, R \ {q})
<1>0. PICK V, W, m, s : PlanUpTo(t, f, k, p, q, R, V, W, m, s)
  BY PlanGoesOn
<1>1. /\ W = Claimed(p) \ (R \ {q}) /\ W = V \cup {q}
      /\ q \in R /\ q \in Claimed(p) /\ Visited(p, V, R) /\ Visited(p, W, R \ {q})
      /\ Keeping(t, V) \subseteq Keeping(t, W)
      /\ Leads(Keeping(t, W), t, f, m) /\ Leads(Keeping(t, W), m, k, s)
      /\ s \in Keeping(t, V) /\ Simulated(s, t, p, V, R)
  BY <1>0 DEF PlanUpTo
<1>2. PICK s2 : /\ Leads(Keeping(t, V), s, <<InstallOp(p, q)>>, s2)
                /\ Simulated(s2, t, p, V \cup {q}, R \ {q})
  BY <1>1, InstallationLeads
<1>3. PICK K : K = Keeping(t, W)
  OBVIOUS
<1>4. PICK op \in FsOp : op = InstallOp(p, q)
  BY <1>1, PlannedOps
<1>5. PICK one \in Seq(FsOp) : one = <<op>>
  <2>1. <<op>> \in Seq(FsOp)
    OBVIOUS
  <2> QED
    BY <2>1
<1>6. Leads(K, s, one, s2)
  BY <1>1, <1>2, <1>3, <1>4, <1>5, LeadsWider
<1>7. Leads(K, m, k \o one, s2)
  BY <1>1, <1>3, <1>6, LeadsOn
<1>8. Append(k, op) = k \o one
  BY <1>5
<1> QED
  BY <1>1, <1>2, <1>3, <1>4, <1>7, <1>8 DEF PlanLeads

LEMMA PairIsConcat ==
  ASSUME NEW S, NEW a \in S, NEW b \in S
  PROVE  <<a>> \o <<b>> = <<a, b>>
<1>1. PICK s \in Seq(S), t \in Seq(S) : s = <<a>> /\ t = <<b>>
  <2>1. <<a>> \in Seq(S) /\ <<b>> \in Seq(S)
    OBVIOUS
  <2> QED
    BY <2>1
<1>2. Len(s) = 1 /\ s[1] = a /\ Len(t) = 1 /\ t[1] = b
  BY <1>1
<1>3. PICK u \in Seq(S) : u = <<a, b>>
  <2>1. <<a, b>> \in Seq(S)
    OBVIOUS
  <2> QED
    BY <2>1
<1>4. Len(u) = 2 /\ u[1] = a /\ u[2] = b
  BY <1>3
<1>5. s \o t \in Seq(S) /\ Len(s \o t) = 2 /\ (s \o t)[1] = a /\ (s \o t)[2] = b
  <2>1. /\ s \o t \in Seq(S) /\ Len(s \o t) = Len(s) + Len(t)
        /\ \A i \in 1 .. Len(s) + Len(t) :
             (s \o t)[i] = IF i <= Len(s) THEN s[i] ELSE t[i - Len(s)]
    BY ConcatProperties
  <2>2. 1 \in 1 .. Len(s) + Len(t) /\ 2 \in 1 .. Len(s) + Len(t) /\ ~ (2 <= Len(s)) /\ 1 <= Len(s) /\ 2 - Len(s) = 1
    BY <1>2
  <2> QED
    BY <1>2, <2>1, <2>2
<1>6. s \o t = u
  <2>1. \A i \in 1 .. 2 : i = 1 \/ i = 2
    OBVIOUS
  <2> QED
    BY <1>4, <1>5, <2>1, SeqEqual
<1> QED
  BY <1>1, <1>3, <1>6

LEMMA PlanDiverted ==
  ASSUME disk \in Tree, WellFormed(disk), NEW f \in Seq(FsOp), NEW k \in Seq(FsOp),
         NEW p \in Packages, SavesApart(p),
         NEW R, NEW q, FirstOf(q, R), PlanLeads(disk, f, k, p, R),
         disk[q] # Missing, ~ OnDisk(disk, p, q), NEW removals \in RmRf(Save(q))
  PROVE  PlanLeads(disk, f,
                   k \o removals \o <<RenameOp(q, Save(q)), InstallOp(p, q)>>, p, R \ {q})
<1>0. PICK V, W, m, s : PlanUpTo(disk, f, k, p, q, R, V, W, m, s)
  BY PlanGoesOn
<1>1. /\ W = Claimed(p) \ (R \ {q}) /\ W = V \cup {q}
      /\ q \in R /\ q \in Claimed(p) /\ Visited(p, V, R) /\ Visited(p, W, R \ {q})
      /\ Keeping(disk, V) \subseteq Keeping(disk, W)
      /\ Leads(Keeping(disk, W), disk, f, m) /\ Leads(Keeping(disk, W), m, k, s)
      /\ s \in Keeping(disk, V) /\ Simulated(s, disk, p, V, R)
  BY <1>0 DEF PlanUpTo
<1>2. PICK s1, s2, s3 :
        /\ Leads(Keeping(disk, V), s, removals, s1)
        /\ Leads(Keeping(disk, V \cup {q}), s1, <<RenameOp(q, Save(q))>>, s2)
        /\ Leads(Keeping(disk, V \cup {q}), s2, <<InstallOp(p, q)>>, s3)
        /\ Simulated(s3, disk, p, V \cup {q}, R \ {q})
  BY <1>1, DiversionLeads
<1>3. PICK K : K = Keeping(disk, W)
  OBVIOUS
<1>4. PICK op1 \in FsOp, op2 \in FsOp : op1 = RenameOp(q, Save(q)) /\ op2 = InstallOp(p, q)
  BY <1>1, PlannedOps
<1>5. PICK rm \in Seq(FsOp) : rm = removals
  BY <1>1, RmRfType, ClaimPaths
<1>6. PICK one \in Seq(FsOp), two \in Seq(FsOp) : one = <<op1>> /\ two = <<op2>>
  <2>1. <<op1>> \in Seq(FsOp) /\ <<op2>> \in Seq(FsOp)
    OBVIOUS
  <2> QED
    BY <2>1
<1>7. one \o two = <<op1, op2>> /\ one \o two \in Seq(FsOp) /\ k \o rm \in Seq(FsOp)
  <2>1. <<op1>> \o <<op2>> = <<op1, op2>>
    BY PairIsConcat
  <2>2. one \o two \in Seq(FsOp) /\ k \o rm \in Seq(FsOp)
    BY ConcatProperties
  <2> QED
    BY <1>6, <2>1, <2>2
<1>8. Leads(K, m, k \o rm, s1)
  <2>1. Leads(K, s, rm, s1)
    BY <1>1, <1>2, <1>3, <1>5, LeadsWider
  <2> QED
    BY <1>1, <1>3, <2>1, LeadsOn
<1>9. Leads(K, s1, one \o two, s3)
  <2>1. Leads(K, s1, one, s2) /\ Leads(K, s2, two, s3)
    BY <1>1, <1>2, <1>3, <1>4, <1>6
  <2> QED
    BY <2>1, LeadsOn
<1>10. Leads(K, m, (k \o rm) \o (one \o two), s3)
  BY <1>7, <1>8, <1>9, LeadsOn
<1>11. Leads(Keeping(disk, W), m,
             k \o removals \o <<RenameOp(q, Save(q)), InstallOp(p, q)>>, s3)
  BY <1>3, <1>4, <1>5, <1>7, <1>10
<1> QED
  BY <1>1, <1>2, <1>11 DEF PlanLeads

\* When every claim has been visited.
LEMMA PlanFinished ==
  ASSUME NEW t, NEW f \in Seq(FsOp), NEW k \in Seq(FsOp), NEW p \in Packages,
         PlanLeads(t, f, k, p, {})
  PROVE  PlanLeads(t, f \o k, <<>>, p, {})
<1>1. PICK V : V = Claimed(p) \ {}
  OBVIOUS
<1>2. PICK K : K = Keeping(t, V)
  OBVIOUS
<1>3. PICK m, s : Leads(K, t, f, m) /\ Leads(K, m, k, s) /\ Simulated(s, t, p, V, {})
  BY <1>1, <1>2 DEF PlanLeads
<1>4. Leads(K, t, f \o k, s)
  BY <1>3, LeadsOn
<1>5. s \in K
  BY <1>3, LeadsInto
<1>6. Leads(K, s, <<>>, s)
  BY <1>5, LeadsNowhere
<1> QED
  BY <1>1, <1>2, <1>3, <1>4, <1>6 DEF PlanLeads

LEMMA PlanIsWhole ==
  ASSUME NEW t, NEW f \in Seq(FsOp), NEW p \in Packages, PlanLeads(t, f, <<>>, p, {})
  PROVE  \E s : /\ Leads(Keeping(t, Claimed(p)), t, f, s)
                /\ t[Sysroot].kind # "file" => \A q \in Claimed(p) : OnDisk(s, p, q)
<1>1. Claimed(p) \ {} = Claimed(p)
  OBVIOUS
<1>2. PICK m, s : /\ Leads(Keeping(t, Claimed(p)), t, f, m)
                  /\ Leads(Keeping(t, Claimed(p)), m, <<>>, s)
                  /\ Simulated(s, t, p, Claimed(p), {})
  BY <1>1 DEF PlanLeads
<1>3. s = m
  BY <1>2, LeadsEnds
<1> QED
  BY <1>2, <1>3 DEF Simulated
(***************************************************************************)
(* FixRepairsOne and UserFilesKept.  As long as nothing fails, what a `fix` *)
(* of one package has planned leads, over trees that keep the user's files, *)
(* to a tree that has the claims it has visited; and once it executes, what *)
(* is left of its plan leads to a tree that has them all.  No directory is  *)
(* cleared, so no operation holds a path that has been freed.               *)
(***************************************************************************)
FixesOne(p) ==
  cmd.op = "fix" /\ cmd.targets = {p} /\ failed = {} /\ SavesApart(p) /\ SavesClear(p)

\* No operation holds a path that has been freed.
KeptOps == {op \in FsOp : op.kind # "RMDIR_FREED"}

PathsKept == fsops \in Seq(KeptOps) /\ pkfsops \in Seq(KeptOps)

Unvisited(p) == IF p \in todo THEN Claimed(p) ELSE remaining

Unplanned(p) ==
  /\ disk = start /\ p \in todo
  /\ fsops = <<>> /\ pkfsops = <<>> /\ statuses = NoStatuses

WillRepair(p) ==
  /\ disk = start /\ (pc = "plan" => p \notin todo)
  /\ shouldProceed /\ ~ shouldNotInstall =>
       /\ PlanLeads(start, fsops, pkfsops, p, Unvisited(p))
       /\ Settled(statuses, Unvisited(p))

Repairs(p) ==
  /\ disk \in Keeping(start, Claimed(p))
  /\ cmd.dryRun \/
       \E s : /\ Leads(Keeping(start, Claimed(p)), disk, fsops, s)
              /\ start[Sysroot].kind # "file" => \A q \in Claimed(p) : OnDisk(s, p, q)

HasRepaired(p) ==
  /\ disk \in Keeping(start, Claimed(p))
  /\ shouldProceed /\ ~ cmd.dryRun /\ start[Sysroot].kind # "file" => Repaired(p)

RepairStage(p) ==
  /\ pc \in {"index", "prepare"} => Unplanned(p)
  /\ pc \in {"choose", "plan"} => WillRepair(p)
  /\ pc = "execute" => Repairs(p)
  /\ pc = "done" => HasRepaired(p)

\* Nothing is refused before it is planned, and nothing is left of a command.
RefusesInPlan ==
  /\ shouldNotInstall => pc = "plan" /\ cmd.op = "fix"
  /\ pc = "idle" => ~ shouldProceed /\ cmd.op = "none"

RepairInv ==
  /\ FixInv /\ RefusesInPlan
  /\ \A p \in Packages : FixesOne(p) => RepairStage(p) /\ PathsKept

LEMMA RefusesNext ==
  ASSUME TypeOK, RefusesInPlan, [Next]_vars
  PROVE  RefusesInPlan'
<1>1. CASE UNCHANGED vars
  BY <1>1 DEF RefusesInPlan, vars
<1>2. CASE Rest
  BY <1>2 DEF RefusesInPlan, Rest, NoCommand
<1>3. ASSUME NEW op \in {"del", "fix"}, NEW targets \in SUBSET Packages,
             NEW dryRun \in BOOLEAN, Start(op, targets, dryRun)
      PROVE  RefusesInPlan'
  BY <1>3 DEF RefusesInPlan, Start
<1>4. CASE (Run \/ Crash) /\ ~ Rest
  <2>1. pc' # "idle" /\ cmd' = cmd
    BY <1>4, GoesOn
  <2>2. ASSUME UNCHANGED shouldNotInstall, pc = "plan" => pc' = "plan" \/ cmd.op # "fix"
        PROVE  RefusesInPlan'
    BY <2>1, <2>2 DEF RefusesInPlan, TypeOK
  <2>3. CASE BuildIndex \/ PrepareSysroot \/ FinishUninstall \/ Gate
             \/ \E p \in todo : RefusePackage(p) \/ BeginPackage(p)
    BY <2>2, <2>3 DEF BuildIndex, PrepareSysroot, FinishUninstall, Gate, RefusePackage,
       BeginPackage, planning
  <2>4. ASSUME NEW q \in remaining, NEW readable \in BOOLEAN,
               \/ InstallMissing(q, readable) \/ InstallKept(q) \/ InstallConflict(q)
               \/ InstallDivert(q) \/ InstallDivertFails(q)
        PROVE  RefusesInPlan'
    <3>1. pc' = "plan" /\ cmd.op = "fix"
      BY <2>4 DEF InstallMissing, InstallKept, InstallConflict, InstallDivert,
         InstallDivertFails, Visit
    <3> QED
      BY <2>1, <3>1 DEF RefusesInPlan
  <2>5. ASSUME NEW q \in remaining, NEW readable \in BOOLEAN,
               Uninstall(q) \/ UninstallLeaves(q, readable)
        PROVE  RefusesInPlan'
    BY <2>2, <2>5 DEF Uninstall, UninstallLeaves, Visit
  <2>6. CASE FinishInstall
    BY <2>1, <2>6 DEF FinishInstall, RefusesInPlan
  <2>7. CASE ExecuteOp \/ OpFails \/ FreedPathFails \/ FinishExecution
    BY <2>2, <2>7 DEF ExecuteOp, OpFails, FreedPathFails, FinishExecution, NextOp,
       planning
  <2>8. ~ (SysrootUnreadable \/ FreedPathAborts \/ Exit \/ Crash)
    BY <1>4 DEF SysrootUnreadable, FreedPathAborts, Exit, Crash
  <2> QED
    BY <1>4, <2>3, <2>4, <2>5, <2>6, <2>7, <2>8 DEF Run, Plan, Execute
<1> QED
  BY <1>1, <1>2, <1>3, <1>4 DEF Next

LEMMA InstallKeepsPaths ==
  ASSUME NEW p \in Packages, NEW q \in Claimed(p)
  PROVE  InstallOp(p, q) \in KeptOps /\ RenameOp(q, Save(q)) \in KeptOps
<1>1. /\ InstallOp(p, q).kind \in {"MKDIR", "CREATEFILE"}
      /\ RenameOp(q, Save(q)).kind = "RENAME"
  BY DEF InstallOp, RenameOp, Op, CreateFileOp
<1> QED
  BY <1>1, PlannedOps DEF KeptOps

\* rm_rf of a path where no directory is has at most a file to remove.
LEMMA RmRfKeepsPaths ==
  ASSUME disk \in Tree, WellFormed(disk), NEW r \in Paths, disk[r].kind # "dir",
         NEW removals \in RmRf(r)
  PROVE  removals \in Seq(KeptOps)
<1>1. removals \in Seq(FsOp)
  BY RmRfType
<1>2. PICK s \in RemovalOrders(r) :
      removals = [i \in DOMAIN s |->
                    IF disk[s[i]].kind = "dir" THEN Op("RMDIR_FREED", s[i])
                                               ELSE Op("REMOVEFILE", s[i])]
  BY DEF RmRf
<1>3. \A x \in Present(r) : disk[x].kind # "dir"
  <2> SUFFICES ASSUME NEW x \in Present(r), x # r PROVE FALSE
    OBVIOUS
  <2>1. x \in Paths /\ IsBelow(x, r) /\ disk[x] # Missing
    BY DEF Present
  <2>2. disk[x].kind # "missing"
    BY <2>1, NodeFields DEF Tree
  <2>3. disk[r] = Directory
    BY <2>1, <2>2, NodesLieInDirectories
  <2> QED
    BY <2>3 DEF Directory
<1>4. \A i \in DOMAIN s : s[i] \in Present(r)
  BY OrderFacts
<1>5. \A i \in DOMAIN removals : removals[i].kind # "RMDIR_FREED"
  BY <1>2, <1>3, <1>4 DEF Op
<1>6. \A i \in DOMAIN removals : removals[i] \in KeptOps
  BY <1>1, <1>5 DEF KeptOps
<1> QED
  BY <1>1, <1>6

LEMMA PathsKeptNext ==
  ASSUME RepairInv, Run \/ Crash, ~ Rest, NEW p \in Packages, FixesOne(p),
         RepairStage(p), PathsKept
  PROVE  PathsKept'
<1>0. PICK M : M = KeptOps
  OBVIOUS
<1>1. /\ fsops \in Seq(M) /\ pkfsops \in Seq(M)
      /\ fsops' \in Seq(M) /\ pkfsops' \in Seq(M) => PathsKept'
  BY <1>0 DEF PathsKept, KeptOps, FsOp
<1>2. CASE UNCHANGED <<fsops, pkfsops>>
  BY <1>1, <1>2
<1>3. CASE BuildIndex \/ Gate \/ FinishExecution
  BY <1>2, <1>3 DEF BuildIndex, Gate, FinishExecution, planning
<1>4. CASE PrepareSysroot
  <2>1. /\ UNCHANGED pkfsops
        /\ fsops' = fsops \/ fsops' = Append(fsops, Op("MKDIR", Sysroot))
    BY <1>4, Zenon DEF PrepareSysroot
  <2>2. Op("MKDIR", Sysroot) \in M
    BY <1>0, PathsAssumption DEF KeptOps, FsOp, Op
  <2> QED
    BY <1>1, <2>1, <2>2
<1>5. ASSUME NEW x \in todo, RefusePackage(x) \/ BeginPackage(x) PROVE PathsKept'
  BY <1>2, <1>5 DEF RefusePackage, BeginPackage
<1>6. ASSUME NEW q \in remaining, NEW readable \in BOOLEAN,
             \/ InstallMissing(q, readable) \/ InstallKept(q) \/ InstallConflict(q)
             \/ InstallDivert(q) \/ InstallDivertFails(q)
      PROVE  PathsKept'
  <2>1. UNCHANGED fsops /\ pc = "plan"
    BY <1>6 DEF InstallMissing, InstallKept, InstallConflict, InstallDivert,
       InstallDivertFails, Visit
  <2>2. /\ TypeOK /\ WellFormed(disk) /\ disk \in Tree /\ current = p
        /\ q \in Claimed(p) /\ Save(q) \in Paths /\ disk = start
    <3>1. TypeOK /\ WellFormed(disk) /\ disk \in Tree /\ current \in cmd.targets
      BY <2>1 DEF RepairInv, FixInv, DelInv, TreesWellFormed, TypeOK, PlansForTargets,
         FixesOne
    <3>2. current = p /\ disk = start
      BY <2>1, <3>1 DEF FixesOne, RepairStage, WillRepair
    <3> QED
      BY <2>1, <3>1, <3>2, AtClaim
  <2>3. InstallOp(current, q) \in M /\ RenameOp(q, Save(q)) \in M
    BY <1>0, <2>2, InstallKeepsPaths
  <2>4. CASE InstallDivert(q)
    <3>1. PICK removals \in RmRf(Save(q)) :
            pkfsops' = pkfsops \o removals \o DivertOps(q)
      BY <2>4 DEF InstallDivert
    <3>2. disk[Save(q)].kind # "dir"
      BY <2>2 DEF FixesOne, SavesClear
    <3>3. removals \in Seq(M)
      BY <1>0, <2>2, <3>2, RmRfKeepsPaths
    <3>4. DivertOps(q) \in Seq(M)
      BY <2>3 DEF DivertOps
    <3> QED
      BY <1>1, <2>1, <3>1, <3>3, <3>4
  <2>5. CASE InstallMissing(q, readable)
    BY <1>1, <2>1, <2>3, <2>5 DEF InstallMissing
  <2>6. CASE InstallKept(q) \/ InstallConflict(q) \/ InstallDivertFails(q)
    BY <1>2, <2>1, <2>6 DEF InstallKept, InstallConflict, InstallDivertFails
  <2> QED
    BY <1>6, <2>4, <2>5, <2>6
<1>7. CASE FinishInstall
  <2>1. pkfsops' = <<>> /\ (fsops' = fsops \/ fsops' = fsops \o pkfsops)
    BY <1>7 DEF FinishInstall
  <2>2. fsops \o pkfsops \in Seq(M) /\ <<>> \in Seq(M)
    BY <1>1
  <2> QED
    BY <1>1, <2>1, <2>2
<1>8. ASSUME NEW q \in remaining, NEW readable \in BOOLEAN,
             Uninstall(q) \/ UninstallLeaves(q, readable)
      PROVE  FALSE
  BY <1>8 DEF Uninstall, UninstallLeaves, Visit, FixesOne
<1>9. ~ FinishUninstall
  BY DEF FinishUninstall, FixesOne
<1>10. CASE ExecuteOp \/ OpFails \/ FreedPathFails
  <2>1. fsops # <<>> /\ fsops' = Tail(fsops) /\ pkfsops' = pkfsops
    BY <1>10 DEF ExecuteOp, OpFails, FreedPathFails, NextOp
  <2> QED
    BY <1>1, <2>1
<1>11. ~ (SysrootUnreadable \/ FreedPathAborts \/ Exit \/ Crash)
  BY DEF SysrootUnreadable, FreedPathAborts, Exit, Crash
<1> QED
  BY <1>3, <1>4, <1>5, <1>6, <1>7, <1>8, <1>9, <1>10, <1>11 DEF Run, Plan, Execute

LEMMA RepairStart ==
  ASSUME RepairInv, NEW op \in {"del", "fix"}, NEW targets \in SUBSET Packages,
         NEW dryRun \in BOOLEAN, Start(op, targets, dryRun),
         NEW p \in Packages, FixesOne(p)'
  PROVE  RepairStage(p)' /\ PathsKept'
<1>1. /\ pc = "idle" /\ pc' \in {"index", "done"}
      /\ fsops' = <<>> /\ pkfsops' = <<>> /\ statuses' = NoStatuses
      /\ disk' = disk /\ start' = disk' /\ cmd'.targets = targets
      /\ pc' = "index" /\ targets # {} => todo' = targets
      /\ pc' = "done" => shouldProceed' = shouldProceed
      /\ disk \in Tree
  BY DEF Start, RepairInv, FixInv, DelInv, NothingPlanned, TypeOK
<1>2. targets = {p} /\ ~ shouldProceed
  BY <1>1 DEF FixesOne, RepairInv, RefusesInPlan
<1>3. disk \in Keeping(disk, Claimed(p))
  BY <1>1, KeepingBegins
<1>4. disk' \in Keeping(start', Claimed(p))
  BY <1>1, <1>3
<1>5. Unplanned(p)' \/ pc' = "done"
  BY <1>1, <1>2 DEF Unplanned
<1>6. pc' = "done" => HasRepaired(p)'
  BY <1>1, <1>2, <1>4 DEF HasRepaired
<1>7. PathsKept'
  BY <1>1 DEF PathsKept
<1> QED
  BY <1>1, <1>5, <1>6, <1>7 DEF RepairStage

LEMMA ExistsObserved ==
  ASSUME NEW n
  PROVE  Observed(n).exists <=> n.kind # "missing"
BY Zenon DEF Observed

\* The sysroot.
LEMMA RepairPrepare ==
  ASSUME RepairInv, NEW p \in Packages, FixesOne(p), PrepareSysroot
  PROVE  RepairStage(p)'
<1>1. /\ TypeOK /\ WellFormed(disk) /\ disk \in Tree /\ pc = "prepare"
      /\ pc' = "choose" /\ UNCHANGED <<disk, start, todo, pkfsops>>
      /\ Unplanned(p)
  BY DEF RepairInv, FixInv, DelInv, TreesWellFormed, TypeOK, RepairStage, PrepareSysroot
<1>2. disk = start /\ p \in todo /\ fsops = <<>> /\ pkfsops = <<>> /\ statuses = NoStatuses
  BY <1>1 DEF Unplanned
<1>3. Sysroot \in Paths /\ statuses[Sysroot] = Unseen
  BY <1>2, PathsAssumption DEF NoStatuses
<1>4. PICK st : st = EnsureActual(statuses, disk, Sysroot, TRUE)
  OBVIOUS
<1>5. /\ st[Sysroot] = Observed(disk[Sysroot])
      /\ \A q \in Paths : q # Sysroot => st[q] = Unseen
      /\ st \in [Paths -> Status]
  <2>1. st \in [Paths -> Status]
    BY <1>1, <1>3, <1>4, StatusesType DEF TypeOK
  <2> QED
    BY <1>1, <1>2, <1>3, <1>4, <2>1 DEF EnsureActual, NoStatuses, Unseen, TypeOK
<1>6. disk[Sysroot].kind \in {"missing", "file", "dir"}
  BY <1>1, <1>3, NodeFields DEF Tree
<1>7. st[Sysroot].exists /\ st[Sysroot].isDir <=> disk[Sysroot].kind = "dir"
  <2>1. /\ Observed(disk[Sysroot]).exists <=> disk[Sysroot].kind # "missing"
        /\ Observed(disk[Sysroot]).isDir <=> disk[Sysroot].kind = "dir"
    BY Zenon DEF Observed
  <2>2. disk[Sysroot].kind = "dir" => disk[Sysroot].kind # "missing"
    OBVIOUS
  <2> QED
    BY ONLY <1>5, <2>1, <2>2, Zenon
<1>8. fsops' = IF disk[Sysroot].kind = "dir" THEN <<>> ELSE <<Op("MKDIR", Sysroot)>>
  <2>1. Append(<<>>, Op("MKDIR", Sysroot)) = <<Op("MKDIR", Sysroot)>>
    OBVIOUS
  <2>2. fsops' = IF st[Sysroot].exists /\ st[Sysroot].isDir THEN fsops
                                         ELSE Append(fsops, Op("MKDIR", Sysroot))
    BY <1>4 DEF PrepareSysroot
  <2> QED
    BY <1>2, <1>7, <2>1, <2>2
<1>9. \A q \in Paths : q # Sysroot => statuses'[q] = Unseen
  <2>1. statuses' = st \/ statuses' = EmitMkdir(st, Sysroot)
    BY <1>4 DEF PrepareSysroot
  <2> QED
    BY <1>3, <1>5, <2>1 DEF EmitMkdir
<1>10. PlanLeads(start', fsops', pkfsops', p, Claimed(p))
  <2>1. PlanLeads(disk, fsops', <<>>, p, Claimed(p))
    BY <1>1, <1>8, PlanBegins
  <2> QED
    BY <1>1, <1>2, <2>1
<1>11. Unvisited(p)' = Claimed(p)
  BY <1>1, <1>2 DEF Unvisited
<1>12. Settled(statuses, Claimed(p))'
  <2>1. Claimed(p) \subseteq Paths \ {Sysroot}
    BY ClaimsAssumption
  <2> QED
    BY <1>9, <2>1 DEF Settled, Unseen
<1>13. WillRepair(p)'
  BY <1>1, <1>2, <1>10, <1>11, <1>12 DEF WillRepair
<1> QED
  BY <1>1, <1>13 DEF RepairStage

\* An emitted operation leaves the statuses of other paths alone.
LEMMA InstallElsewhere ==
  ASSUME NEW st \in [Paths -> Status], NEW p, NEW q, NEW x \in Paths, x # q
  PROVE  EmitInstall(st, p, q)[x] = st[x]
BY DEF EmitInstall, EmitMkdir

LEMMA MvElsewhere ==
  ASSUME NEW st \in [Paths -> Status], NEW q, NEW to, NEW x \in Paths, x # q, x # to
  PROVE  EmitMv(st, q, to)[x] = st[x]
BY DEF EmitMv

\* A claim is visited.
LEMMA RepairVisit ==
  ASSUME RepairInv, NEW p \in Packages, FixesOne(p), failed' = {},
         NEW q \in remaining, NEW readable \in BOOLEAN,
         \/ InstallMissing(q, readable) \/ InstallKept(q) \/ InstallConflict(q)
         \/ InstallDivert(q) \/ InstallDivertFails(q)
  PROVE  RepairStage(p)'
<1>1. /\ pc = "plan" /\ remaining' = remaining \ {q} /\ IsNext(q)
      /\ UNCHANGED <<disk, start, pc, todo, fsops, shouldProceed>>
  BY DEF InstallMissing, InstallKept, InstallConflict, InstallDivert,
     InstallDivertFails, Visit
<1>2. /\ TypeOK /\ WellFormed(disk) /\ disk \in Tree /\ current \in cmd.targets
      /\ fsops \in Seq(FsOp) /\ pkfsops \in Seq(FsOp) /\ WillRepair(p)
  BY <1>1 DEF RepairInv, FixInv, DelInv, TreesWellFormed, TypeOK, RepairStage,
     PlansForTargets, FixesOne
<1>3. /\ current = p /\ disk = start /\ p \notin todo
      /\ cmd.op = "fix" /\ SavesApart(p)
  BY <1>1, <1>2 DEF WillRepair, FixesOne
<1>4. Unvisited(p) = remaining /\ Unvisited(p)' = remaining \ {q}
  BY <1>1, <1>3 DEF Unvisited
<1>5. FirstOf(q, remaining)
  BY <1>1, <1>3 DEF IsNext, FirstOf
<1>6. /\ q \in Claimed(p) /\ q \in Paths /\ Save(q) \in Paths /\ remaining \subseteq Claimed(p)
      /\ remaining \in SUBSET Paths
  BY <1>1, <1>2, <1>3, AtClaim, ClaimsAssumption DEF TypeOK
<1>7. ASSUME shouldProceed' /\ ~ shouldNotInstall' =>
               /\ PlanLeads(disk, fsops, pkfsops', p, remaining \ {q})
               /\ Settled(statuses', remaining \ {q})
      PROVE  RepairStage(p)'
  <2>1. shouldProceed' /\ ~ shouldNotInstall' =>
          /\ PlanLeads(start', fsops', pkfsops', p, Unvisited(p)')
          /\ Settled(statuses, Unvisited(p))'
    BY <1>1, <1>3, <1>4, <1>7 DEF Settled
  <2>2. WillRepair(p)'
    BY <1>1, <1>3, <2>1 DEF WillRepair
  <2> QED
    BY <1>1, <2>2 DEF RepairStage
<1>8. CASE InstallConflict(q) \/ InstallDivertFails(q)
  BY <1>7, <1>8 DEF InstallConflict, InstallDivertFails
<1>9. CASE ~ shouldProceed \/ shouldNotInstall'
  BY <1>1, <1>7, <1>9
<1> SUFFICES ASSUME ~ (InstallConflict(q) \/ InstallDivertFails(q)),
                    shouldProceed, ~ shouldNotInstall'
             PROVE  RepairStage(p)'
  BY <1>8, <1>9
<1>10. UNCHANGED shouldNotInstall
  BY DEF InstallMissing, InstallKept, InstallDivert
<1>11. PlanLeads(disk, fsops, pkfsops, p, remaining) /\ Settled(statuses, remaining)
  BY <1>2, <1>3, <1>4, <1>10 DEF WillRepair
<1>12. PICK st \in [Paths -> Status] : st = Look(q, TRUE)
  BY <1>1, <1>2, AtClaim
<1>13. Settled(st, remaining) /\ st[q] = Observed(disk[q])
  BY <1>2, <1>6, <1>11, <1>12, SettledLook
<1>14. Settled(EmitInstall(st, p, q), remaining \ {q})
  <2>1. ASSUME NEW r \in remaining \ {q} PROVE EmitInstall(st, p, q)[r] = st[r]
    <3>1. r \in Paths /\ r # q
      BY <1>6
    <3> QED
      BY <3>1 DEF EmitInstall, EmitMkdir
  <2> QED
    BY <1>13, <2>1 DEF Settled
<1>15. ~ ReadFault
  BY DEF ReadFault
<1>16. CASE InstallMissing(q, readable)
  <2>1. readable = TRUE
    BY <1>15, <1>16 DEF InstallMissing, Visit
  <2>2. /\ ~ st[q].exists
        /\ pkfsops' = Append(pkfsops, InstallOp(p, q))
        /\ statuses' = EmitInstall(st, p, q)
    BY <1>3, <1>12, <1>16, <2>1 DEF InstallMissing
  <2>3. disk[q] = Missing
    <3>1. disk[q].kind = "missing"
      BY <1>13, <2>2, ExistsObserved
    <3> QED
      BY <1>2, <1>6, <3>1, NodeFields DEF Tree
  <2>4. PlanLeads(disk, fsops, pkfsops', p, remaining \ {q})
    BY <1>2, <1>3, <1>5, <1>11, <2>2, <2>3, PlanMissing
  <2> QED
    BY <1>7, <1>14, <2>2, <2>4
<1>17. CASE InstallKept(q)
  <2>1. MatchesUs(st, p, q) /\ statuses' = st /\ pkfsops' = pkfsops
    BY <1>3, <1>12, <1>17 DEF InstallKept
  <2>2. OnDisk(disk, p, q)
    BY <1>2, <1>6, <1>13, <2>1, MatchesOnDisk DEF MatchesUs
  <2>3. PlanLeads(disk, fsops, pkfsops', p, remaining \ {q})
    BY <1>2, <1>5, <1>11, <2>1, <2>2, PlanKept
  <2>4. Settled(statuses', remaining \ {q})
    BY <1>13, <2>1 DEF Settled
  <2> QED
    BY <1>7, <2>3, <2>4
<1>18. CASE InstallDivert(q)
  <2>1. PICK cleared : cleared = EmitGone(st, Present(Save(q)))
    OBVIOUS
  <2>2. /\ st[q].exists /\ ~ MatchesUs(st, p, q)
        /\ \E removals \in RmRf(Save(q)) : pkfsops' = pkfsops \o removals \o DivertOps(q)
        /\ statuses' = EmitInstall(EmitMv(cleared, q, Save(q)), p, q)
    BY <1>3, <1>12, <1>18, <2>1 DEF InstallDivert, Diverted
  <2>3. disk[q] # Missing
    <3>1. Observed(disk[q]).exists
      BY <1>13, <2>2
    <3>2. disk[q].kind # "missing"
      BY <3>1, ExistsObserved
    <3> QED
      BY <3>2 DEF Missing
  <2>4. ~ OnDisk(disk, p, q)
    BY <1>13, <2>2, OnDiskMatches DEF MatchesUs
  <2>5. PICK removals \in RmRf(Save(q)) :
          pkfsops' = pkfsops \o removals \o <<RenameOp(q, Save(q)), InstallOp(p, q)>>
    BY <1>3, <2>2 DEF DivertOps
  <2>6. PlanLeads(disk, fsops, pkfsops', p, remaining \ {q})
    BY <1>2, <1>3, <1>5, <1>11, <2>3, <2>4, <2>5, PlanDiverted
  <2>7. Settled(statuses', remaining \ {q})
    <3>1. cleared \in [Paths -> Status]
      BY <1>6, <1>12, <2>1, StatusesType, <1>2
    <3>2. EmitMv(cleared, q, Save(q)) \in [Paths -> Status]
      BY <1>2, <1>6, <3>1, StatusesType
    <3>3. ASSUME NEW r \in remaining \ {q} PROVE statuses'[r] = st[r]
      <4>1. r \in Paths /\ r # q /\ ~ AtOrBelow(r, Save(q))
        BY <1>3, <1>6, <3>3, ClaimsElsewhere
      <4>2. r \notin Present(Save(q)) /\ r # Save(q)
        BY <4>1 DEF Present, AtOrBelow
      <4>3. cleared[r] = st[r]
        BY <2>1, <4>1, <4>2 DEF EmitGone
      <4>4. EmitMv(cleared, q, Save(q))[r] = cleared[r]
        BY <1>6, <3>1, <4>1, <4>2, MvElsewhere
      <4>5. statuses'[r] = EmitMv(cleared, q, Save(q))[r]
        BY <1>6, <2>2, <3>2, <4>1, InstallElsewhere
      <4> QED
        BY <4>3, <4>4, <4>5
    <3> QED
      BY <1>13, <3>3 DEF Settled
  <2> QED
    BY <1>7, <2>6, <2>7
<1> QED
  BY <1>16, <1>17, <1>18

\* An operation that executes, or is passed over in a dry run.
LEMMA RepairExecute ==
  ASSUME RepairInv, NEW p \in Packages, FixesOne(p), ExecuteOp
  PROVE  RepairStage(p)'
<1>1. /\ TypeOK /\ pc = "execute" /\ pc' = "execute" /\ fsops # <<>> /\ fsops \in Seq(FsOp)
      /\ fsops' = Tail(fsops) /\ UNCHANGED <<start, cmd, shouldProceed>>
      /\ Repairs(p)
  BY DEF RepairInv, FixInv, DelInv, TypeOK, RepairStage, ExecuteOp, NextOp
<1>2. CASE cmd.dryRun
  <2>1. disk' = disk
    BY <1>2 DEF ExecuteOp, persistent
  <2> QED
    BY <1>1, <1>2, <2>1 DEF RepairStage, Repairs
<1>3. CASE ~ cmd.dryRun
  <2>1. disk' = Effect(disk, Head(fsops))
    BY <1>3 DEF ExecuteOp
  <2>2. PICK K : K = Keeping(start, Claimed(p))
    OBVIOUS
  <2>3. PICK s : /\ Leads(K, disk, fsops, s)
                 /\ start[Sysroot].kind # "file" => \A q \in Claimed(p) : OnDisk(s, p, q)
    BY <1>1, <1>3, <2>2 DEF Repairs
  <2>4. Leads(K, disk', fsops', s)
    BY <1>1, <2>1, <2>3, LeadsAfter
  <2>5. disk' \in K
    BY <1>1, <2>4, LeadsFrom, TailType
  <2> QED
    BY <1>1, <2>2, <2>3, <2>4, <2>5 DEF RepairStage, Repairs
<1> QED
  BY <1>2, <1>3

\* The end of the plan of p, of the planning, and of the execution.
LEMMA RepairEnds ==
  ASSUME RepairInv, NEW p \in Packages, FixesOne(p),
         FinishInstall \/ Gate \/ FinishExecution
  PROVE  RepairStage(p)'
<1>1. /\ TypeOK /\ disk \in Tree /\ fsops \in Seq(FsOp) /\ pkfsops \in Seq(FsOp)
      /\ (pc # "plan" => pkfsops = <<>> /\ remaining = {} /\ ~ shouldNotInstall)
      /\ todo \subseteq {p} /\ RepairStage(p)
  BY DEF RepairInv, FixInv, DelInv, NothingPlanned, PlansForTargets, RefusesInPlan,
     TypeOK, FixesOne
<1>2. UNCHANGED <<disk, start, cmd, todo, remaining>>
  BY DEF FinishInstall, Gate, FinishExecution, planning
<1>3. CASE FinishInstall
  <2>1. /\ pc = "plan" /\ pc' = "choose" /\ remaining = {} /\ pkfsops' = <<>>
        /\ UNCHANGED statuses /\ WillRepair(p)
    BY <1>1, <1>3 DEF FinishInstall, RepairStage
  <2>2. Unvisited(p) = {} /\ Unvisited(p)' = {}
    BY <1>2, <2>1 DEF Unvisited, WillRepair
  <2>3. shouldProceed' /\ ~ shouldNotInstall' =>
          PlanLeads(start', fsops', pkfsops', p, {})
    <3> SUFFICES ASSUME shouldProceed' PROVE PlanLeads(start', fsops', pkfsops', p, {})
      OBVIOUS
    <3>1. ~ shouldNotInstall /\ shouldProceed /\ fsops' = fsops \o pkfsops
      BY <1>3 DEF FinishInstall
    <3>2. PlanLeads(start, fsops, pkfsops, p, {})
      BY <2>1, <2>2, <3>1 DEF WillRepair
    <3> QED
      BY <1>1, <1>2, <2>1, <3>1, <3>2, PlanFinished
  <2>4. Settled(statuses, Unvisited(p))'
    BY <2>2 DEF Settled
  <2>5. disk' = start'
    BY <1>2, <2>1 DEF WillRepair
  <2> QED
    BY <2>1, <2>2, <2>3, <2>4, <2>5 DEF WillRepair, RepairStage
<1>4. CASE Gate
  <2>1. /\ pc = "choose" /\ todo = {} /\ WillRepair(p)
        /\ pc' = IF shouldProceed THEN "execute" ELSE "done"
        /\ UNCHANGED <<fsops, shouldProceed>>
    BY <1>1, <1>4 DEF Gate, RepairStage, planning
  <2>2. disk = start /\ disk \in Keeping(start, Claimed(p))
    BY <1>1, <2>1, KeepingBegins DEF WillRepair
  <2>3. CASE ~ shouldProceed
    BY <1>2, <2>1, <2>2, <2>3 DEF RepairStage, HasRepaired
  <2>4. CASE shouldProceed
    <3>1. PlanLeads(disk, fsops, <<>>, p, {})
      BY <1>1, <2>1, <2>2, <2>4 DEF WillRepair, Unvisited
    <3>2. \E s : /\ Leads(Keeping(disk, Claimed(p)), disk, fsops, s)
                 /\ disk[Sysroot].kind # "file" => \A q \in Claimed(p) : OnDisk(s, p, q)
      BY <1>1, <3>1, PlanIsWhole
    <3>3. Repairs(p)
      BY <2>2, <3>2 DEF Repairs
    <3>4. Repairs(p)'
      BY <1>2, <2>1, <3>3 DEF Repairs
    <3> QED
      BY <2>1, <2>4, <3>4 DEF RepairStage
  <2> QED
    BY <2>3, <2>4
<1>5. CASE FinishExecution
  <2>1. /\ pc = "execute" /\ pc' = "done" /\ fsops = <<>> /\ UNCHANGED shouldProceed
        /\ Repairs(p)
    BY <1>1, <1>5 DEF FinishExecution, RepairStage, planning
  <2>2. ~ cmd.dryRun /\ start[Sysroot].kind # "file" => Repaired(p)
    <3> SUFFICES ASSUME ~ cmd.dryRun, start[Sysroot].kind # "file" PROVE Repaired(p)
      OBVIOUS
    <3>1. PICK s : /\ Leads(Keeping(start, Claimed(p)), disk, <<>>, s)
                   /\ \A q \in Claimed(p) : OnDisk(s, p, q)
      BY <2>1 DEF Repairs
    <3>2. s = disk
      BY <3>1, LeadsEnds
    <3> QED
      BY <3>1, <3>2 DEF Repaired
  <2>3. HasRepaired(p)
    BY <2>1, <2>2 DEF HasRepaired, Repairs
  <2>4. HasRepaired(p)'
    BY <1>2, <2>1, <2>3 DEF HasRepaired, Repaired
  <2> QED
    BY <2>1, <2>4 DEF RepairStage
<1> QED
  BY <1>3, <1>4, <1>5

LEMMA RepairRun ==
  ASSUME RepairInv, Run \/ Crash, ~ Rest, NEW p \in Packages, FixesOne(p)'
  PROVE  RepairStage(p)' /\ PathsKept'
<1>1. /\ TypeOK /\ UNCHANGED <<cmd, start>> /\ failed' = {} /\ failed = {}
  BY GoesOn DEF RepairInv, FixInv, DelInv, FixesOne
<1>2. FixesOne(p) /\ RepairStage(p) /\ cmd.op = "fix" /\ todo \subseteq {p}
  BY <1>1 DEF FixesOne, SavesClear, RepairInv, FixInv, PlansForTargets
<1>0. PathsKept
  BY <1>2 DEF RepairInv
<1> SUFFICES RepairStage(p)'
  BY <1>0, <1>2, PathsKeptNext
<1>3. ~ ReadFault /\ ~ (\E q \in remaining : InstallDivertFails(q))
  BY <1>1 DEF ReadFault, InstallDivertFails
<1>4. CASE BuildIndex
  <2>1. /\ pc = "index" /\ pc' = "prepare"
        /\ UNCHANGED <<disk, start, todo, fsops, pkfsops, statuses>>
    BY <1>2, <1>4 DEF BuildIndex
  <2> QED
    BY <1>2, <2>1 DEF RepairStage, Unplanned
<1>5. CASE PrepareSysroot
  BY <1>2, <1>5, RepairPrepare
<1>6. ASSUME NEW r \in todo, RefusePackage(r) PROVE RepairStage(p)'
  <2>1. /\ pc = "choose" /\ pc' = "choose" /\ shouldProceed' = FALSE
        /\ UNCHANGED <<disk, start>>
    BY <1>6 DEF RefusePackage
  <2> QED
    BY <1>2, <2>1 DEF RepairStage, WillRepair
<1>7. ASSUME NEW r \in todo, BeginPackage(r) PROVE RepairStage(p)'
  <2>1. r = p /\ todo = {p}
    BY <1>2, <1>7
  <2>2. /\ pc = "choose" /\ pc' = "plan" /\ todo' = {} /\ remaining' = Claimed(p)
        /\ UNCHANGED <<disk, start, fsops, pkfsops, statuses, shouldProceed, shouldNotInstall>>
    BY <1>7, <2>1 DEF BeginPackage
  <2>3. Unvisited(p) = Claimed(p) /\ Unvisited(p)' = Claimed(p)
    BY <2>1, <2>2 DEF Unvisited
  <2>4. WillRepair(p)
    BY <1>2, <2>2 DEF RepairStage
  <2>5. WillRepair(p)'
    BY <2>2, <2>3, <2>4 DEF WillRepair, Settled
  <2> QED
    BY <2>2, <2>5 DEF RepairStage
<1>8. ASSUME NEW q \in remaining, NEW readable \in BOOLEAN,
             \/ InstallMissing(q, readable) \/ InstallKept(q) \/ InstallConflict(q)
             \/ InstallDivert(q) \/ InstallDivertFails(q)
      PROVE  RepairStage(p)'
  BY <1>1, <1>2, <1>8, RepairVisit
<1>9. ASSUME NEW q \in remaining, NEW readable \in BOOLEAN,
             Uninstall(q) \/ UninstallLeaves(q, readable)
      PROVE  FALSE
  BY <1>2, <1>9 DEF Uninstall, UninstallLeaves, Visit
<1>10. ~ FinishUninstall /\ ~ OpFails /\ ~ FreedPathFails
  <2>1. ~ FinishUninstall /\ ~ OpFails
    BY <1>1, <1>2 DEF FinishUninstall, OpFails
  <2>2. fsops # <<>> => Head(fsops) \in KeptOps
    BY <1>0 DEF PathsKept
  <2> QED
    BY <2>1, <2>2 DEF FreedPathFails, NextOp, KeptOps
<1>11. CASE ExecuteOp
  BY <1>2, <1>11, RepairExecute
<1>12. CASE FinishInstall \/ Gate \/ FinishExecution
  BY <1>2, <1>12, RepairEnds
<1>13. ~ (SysrootUnreadable \/ FreedPathAborts \/ Exit \/ Crash)
  BY DEF SysrootUnreadable, FreedPathAborts, Exit, Crash
<1> QED
  BY <1>4, <1>5, <1>6, <1>7, <1>8, <1>9, <1>10, <1>11, <1>12, <1>13
     DEF Run, Plan, Execute

LEMMA RepairNext == RepairInv /\ [Next]_vars => RepairInv'
<1> SUFFICES ASSUME RepairInv, [Next]_vars PROVE RepairInv'
  OBVIOUS
<1>1. FixInv' /\ RefusesInPlan'
  BY FixNext, RefusesNext DEF RepairInv, FixInv, DelInv
<1> SUFFICES ASSUME NEW p \in Packages, FixesOne(p)'
             PROVE  RepairStage(p)' /\ PathsKept'
  BY <1>1 DEF RepairInv
<1>2. CASE Rest
  BY <1>2 DEF Rest, FixesOne, NoCommand
<1>3. ASSUME NEW op \in {"del", "fix"}, NEW targets \in SUBSET Packages,
             NEW dryRun \in BOOLEAN, Start(op, targets, dryRun)
      PROVE  RepairStage(p)' /\ PathsKept'
  BY <1>3, RepairStart
<1>4. CASE (Run \/ Crash) /\ ~ Rest
  BY <1>4, RepairRun
<1>5. CASE UNCHANGED vars
  <2>1. FixesOne(p) /\ RepairStage(p) /\ PathsKept
    BY <1>5 DEF vars, FixesOne, SavesClear, RepairInv
  <2> QED
    BY <1>5, <2>1 DEF vars, RepairStage, Unplanned, WillRepair, Unvisited, Repairs,
       HasRepaired, Repaired, Settled, PathsKept
<1> QED
  BY <1>2, <1>3, <1>4, <1>5 DEF Next

LEMMA RepairInit == Init => RepairInv
<1> SUFFICES ASSUME Init PROVE RepairInv
  OBVIOUS
<1>1. FixInv
  BY FixInit
<1>2. cmd.op = "none" /\ ~ shouldNotInstall /\ ~ shouldProceed
  BY DEF Init, NoCommand
<1> QED
  BY <1>1, <1>2 DEF RepairInv, RefusesInPlan, FixesOne

\* A `fix` of one package that is not refused, that nothing disturbs and that
\* finds no directory where it saves, leaves every claim of the package on the
\* disk as in the zip (main.c:197).
THEOREM FixRepairsOneCorrect == Spec => []FixRepairsOne
<1>1. RepairInv => FixRepairsOne
  <2> SUFFICES ASSUME RepairInv, Undisturbed, cmd.op = "fix",
                      start[Sysroot].kind # "file",
                      NEW p \in Packages, cmd.targets = {p}, SavesApart(p),
                      SavesClear(p)
               PROVE  Repaired(p)
    BY DEF FixRepairsOne
  <2>1. FixesOne(p) /\ pc = "done" /\ shouldProceed /\ ~ cmd.dryRun
    BY DEF Undisturbed, FixesOne
  <2>2. HasRepaired(p)
    BY <2>1 DEF RepairInv, RepairStage
  <2> QED
    BY <2>1, <2>2 DEF HasRepaired
<1> QED
  BY <1>1, RepairInit, RepairNext, PTL DEF Spec

\* At every step of a `fix` of one package that can read and write all it has
\* to, and finds no directory where it saves, each file of the user is where it
\* was or under the .zpksave name it was diverted to (fsops.c:653-669).
THEOREM UserFilesKeptCorrect == Spec => []UserFilesKept
<1>1. RepairInv => UserFilesKept
  <2> SUFFICES ASSUME RepairInv, cmd.op = "fix", failed = {},
                      NEW p \in Packages, cmd.targets = {p}, SavesApart(p),
                      SavesClear(p), NEW q \in Paths, IsUsers(q)
               PROVE  KeptOrSaved(q)
    BY DEF UserFilesKept, UserFilesSaved
  <2>1. FixesOne(p) /\ start \in Tree
    BY DEF FixesOne, RepairInv, FixInv, DelInv, TypeOK
  <2>2. disk \in Keeping(start, Claimed(p))
    <3>1. pc \in {"index", "prepare", "choose", "plan", "execute", "done"}
      BY DEF RepairInv, RefusesInPlan, FixInv, DelInv, TypeOK
    <3>2. disk = start \/ disk \in Keeping(start, Claimed(p))
      BY <2>1, <3>1 DEF RepairInv, RepairStage, Unplanned, WillRepair, Repairs,
         HasRepaired
    <3> QED
      BY <2>1, <3>2, KeepingBegins
  <2>3. q \in Users(start)
    BY DEF IsUsers, Users
  <2>4. KeptIn(disk, start, Claimed(p), q)
    BY <2>2, <2>3 DEF Keeping
  <2> QED
    BY <2>4 DEF KeptIn, KeptOrSaved, AtOrBelow
<1> QED
  BY <1>1, RepairInit, RepairNext, PTL DEF Spec
=============================================================================
