-------------------------- MODULE FileClaimsProofs --------------------------
(***************************************************************************)
(* The claims of a zip form a tree of directories with files as leaves, for *)
(* every zip, by the invariant ClaimsInv: while an entry is being claimed,  *)
(* the parents dealt with are claimed as directories.                       *)
(***************************************************************************)
EXTENDS FileClaims, FileTreeProofs

ParentsClaimed ==
  zip # <<>> /\ position < Len(current.path) =>
    \A k \in 1 .. position :
      LET p == SubSeq(current.path, 1, k) IN
      p \in DOMAIN claims /\ claims[p].isDir

ClaimsInv == TypeOK /\ ClaimsAreTree /\ ParentsClaimed

\* The prefixes of a path are paths, and Front takes one to the next shorter.
LEMMA PathPrefixes ==
  ASSUME NEW q \in Names, NEW k \in 1 .. Len(q)
  PROVE  /\ SubSeq(q, 1, k) \in Names
         /\ Len(SubSeq(q, 1, k)) = k
         /\ Front(SubSeq(q, 1, k)) = SubSeq(q, 1, k - 1)
<1>1. q \in Paths /\ k \in 0 .. Len(q) /\ k > 0
  BY DEF Names
<1> QED
  BY <1>1, PathAbove DEF Names

\* Insert adds at most one claim, and changes none.
LEMMA InsertAdds ==
  ASSUME NEW path, NEW claim, Insert(path, claim)
  PROVE  /\ DOMAIN claims' = DOMAIN claims \cup {path}
         /\ \A q \in DOMAIN claims : claims'[q] = claims[q]
         /\ path \notin DOMAIN claims => claims'[path] = claim
BY DEF Insert

\* Where a claim is being inserted, what holds it is a claimed directory.
LEMMA AtComponent ==
  ASSUME ClaimsInv, ~ Idle
  PROVE  /\ current \in Entry /\ current.path \in Names
         /\ position + 1 \in 1 .. Len(current.path)
         /\ Component \in Names
         /\ Front(Component) # Sysroot =>
              /\ Front(Component) \in DOMAIN claims
              /\ claims[Front(Component)].isDir
<1>1. zip # <<>> /\ position < Len(current.path) /\ position \in Nat
  <2>1. current \in Entry
    BY DEF Idle, current, ClaimsInv, TypeOK
  <2>2. Len(current.path) \in Nat
    BY <2>1, PathsAssumption DEF Entry, Names
  <2> QED
    BY <2>2 DEF Idle, ClaimsInv, TypeOK
<1>2. current \in Entry /\ current.path \in Names /\ Len(current.path) \in Nat
  <2>1. current \in Entry
    BY <1>1 DEF current, ClaimsInv, TypeOK
  <2> QED
    BY <2>1, PathsAssumption DEF Entry, Names
<1>3. position + 1 \in 1 .. Len(current.path)
  BY <1>1, <1>2
<1>4. /\ Component \in Names
      /\ Front(Component) = SubSeq(current.path, 1, position)
  BY <1>1, <1>2, <1>3, PathPrefixes DEF Component
<1>5. ASSUME Front(Component) # Sysroot
      PROVE  /\ Front(Component) \in DOMAIN claims
             /\ claims[Front(Component)].isDir
  <2>1. position # 0
    <3>1. current.path \in Seq(PathNames)
      BY <1>2, PathsAssumption DEF Names, PathNames
    <3>2. SubSeq(current.path, 1, 0) = <<>>
      BY <3>1
    <3> QED
      BY <1>4, <1>5, <3>2 DEF Sysroot
  <2>2. position \in 1 .. position
    BY <1>1, <2>1
  <2> QED
    BY <1>1, <1>4, <2>2 DEF ClaimsInv, ParentsClaimed
<1> QED
  BY <1>2, <1>3, <1>4, <1>5

\* An insertion keeps the tree, when the claim is a directory wherever
\* something claimed lies below it, which is so of a path not claimed before.
LEMMA InsertKeepsTree ==
  ASSUME ClaimsInv, ~ Idle, NEW claim \in Claim, Insert(Component, claim)
  PROVE  /\ DOMAIN claims' \subseteq Names
         /\ \A q \in DOMAIN claims' : claims'[q] \in Claim
         /\ ClaimsAreTree'
<1>1. /\ DOMAIN claims' = DOMAIN claims \cup {Component}
      /\ \A q \in DOMAIN claims : claims'[q] = claims[q]
      /\ Component \notin DOMAIN claims => claims'[Component] = claim
  BY InsertAdds
<1>2. /\ Component \in Names
      /\ Front(Component) # Sysroot =>
           Front(Component) \in DOMAIN claims /\ claims[Front(Component)].isDir
  BY AtComponent
<1>3. /\ DOMAIN claims \subseteq Names
      /\ \A q \in DOMAIN claims : claims[q] \in Claim
      /\ \A q \in DOMAIN claims : Front(q) # Sysroot =>
           Front(q) \in DOMAIN claims /\ claims[Front(q)].isDir
  BY DEF ClaimsInv, TypeOK, ClaimsAreTree
<1>4. ASSUME NEW q \in DOMAIN claims', Front(q) # Sysroot
      PROVE  Front(q) \in DOMAIN claims' /\ claims'[Front(q)].isDir
  <2>1. Front(q) \in DOMAIN claims /\ claims[Front(q)].isDir
    BY <1>1, <1>2, <1>3, <1>4
  <2> QED
    BY <1>1, <2>1
<1>5. ClaimsAreTree'
  BY <1>4 DEF ClaimsAreTree
<1> QED
  BY <1>1, <1>2, <1>3, <1>5

LEMMA OwnClaims ==
  ASSUME ClaimsInv, ~ Idle
  PROVE  OwnClaim \in Claim /\ ImpliedDir \in Claim
<1>1. current \in Entry /\ Len(zip) \in Nat
  BY AtComponent DEF ClaimsInv, TypeOK
<1>2. current.isDir \in BOOLEAN /\ current.crc \in Crcs
  BY <1>1 DEF Entry
<1> QED
  BY <1>1, <1>2, CrcsAssumption DEF OwnClaim, ImpliedDir, Claim

LEMMA ReadKeeps ==
  ASSUME ClaimsInv, NEW e \in Entry, ReadEntry(e)
  PROVE  ClaimsInv'
<1>1. /\ zip \in Seq(Entry) /\ zip' = Append(zip, e) /\ UNCHANGED claims
      /\ e.path \in Names /\ Len(e.path) \in Nat
      /\ position' = IF e.usable THEN 0 ELSE Len(e.path)
  BY PathsAssumption DEF ReadEntry, ClaimsInv, TypeOK, Entry, Names
<1>2. zip' \in Seq(Entry) /\ current' = e
  BY <1>1 DEF current
<1>3. position' \in Nat /\ position' <= Len(e.path)
  BY <1>1
<1>4. TypeOK'
  BY <1>1, <1>2, <1>3 DEF ClaimsInv, TypeOK
<1>5. ClaimsAreTree'
  BY <1>1 DEF ClaimsInv, ClaimsAreTree
<1>6. ParentsClaimed'
  BY <1>1, <1>2, <1>3 DEF ParentsClaimed
<1> QED
  BY <1>4, <1>5, <1>6 DEF ClaimsInv

LEMMA ClaimKeeps ==
  ASSUME ClaimsInv, ClaimParent \/ ParentConflict \/ ClaimEntry
  PROVE  ClaimsInv'
<1>1. ~ Idle /\ UNCHANGED zip /\ zip \in Seq(Entry)
  BY DEF ClaimParent, ParentConflict, ClaimEntry, ClaimsInv, TypeOK
<1>2. /\ current \in Entry /\ UNCHANGED current
      /\ position \in Nat /\ Len(current.path) \in Nat
      /\ position + 1 \in 1 .. Len(current.path)
      /\ OwnClaim \in Claim /\ ImpliedDir \in Claim
  <2>1. current \in Entry /\ position + 1 \in 1 .. Len(current.path)
    BY <1>1, AtComponent
  <2>2. Len(current.path) \in Nat
    BY <2>1, PathsAssumption DEF Entry, Names
  <2> QED
    BY <1>1, <2>1, <2>2, OwnClaims DEF current, ClaimsInv, TypeOK
<1>3. CASE ParentConflict
  <2>1. position' = Len(current.path) /\ UNCHANGED claims
    BY <1>3 DEF ParentConflict
  <2>2. TypeOK'
    BY <1>1, <1>2, <2>1 DEF ClaimsInv, TypeOK
  <2>3. ClaimsAreTree'
    BY <2>1 DEF ClaimsInv, ClaimsAreTree
  <2>4. ParentsClaimed'
    BY <1>2, <2>1 DEF ParentsClaimed
  <2> QED
    BY <2>2, <2>3, <2>4 DEF ClaimsInv
<1>4. CASE ClaimParent \/ ClaimEntry
  <2>1. /\ Insert(Component, ImpliedDir) \/ Insert(Component, OwnClaim)
        /\ position' = position + 1
    BY <1>4 DEF ClaimParent, ClaimEntry
  <2>2. /\ DOMAIN claims' \subseteq Names
        /\ \A q \in DOMAIN claims' : claims'[q] \in Claim
        /\ ClaimsAreTree'
    BY <1>1, <1>2, <2>1, InsertKeepsTree
  <2>3. position' \in Nat /\ position' <= Len(current.path)
    BY <1>2, <2>1
  <2>4. TypeOK'
    BY <1>1, <1>2, <2>2, <2>3 DEF TypeOK
  <2>5. ParentsClaimed'
    <3>1. SUFFICES ASSUME position' < Len(current.path), NEW k \in 1 .. position'
                   PROVE  LET p == SubSeq(current.path, 1, k) IN
                          p \in DOMAIN claims' /\ claims'[p].isDir
      BY <1>2 DEF ParentsClaimed
    <3>2. ClaimParent
      BY <1>2, <1>4, <2>1, <3>1 DEF ClaimEntry
    <3>3. /\ DOMAIN claims' = DOMAIN claims \cup {Component}
          /\ \A q \in DOMAIN claims : claims'[q] = claims[q]
          /\ Component \notin DOMAIN claims => claims'[Component] = ImpliedDir
      BY <3>2, InsertAdds DEF ClaimParent
    <3>4. CASE k = position + 1
      <4>1. SubSeq(current.path, 1, k) = Component
        BY <3>4 DEF Component
      <4>2. Component \in DOMAIN claims => claims[Component].isDir
        BY <3>2 DEF ClaimParent, Compatible
      <4>3. ImpliedDir.isDir
        BY DEF ImpliedDir
      <4> QED
        BY <3>3, <4>1, <4>2, <4>3
    <3>5. CASE k # position + 1
      <4>1. k \in 1 .. position
        BY <1>2, <2>1, <3>5
      <4>2. zip # <<>> /\ position < Len(current.path)
        BY <1>1, <1>2 DEF Idle
      <4>3. /\ SubSeq(current.path, 1, k) \in DOMAIN claims
            /\ claims[SubSeq(current.path, 1, k)].isDir
        BY <4>1, <4>2 DEF ClaimsInv, ParentsClaimed
      <4> QED
        BY <3>3, <4>3
    <3> QED
      BY <3>4, <3>5
  <2> QED
    BY <2>2, <2>4, <2>5 DEF ClaimsInv
<1> QED
  BY <1>3, <1>4

LEMMA ClaimsNext == ClaimsInv /\ [Next]_vars => ClaimsInv'
<1> SUFFICES ASSUME ClaimsInv, [Next]_vars PROVE ClaimsInv'
  OBVIOUS
<1>1. CASE Next
  BY <1>1, ReadKeeps, ClaimKeeps DEF Next
<1>2. CASE UNCHANGED vars
  BY <1>2 DEF vars, ClaimsInv, TypeOK, ClaimsAreTree, ParentsClaimed, current
<1> QED
  BY <1>1, <1>2

LEMMA ClaimsInit == Init => ClaimsInv
<1> SUFFICES ASSUME Init PROVE ClaimsInv
  OBVIOUS
<1>1. zip = <<>> /\ position = 0 /\ DOMAIN claims = {}
  BY DEF Init
<1>2. <<>> \in Seq(Entry)
  OBVIOUS
<1> QED
  BY <1>1, <1>2 DEF ClaimsInv, TypeOK, ClaimsAreTree, ParentsClaimed

\* The claims have their types and indices, for every zip.
THEOREM ClaimsTypeCorrect == Spec => []TypeOK
<1>1. ClaimsInv => TypeOK
  BY DEF ClaimsInv
<1> QED
  BY <1>1, ClaimsInit, ClaimsNext, PTL DEF Spec

\* What holds a claimed path is claimed as a directory, for every zip.
THEOREM ClaimsAreTreeCorrect == Spec => []ClaimsAreTree
<1>1. ClaimsInv => ClaimsAreTree
  BY DEF ClaimsInv
<1> QED
  BY <1>1, ClaimsInit, ClaimsNext, PTL DEF Spec

(***************************************************************************)
(* Every claim is owed to an entry of the zip, and every entry is dealt     *)
(* with: while an entry is being claimed, the parents dealt with are owed   *)
(* to it alone.                                                             *)
(***************************************************************************)
\* Entry i, whose own path is claimed, is q or lies below it.
OwedTo(i, q) ==
  /\ zip[i].usable /\ (q = zip[i].path \/ IsBelow(zip[i].path, q))
  /\ zip[i].path \in DOMAIN claims /\ claims[zip[i].path].isDir = zip[i].isDir

IsOwed(q) == \E i \in DOMAIN zip : OwedTo(i, q)

\* Entry i has its claim, or a file is in its way.
DealtWith(i) ==
  zip[i].usable =>
    \/ zip[i].path \in DOMAIN claims
    \/ \E q \in DOMAIN claims : IsBelow(zip[i].path, q) /\ ~ claims[q].isDir

BeingClaimed(q) == ~ Idle /\ \E k \in 1 .. position : q = SubSeq(current.path, 1, k)

OwedInv ==
  /\ \A q \in DOMAIN claims : IsOwed(q) \/ BeingClaimed(q)
  /\ \A i \in DOMAIN zip : DealtWith(i) \/ (i = Len(zip) /\ ~ Idle)
  /\ ~ Idle => current.usable

EntriesInv == ClaimsInv /\ OwedInv

\* What is owed to an entry stays so, and so does what lies above it.
LEMMA OwedAbove ==
  ASSUME ClaimsInv, NEW q \in Names, NEW i \in DOMAIN zip, OwedTo(i, q),
         NEW k \in 1 .. Len(q)
  PROVE  OwedTo(i, SubSeq(q, 1, k))
<1>1. q \in Paths /\ Len(q) \in Nat /\ k \in 0 .. Len(q) /\ zip[i].path \in Paths
  BY PathIsSequence DEF Names, ClaimsInv, TypeOK, Entry
<1> DEFINE above == SubSeq(q, 1, k)
<1>2. above \in Paths /\ (above = q \/ IsBelow(q, above))
  BY <1>1, PathAbove
<1>3. above = zip[i].path \/ IsBelow(zip[i].path, above)
  BY <1>1, <1>2, BelowTransitive DEF OwedTo
<1> QED
  BY <1>3 DEF OwedTo

LEMMA ReadOwes ==
  ASSUME EntriesInv, NEW e \in Entry, ReadEntry(e)
  PROVE  OwedInv'
<1>1. /\ zip \in Seq(Entry) /\ zip' = Append(zip, e) /\ UNCHANGED claims
      /\ Len(e.path) \in Nat /\ Len(e.path) > 0 /\ e.path \in Names
      /\ position' = IF e.usable THEN 0 ELSE Len(e.path)
      /\ Idle
  BY PathIsSequence DEF ReadEntry, EntriesInv, ClaimsInv, TypeOK, Entry, Names, Sysroot
<1>2. /\ Len(zip') = Len(zip) + 1 /\ Len(zip) \in Nat
      /\ DOMAIN zip = 1 .. Len(zip) /\ DOMAIN zip' = 1 .. Len(zip) + 1
      /\ \A i \in DOMAIN zip : zip'[i] = zip[i]
      /\ zip'[Len(zip')] = e /\ current' = e /\ zip' # <<>>
  BY <1>1 DEF current
<1>3. Idle' <=> ~ e.usable
  <2>1. e.usable \in BOOLEAN
    BY DEF Entry
  <2> QED
    BY <1>1, <1>2, <2>1 DEF Idle
<1>4. \A q \in DOMAIN claims' : IsOwed(q)'
  <2> SUFFICES ASSUME NEW q \in DOMAIN claims PROVE IsOwed(q)'
    BY <1>1
  <2>1. PICK i \in DOMAIN zip : OwedTo(i, q)
    BY <1>1 DEF EntriesInv, OwedInv, BeingClaimed, IsOwed
  <2> QED
    BY <1>1, <1>2, <2>1 DEF OwedTo, IsOwed
<1>5. ASSUME NEW i \in DOMAIN zip' PROVE DealtWith(i)' \/ (i = Len(zip') /\ ~ Idle')
  <2>1. CASE i \in DOMAIN zip
    <3>1. DealtWith(i)
      BY <1>1, <2>1 DEF EntriesInv, OwedInv
    <3> QED
      BY <1>1, <1>2, <2>1, <3>1 DEF DealtWith
  <2>2. CASE i \notin DOMAIN zip
    <3>1. i = Len(zip')
      BY <1>2, <2>2
    <3> QED
      BY <1>2, <1>3, <3>1 DEF DealtWith
  <2> QED
    BY <2>1, <2>2
<1>6. ~ Idle' => current'.usable
  BY <1>2, <1>3
<1> QED
  BY <1>4, <1>5, <1>6 DEF OwedInv

\* Claims are only added: what was owed and dealt with before still is.
LEMMA StillOwed ==
  ASSUME UNCHANGED zip,
         \A q \in DOMAIN claims : q \in DOMAIN claims' /\ claims'[q] = claims[q]
  PROVE  /\ \A q : IsOwed(q) => IsOwed(q)'
         /\ \A i \in DOMAIN zip : DealtWith(i) => DealtWith(i)'
BY DEF IsOwed, OwedTo, DealtWith

LEMMA ClaimOwes ==
  ASSUME EntriesInv, ClaimParent \/ ParentConflict \/ ClaimEntry
  PROVE  OwedInv'
<1> DEFINE last == Len(zip)
<1>1. ~ Idle /\ UNCHANGED zip /\ zip \in Seq(Entry) /\ zip # <<>>
  BY DEF ClaimParent, ParentConflict, ClaimEntry, EntriesInv, ClaimsInv, TypeOK, Idle
<1>2. /\ current = zip[last] /\ last \in DOMAIN zip /\ UNCHANGED current
      /\ current.path \in Names /\ Len(current.path) \in Nat
      /\ position \in Nat /\ position + 1 \in 1 .. Len(current.path)
      /\ current.usable
  <2>1. current.path \in Names /\ position + 1 \in 1 .. Len(current.path)
    BY <1>1, AtComponent DEF EntriesInv
  <2>2. Len(current.path) \in Nat /\ position \in Nat
    BY <2>1, PathIsSequence DEF Names, EntriesInv, ClaimsInv, TypeOK
  <2> QED
    BY <1>1, <2>1, <2>2 DEF current, EntriesInv, OwedInv
<1>3. \A q \in DOMAIN claims : q \in DOMAIN claims' /\ claims'[q] = claims[q]
  BY InsertAdds DEF ClaimParent, ParentConflict, ClaimEntry
<1>4. ~ Idle' => current'.usable
  BY <1>2
<1>5. /\ Component \in Names /\ Len(Component) = position + 1
      /\ \A k \in 1 .. position + 1 :
           /\ k \in 1 .. Len(Component)
           /\ SubSeq(Component, 1, k) = SubSeq(current.path, 1, k)
  <2>1. Component \in Names /\ Len(Component) = position + 1
    BY <1>2, PathPrefixes DEF Component
  <2>2. ASSUME NEW k \in 1 .. position + 1
        PROVE  SubSeq(Component, 1, k) = SubSeq(current.path, 1, k)
    <3>1. current.path \in Seq(PathNames)
      BY <1>2, PathIsSequence DEF Names
    <3> QED
      BY <1>2, <3>1 DEF Component
  <2> QED
    BY <1>2, <2>1, <2>2
\* While its parents are dealt with, the claims that are owed to the current
\* entry alone are shorter than the component at hand.
<1>6. ASSUME Component \in DOMAIN claims
      PROVE  \E i \in DOMAIN zip :
               \A k \in 1 .. position + 1 : OwedTo(i, SubSeq(current.path, 1, k))
  <2>1. ~ BeingClaimed(Component)
    <3> SUFFICES ASSUME NEW k \in 1 .. position, Component = SubSeq(current.path, 1, k)
                 PROVE  FALSE
      BY DEF BeingClaimed
    <3>1. k \in 1 .. Len(current.path)
      BY <1>2
    <3>2. Len(Component) = k
      BY <1>2, <3>1, PathPrefixes
    <3> QED
      BY <1>2, <1>5, <3>2
  <2>2. PICK i \in DOMAIN zip : OwedTo(i, Component)
    BY <1>6, <2>1 DEF EntriesInv, OwedInv, IsOwed
  <2>3. ASSUME NEW k \in 1 .. position + 1
        PROVE  OwedTo(i, SubSeq(current.path, 1, k))
    <3>1. OwedTo(i, SubSeq(Component, 1, k))
      BY <1>5, <2>2, OwedAbove DEF EntriesInv
    <3> QED
      BY <1>5, <3>1
  <2> QED
    BY <2>3
<1>7. CASE ParentConflict
  <2>1. /\ Component \in DOMAIN claims /\ ~ claims[Component].isDir
        /\ position + 1 < Len(current.path)
        /\ position' = Len(current.path) /\ UNCHANGED claims
    BY <1>7 DEF ParentConflict, Compatible, ImpliedDir
  <2>2. Idle'
    BY <1>2, <2>1 DEF Idle
  <2>3. PICK j \in DOMAIN zip :
          \A k \in 1 .. position + 1 : OwedTo(j, SubSeq(current.path, 1, k))
    BY <1>6, <2>1
  <2>4. ASSUME NEW q \in DOMAIN claims' PROVE IsOwed(q)'
    <3>1. IsOwed(q) \/ BeingClaimed(q)
      BY <2>1 DEF EntriesInv, OwedInv
    <3>2. BeingClaimed(q) => OwedTo(j, q)
      BY <1>2, <2>3 DEF BeingClaimed
    <3>3. IsOwed(q)
      BY <3>1, <3>2 DEF IsOwed
    <3> QED
      BY <1>1, <1>3, <3>3, StillOwed
  <2>5. DealtWith(last)
    <3>1. IsBelow(current.path, Component)
      <4>1. position + 1 \in 0 .. Len(current.path)
        BY <1>2
      <4> QED
        BY <1>2, <2>1, <4>1, PathAbove DEF Component, Names
    <3> QED
      BY <1>2, <2>1, <3>1 DEF DealtWith
  <2>6. ASSUME NEW i \in DOMAIN zip' PROVE DealtWith(i)'
    BY <1>1, <1>3, <2>5, StillOwed DEF EntriesInv, OwedInv
  <2> QED
    BY <1>4, <2>4, <2>6 DEF OwedInv
<1>8. CASE ClaimParent
  <2>1. /\ DOMAIN claims' = DOMAIN claims \cup {Component}
        /\ position' = position + 1 /\ position + 1 < Len(current.path)
    BY <1>8, InsertAdds DEF ClaimParent
  <2>2. ~ Idle'
    BY <1>1, <1>2, <2>1 DEF Idle
  <2>3. ASSUME NEW q \in DOMAIN claims' PROVE IsOwed(q)' \/ BeingClaimed(q)'
    <3>1. CASE q = Component
      <4>1. position + 1 \in 1 .. position'
        BY <1>2, <2>1
      <4> QED
        BY <1>2, <2>2, <3>1, <4>1 DEF BeingClaimed, Component
    <3>2. CASE q \in DOMAIN claims /\ IsOwed(q)
      BY <1>1, <1>3, <3>2, StillOwed
    <3>3. CASE q \in DOMAIN claims /\ BeingClaimed(q)
      <4>1. PICK k \in 1 .. position : q = SubSeq(current.path, 1, k)
        BY <3>3 DEF BeingClaimed
      <4>2. k \in 1 .. position'
        BY <1>2, <2>1
      <4> QED
        BY <1>2, <2>2, <4>1, <4>2 DEF BeingClaimed
    <3> QED
      BY <2>1, <3>1, <3>2, <3>3 DEF EntriesInv, OwedInv
  <2>4. ASSUME NEW i \in DOMAIN zip' PROVE DealtWith(i)' \/ (i = Len(zip') /\ ~ Idle')
    BY <1>1, <1>3, <2>2, StillOwed DEF EntriesInv, OwedInv
  <2> QED
    BY <1>4, <2>3, <2>4 DEF OwedInv
<1>9. CASE ClaimEntry
  <2>1. /\ DOMAIN claims' = DOMAIN claims \cup {Component}
        /\ Component \notin DOMAIN claims => claims'[Component] = OwnClaim
        /\ position' = position + 1 /\ position + 1 = Len(current.path)
    BY <1>9, InsertAdds DEF ClaimEntry
  <2>2. Idle' /\ Component = current.path
    <3>1. Component = current.path
      <4>1. current.path \in Seq(PathNames)
        BY <1>2, PathIsSequence DEF Names
      <4> QED
        BY <2>1, <4>1 DEF Component
    <3> QED
      BY <1>2, <2>1, <3>1 DEF Idle
  <2>3. \E j \in DOMAIN zip' :
          \A k \in 1 .. position + 1 : OwedTo(j, SubSeq(current.path, 1, k))'
    <3>1. CASE Component \in DOMAIN claims
      <4>1. PICK j \in DOMAIN zip :
              \A k \in 1 .. position + 1 : OwedTo(j, SubSeq(current.path, 1, k))
        BY <1>6, <3>1
      <4> QED
        BY <1>1, <1>2, <1>3, <4>1 DEF OwedTo
    <3>2. CASE Component \notin DOMAIN claims
      <4>1. claims'[current.path].isDir = current.isDir /\ current.path \in DOMAIN claims'
        BY <2>1, <2>2, <3>2 DEF OwnClaim
      <4>2. ASSUME NEW k \in 1 .. position + 1
            PROVE  OwedTo(last, SubSeq(current.path, 1, k))'
        <5>1. k \in 0 .. Len(current.path) /\ current.path \in Paths
          BY <1>2, <2>1 DEF Names
        <5>2. \/ SubSeq(current.path, 1, k) = current.path
              \/ IsBelow(current.path, SubSeq(current.path, 1, k))
          <6>1. k < Len(current.path) \/ k = Len(current.path)
            BY <1>2, <5>1
          <6>2. PICK p \in Paths : p = current.path
            BY <5>1
          <6> QED
            BY <5>1, <6>1, <6>2, PathAbove
        <5> QED
          BY <1>1, <1>2, <4>1, <5>2 DEF OwedTo
      <4> QED
        BY <1>1, <1>2, <4>2
    <3> QED
      BY <3>1, <3>2
  <2>4. ASSUME NEW q \in DOMAIN claims' PROVE IsOwed(q)'
    <3>1. PICK j \in DOMAIN zip' :
            \A k \in 1 .. position + 1 : OwedTo(j, SubSeq(current.path, 1, k))'
      BY <2>3
    <3>2. CASE q = Component
      BY <1>2, <3>1, <3>2 DEF IsOwed, Component
    <3>3. CASE q \in DOMAIN claims /\ IsOwed(q)
      BY <1>1, <1>3, <3>3, StillOwed
    <3>4. CASE q \in DOMAIN claims /\ BeingClaimed(q)
      <4>1. PICK k \in 1 .. position : q = SubSeq(current.path, 1, k)
        BY <3>4 DEF BeingClaimed
      <4>2. k \in 1 .. position + 1
        BY <1>2
      <4> QED
        BY <1>2, <3>1, <4>1, <4>2 DEF IsOwed
    <3> QED
      BY <2>1, <3>2, <3>3, <3>4 DEF EntriesInv, OwedInv
  <2>5. DealtWith(last)'
    BY <1>1, <1>2, <2>1, <2>2 DEF DealtWith
  <2>6. ASSUME NEW i \in DOMAIN zip' PROVE DealtWith(i)'
    BY <1>1, <1>3, <2>5, StillOwed DEF EntriesInv, OwedInv
  <2> QED
    BY <1>4, <2>4, <2>6 DEF OwedInv
<1> QED
  BY <1>7, <1>8, <1>9

LEMMA EntriesNext == EntriesInv /\ [Next]_vars => EntriesInv'
<1> SUFFICES ASSUME EntriesInv, [Next]_vars PROVE EntriesInv'
  OBVIOUS
<1>1. ClaimsInv'
  BY ClaimsNext DEF EntriesInv
<1>2. CASE Next
  BY <1>1, <1>2, ReadOwes, ClaimOwes DEF Next, EntriesInv
<1>3. CASE UNCHANGED vars
  <2>1. OwedInv'
    BY <1>3 DEF vars, EntriesInv, OwedInv, IsOwed, OwedTo, BeingClaimed, DealtWith, Idle,
       current
  <2> QED
    BY <1>1, <2>1 DEF EntriesInv
<1> QED
  BY <1>2, <1>3

LEMMA EntriesInit == Init => EntriesInv
<1> SUFFICES ASSUME Init PROVE EntriesInv
  OBVIOUS
<1>1. zip = <<>> /\ DOMAIN claims = {} /\ DOMAIN zip = {}
  BY DEF Init
<1> QED
  BY <1>1, ClaimsInit DEF EntriesInv, OwedInv, Idle

\* An entry that is left out leaves no directory behind, for every zip.
THEOREM NoStrayDirectoriesCorrect == Spec => []NoStrayDirectories
<1>1. EntriesInv => NoStrayDirectories
  BY DEF EntriesInv, OwedInv, NoStrayDirectories, IsOwed, OwedTo, BeingClaimed
<1> QED
  BY <1>1, EntriesInit, EntriesNext, PTL DEF Spec

\* A usable entry is left out only for another, for every zip.
THEOREM LeftOutForAnotherCorrect == Spec => []LeftOutForAnother
<1>1. EntriesInv => LeftOutForAnother
  BY DEF EntriesInv, OwedInv, LeftOutForAnother, DealtWith
<1> QED
  BY <1>1, EntriesInit, EntriesNext, PTL DEF Spec
(***************************************************************************)
(* What lies above a claim is claimed as a directory, up to the root; so an *)
(* earlier entry that is, or lies below, the name of a new claim has left a *)
(* claim of that name, and a claim is not made twice.                       *)
(***************************************************************************)
DirectoriesAbove ==
  \A q \in DOMAIN claims : \A r \in Names :
    IsBelow(q, r) => r \in DOMAIN claims /\ claims[r].isDir

\* What FirstEntryWins says of one claim c of path q
Wins(z, q, c) ==
  LET i == c.index IN
  /\ i \in DOMAIN z /\ z[i].path = q /\ ~ z[i].isDir
  /\ c.crc = z[i].crc
  /\ \A j \in 1 .. (i - 1) :
       z[j].usable => z[j].path # q /\ ~ IsBelow(z[j].path, q)

FirstWins == \A q \in DOMAIN claims : ~ claims[q].isDir => Wins(zip, q, claims[q])

FirstInv == DirectoriesAbove /\ FirstWins

LEMMA ClaimsAbove ==
  ASSUME EntriesInv, DirectoriesAbove, [Next]_vars
  PROVE  DirectoriesAbove'
<1>1. CASE UNCHANGED claims
  BY <1>1 DEF DirectoriesAbove
<1>2. CASE ClaimParent \/ ClaimEntry
  <2>1. /\ DOMAIN claims' = DOMAIN claims \cup {Component}
        /\ \A q \in DOMAIN claims : claims'[q] = claims[q]
    BY <1>2, InsertAdds DEF ClaimParent, ClaimEntry
  <2>2. ASSUME NEW r \in Names, IsBelow(Component, r)
        PROVE  r \in DOMAIN claims /\ claims[r].isDir
    <3>1. /\ ~ Idle /\ zip # <<>> /\ position \in Nat
          /\ current.path \in Names /\ position + 1 \in 1 .. Len(current.path)
          /\ Len(current.path) \in Nat
      <4>1. ~ Idle
        BY <1>2 DEF ClaimParent, ClaimEntry
      <4>2. current.path \in Names /\ position + 1 \in 1 .. Len(current.path)
        BY <4>1, AtComponent DEF EntriesInv
      <4> QED
        BY <4>1, <4>2, PathIsSequence
           DEF Idle, Names, EntriesInv, ClaimsInv, TypeOK
    <3>2. /\ Component \in Paths /\ r \in Paths /\ Len(Component) = position + 1
          /\ Len(r) \in Nat /\ r \in Seq(PathNames) /\ current.path \in Seq(PathNames)
      BY <3>1, PathPrefixes, PathIsSequence DEF Component, Names
    <3>3. r = SubSeq(Component, 1, Len(r)) /\ Len(r) < position + 1
      BY <2>2, <3>2, BelowIsCut
    <3>4. Len(r) > 0
      <4>1. r # <<>>
        BY DEF Names, Sysroot
      <4> QED
        BY <3>2, <4>1
    <3>5. r = SubSeq(current.path, 1, Len(r)) /\ Len(r) \in 1 .. position
      BY <3>1, <3>2, <3>3, <3>4 DEF Component
    <3> QED
      <4>1. position < Len(current.path)
        BY <3>1
      <4>2. ParentsClaimed
        BY DEF EntriesInv, ClaimsInv
      <4> QED
        BY <3>1, <3>5, <4>1, <4>2 DEF ParentsClaimed
  <2> QED
    BY <2>1, <2>2 DEF DirectoriesAbove
<1>3. Next => ClaimParent \/ ClaimEntry \/ UNCHANGED claims
  BY DEF Next, ReadEntry, ParentConflict
<1> QED
  BY <1>1, <1>2, <1>3 DEF vars

\* An earlier entry that is, or lies below, the path at hand has left a claim
\* of it: the path is not claimed anew.
LEMMA NoneBefore ==
  ASSUME EntriesInv, DirectoriesAbove, ClaimEntry, Component \notin DOMAIN claims,
         NEW j \in 1 .. (Len(zip) - 1), zip[j].usable
  PROVE  zip[j].path # current.path /\ ~ IsBelow(zip[j].path, current.path)
<1>1. /\ ~ Idle /\ zip \in Seq(Entry) /\ Len(zip) \in Nat /\ j \in DOMAIN zip
      /\ position + 1 = Len(current.path) /\ zip # <<>> /\ position \in Nat
  BY DEF ClaimEntry, Idle, EntriesInv, ClaimsInv, TypeOK
<1>2. /\ current.path \in Names /\ current.path \in Seq(PathNames)
      /\ Len(current.path) \in Nat
  BY <1>1, AtComponent, PathIsSequence DEF EntriesInv, Names
<1>3. Component = current.path
  BY <1>1, <1>2 DEF Component
<1>4. zip[j].path \in Names /\ zip[j].path \in Seq(PathNames)
  BY <1>1, PathIsSequence DEF Entry, Names
<1>5. \/ zip[j].path \in DOMAIN claims
      \/ \E f \in DOMAIN claims : IsBelow(zip[j].path, f) /\ ~ claims[f].isDir
  <2>1. DealtWith(j)
    BY <1>1 DEF EntriesInv, OwedInv
  <2> QED
    BY <2>1 DEF DealtWith
<1>6. SUFFICES ASSUME zip[j].path = current.path \/ IsBelow(zip[j].path, current.path)
               PROVE  FALSE
  OBVIOUS
<1>7. CASE zip[j].path \in DOMAIN claims
  BY <1>2, <1>3, <1>6, <1>7 DEF DirectoriesAbove
<1>8. CASE \E f \in DOMAIN claims : IsBelow(zip[j].path, f) /\ ~ claims[f].isDir
  <2>1. PICK f \in DOMAIN claims : IsBelow(zip[j].path, f) /\ ~ claims[f].isDir
    BY <1>8
  <2>2. f \in Names /\ f \in Seq(PathNames)
    BY PathIsSequence DEF EntriesInv, ClaimsInv, TypeOK, Names
  <2>3. f # current.path
    BY <1>3, <2>1
  <2>4. ~ IsBelow(f, current.path)
    BY <1>2, <1>3 DEF DirectoriesAbove
  <2>5. IsBelow(current.path, f)
    <3>1. CASE zip[j].path = current.path
      BY <2>1, <3>1
    <3>2. CASE IsBelow(zip[j].path, current.path)
      <4>1. /\ f = SubSeq(zip[j].path, 1, Len(f))
            /\ current.path = SubSeq(zip[j].path, 1, Len(current.path))
        BY <1>2, <1>4, <2>1, <2>2, <3>2, BelowIsCut DEF Names
      <4>2. /\ Len(f) < Len(zip[j].path)
            /\ \A i \in 1 .. Len(f) : zip[j].path[i] = f[i]
            /\ Len(current.path) < Len(zip[j].path)
            /\ \A i \in 1 .. Len(current.path) : zip[j].path[i] = current.path[i]
        BY <1>2, <1>4, <2>1, <2>2, <3>2, BelowMeans
      <4>3. Len(f) \in Nat /\ Len(f) # Len(current.path)
        BY <1>2, <2>2, <2>3, <4>1
      <4>4. ~ (Len(current.path) < Len(f))
        BY <1>2, <2>2, <2>4, <4>2, <4>3, BelowMeans
      <4>5. /\ f \in Seq(PathNames) /\ current.path \in Seq(PathNames)
            /\ Len(current.path) \in Nat /\ Len(f) < Len(current.path)
        BY <1>2, <2>2, <4>3, <4>4
      <4>6. \A i \in 1 .. Len(f) : current.path[i] = f[i]
        <5> SUFFICES ASSUME NEW i \in 1 .. Len(f) PROVE current.path[i] = f[i]
          OBVIOUS
        <5>1. i \in 1 .. Len(current.path)
          BY <4>3, <4>5
        <5> QED
          BY <4>2, <5>1
      <4> QED
        BY <4>5, <4>6, BelowMeans
    <3> QED
      BY <1>6, <3>1, <3>2
  <2>6. /\ f = SubSeq(current.path, 1, Len(f)) /\ Len(f) < Len(current.path)
    BY <1>2, <2>2, <2>5, BelowIsCut DEF Names
  <2>7. Len(f) \in 1 .. position
    <3>1. f # <<>>
      BY <2>2 DEF Names, Sysroot
    <3> QED
      BY <1>1, <2>2, <2>6, <3>1
  <2>8. ParentsClaimed /\ position < Len(current.path)
    BY <1>1, <1>2 DEF EntriesInv, ClaimsInv
  <2> QED
    BY <1>1, <2>1, <2>6, <2>7, <2>8 DEF ParentsClaimed
<1> QED
  BY <1>5, <1>7, <1>8

\* A zip that only grows takes nothing from a claim.
LEMMA WinsOn ==
  ASSUME NEW z \in Seq(Entry), NEW e \in Entry, NEW q, NEW c, Wins(z, q, c)
  PROVE  Wins(Append(z, e), q, c)
<1>1. PICK i : i = c.index
  OBVIOUS
<1>2. /\ i \in 1 .. Len(z) /\ Len(z) \in Nat
      /\ z[i].path = q /\ ~ z[i].isDir /\ c.crc = z[i].crc
      /\ \A j \in 1 .. (i - 1) :
           z[j].usable => z[j].path # q /\ ~ IsBelow(z[j].path, q)
  BY <1>1 DEF Wins
<1>3. /\ i \in DOMAIN Append(z, e)
      /\ \A j \in 1 .. i : Append(z, e)[j] = z[j]
  BY <1>2
<1>4. i \in 1 .. i /\ \A j \in 1 .. (i - 1) : j \in 1 .. i
  BY <1>2
<1> QED
  BY <1>1, <1>2, <1>3, <1>4 DEF Wins

LEMMA FirstNext ==
  ASSUME EntriesInv, FirstInv, [Next]_vars
  PROVE  FirstInv'
<1>1. DirectoriesAbove'
  BY ClaimsAbove DEF FirstInv
<1>2. ASSUME UNCHANGED <<zip, claims>>
      PROVE  FirstWins'
  <2>1. zip' = zip /\ claims' = claims
    BY <1>2
  <2> QED
    BY <1>1, <2>1 DEF FirstInv, FirstWins
<1>3. ASSUME NEW e \in Entry, ReadEntry(e)
      PROVE  FirstWins'
  <2>1. /\ zip' = Append(zip, e) /\ zip \in Seq(Entry) /\ UNCHANGED claims
    BY <1>3 DEF ReadEntry, EntriesInv, ClaimsInv, TypeOK
  <2> QED
    BY <2>1, WinsOn DEF FirstInv, FirstWins
<1>4. ASSUME ClaimParent
      PROVE  FirstWins'
  <2>1. /\ DOMAIN claims' = DOMAIN claims \cup {Component}
        /\ \A q \in DOMAIN claims : claims'[q] = claims[q]
        /\ Component \notin DOMAIN claims => claims'[Component] = ImpliedDir
        /\ UNCHANGED zip
    BY <1>4, InsertAdds DEF ClaimParent
  <2>2. ImpliedDir.isDir
    BY DEF ImpliedDir
  <2> QED
    BY <2>1, <2>2 DEF FirstInv, FirstWins
<1>5. ASSUME ClaimEntry
      PROVE  FirstWins'
  <2>1. /\ DOMAIN claims' = DOMAIN claims \cup {Component}
        /\ \A q \in DOMAIN claims : claims'[q] = claims[q]
        /\ Component \notin DOMAIN claims => claims'[Component] = OwnClaim
        /\ UNCHANGED zip
    BY <1>5, InsertAdds DEF ClaimEntry
  <2>2. ASSUME Component \notin DOMAIN claims, ~ OwnClaim.isDir
        PROVE  Wins(zip, Component, OwnClaim)
    <3>1. /\ zip \in Seq(Entry) /\ zip # <<>> /\ ~ Idle
          /\ position + 1 = Len(current.path)
      BY <1>5 DEF ClaimEntry, Idle, EntriesInv, ClaimsInv, TypeOK
    <3>2. Len(zip) \in DOMAIN zip /\ current = zip[Len(zip)]
      BY <3>1 DEF current
    <3>3. Component = current.path
      <4>1. current.path \in Names
        BY <3>1, AtComponent DEF EntriesInv
      <4>2. current.path \in Seq(PathNames)
        BY <4>1, PathIsSequence DEF Names
      <4> QED
        BY <3>1, <4>2 DEF Component
    <3>4. /\ OwnClaim.index = Len(zip) /\ ~ current.isDir
          /\ OwnClaim.crc = current.crc
      BY <2>2 DEF OwnClaim
    <3>5. \A j \in 1 .. (Len(zip) - 1) :
            zip[j].usable => zip[j].path # current.path
                             /\ ~ IsBelow(zip[j].path, current.path)
      BY <1>5, <2>2, NoneBefore DEF FirstInv
    <3> QED
      BY <3>2, <3>3, <3>4, <3>5 DEF Wins
  <2>3. ASSUME NEW q \in DOMAIN claims', ~ claims'[q].isDir
        PROVE  Wins(zip, q, claims'[q])
    <3>1. CASE q \in DOMAIN claims
      BY <2>1, <2>3, <3>1 DEF FirstInv, FirstWins
    <3>2. CASE q \notin DOMAIN claims
      BY <2>1, <2>2, <2>3, <3>2
    <3> QED
      BY <3>1, <3>2
  <2> QED
    BY <2>1, <2>3 DEF FirstWins
<1>6. FirstWins'
  <2>1. CASE Next
    BY <1>2, <1>3, <1>4, <1>5, <2>1 DEF Next, ParentConflict
  <2>2. CASE UNCHANGED vars
    BY <1>2, <2>2 DEF vars
  <2> QED
    BY <2>1, <2>2
<1> QED
  BY <1>1, <1>6 DEF FirstInv

\* A file is claimed for the first usable entry of its name, for every zip.
THEOREM FirstEntryWinsCorrect == Spec => []FirstEntryWins
<1>1. Init => EntriesInv /\ FirstInv
  BY EntriesInit DEF Init, FirstInv, DirectoriesAbove, FirstWins
<1>2. EntriesInv /\ FirstInv /\ [Next]_vars => (EntriesInv /\ FirstInv)'
  BY EntriesNext, FirstNext
<1>3. FirstInv => FirstEntryWins
  BY DEF FirstInv, FirstWins, Wins, FirstEntryWins
<1> QED
  BY <1>1, <1>2, <1>3, PTL DEF Spec
=============================================================================
