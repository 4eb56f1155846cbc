-------------------------- MODULE TwoProcessesProofs --------------------------
(***************************************************************************)
(* BystandersKept and OrphansAreShared, for any packages and trees, any     *)
(* number of commands, and every way in which two processes can interleave. *)
(*                                                                          *)
(* The lemmas of TransactionProofs and OrphanProofs about a process that    *)
(* shares the disk speak of the process of Transaction.  OtherProofs are    *)
(* the same lemmas about the other one.                                     *)
(***************************************************************************)
EXTENDS TwoProcesses, OrphanProofs

OtherProofs == INSTANCE OrphanProofs WITH
  pc <- pc2, cmd <- cmd2, todo <- todo2, current <- current2,
  remaining <- remaining2, index <- index2, statuses <- statuses2,
  fsops <- fsops2, pkfsops <- pkfsops2, shouldNotInstall <- shouldNotInstall2,
  shouldProceed <- shouldProceed2, start <- start2, failed <- failed2,
  left <- left2

(***************************************************************************)
(* An instance has its own copy of every definition.  What does not depend  *)
(* on the memory of a process is the same in both, so the assumptions hold  *)
(* of the copies.                                                           *)
(***************************************************************************)
LEMMA OtherAssumptions ==
  /\ /\ OtherProofs!IsFiniteSet(Paths)
     /\ Paths \subseteq Seq(UNION {{q[i] : i \in DOMAIN q} : q \in Paths})
     /\ OtherProofs!Sysroot \in Paths
     /\ \A q \in Paths : \A k \in 0 .. Len(q) : SubSeq(q, 1, k) \in Paths
  /\ \A p \in Packages :
       /\ OtherProofs!Claimed(p) \subseteq Paths \ {OtherProofs!Sysroot}
       /\ \A q \in OtherProofs!Claimed(p) :
            /\ Claims[p][q] \in OtherProofs!Claim
            /\ Claims[p][q].isDir => Claims[p][q] = OtherProofs!DirClaim
            /\ OtherProofs!Front(q) # OtherProofs!Sysroot =>
                 /\ OtherProofs!Front(q) \in OtherProofs!Claimed(p)
                 /\ Claims[p][OtherProofs!Front(q)] = OtherProofs!DirClaim
  /\ \A p \in Packages :
       /\ OtherProofs!SavesDiffer(p)
       /\ \A q \in OtherProofs!Claimed(p) :
            /\ OtherProofs!Save(q) \in Paths /\ OtherProofs!Save(q) # q
            /\ \A r \in Paths : OtherProofs!IsBelow(r, q) =>
                 OtherProofs!Source(r, OtherProofs!Save(q), q) \in Paths
  /\ /\ Rank \in [Paths -> Int]
     /\ \A q, r \in Paths : OtherProofs!IsBelow(q, r) => Rank[r] < Rank[q]
  /\ /\ PartialCrc \in Crcs
     /\ \A p \in Packages : \A q \in OtherProofs!Claimed(p) :
          Claims[p][q].crc # PartialCrc
  /\ \A t \in InitialTrees : t \in OtherProofs!Tree /\ OtherProofs!WellFormed(t)
<1>1. /\ OtherProofs!IsFiniteSet(Paths) /\ OtherProofs!Sysroot = Sysroot
      /\ \A q : OtherProofs!Front(q) = Front(q)
  BY PathsAssumption DEF IsFiniteSet, OtherProofs!IsFiniteSet, Sysroot,
     OtherProofs!Sysroot, Front, OtherProofs!Front
<1>2. /\ \A p : OtherProofs!Claimed(p) = Claimed(p)
      /\ OtherProofs!Claim = Claim /\ OtherProofs!DirClaim = DirClaim
      /\ \A q : OtherProofs!Save(q) = Save(q)
  BY DEF Claimed, OtherProofs!Claimed, Claim, OtherProofs!Claim, DirClaim,
     OtherProofs!DirClaim, Save, OtherProofs!Save, Front, OtherProofs!Front, Last,
     OtherProofs!Last
<1>3. /\ \A q, r : OtherProofs!IsBelow(q, r) <=> IsBelow(q, r)
      /\ \A q, r, s : OtherProofs!Source(q, r, s) = Source(q, r, s)
  BY DEF IsBelow, OtherProofs!IsBelow, IsStrictPrefix, OtherProofs!IsStrictPrefix,
     IsPrefix, OtherProofs!IsPrefix, Source, OtherProofs!Source
<1>4. /\ OtherProofs!Tree = Tree
      /\ \A t : OtherProofs!WellFormed(t) <=> WellFormed(t)
  BY DEF Tree, OtherProofs!Tree, Node, OtherProofs!Node, File, OtherProofs!File,
     Missing, OtherProofs!Missing, Directory, OtherProofs!Directory, WellFormed,
     OtherProofs!WellFormed, Sysroot, OtherProofs!Sysroot, Front, OtherProofs!Front
<1>5. \A p : OtherProofs!SavesDiffer(p) <=> SavesDiffer(p)
  BY <1>2 DEF SavesDiffer, OtherProofs!SavesDiffer
<1>6. /\ /\ IsFiniteSet(Paths)
         /\ Paths \subseteq Seq(UNION {{q[i] : i \in DOMAIN q} : q \in Paths})
         /\ Sysroot \in Paths
         /\ \A q \in Paths : \A k \in 0 .. Len(q) : SubSeq(q, 1, k) \in Paths
      /\ /\ Rank \in [Paths -> Int]
         /\ \A q, r \in Paths : IsBelow(q, r) => Rank[r] < Rank[q]
  BY PathsAssumption, RankAssumption
<1> QED
  BY <1>1, <1>2, <1>3, <1>4, <1>5, <1>6, ClaimsAssumption, SaveAssumption,
     PartialCrcAssumption, InitialTreesAssumption

\* The steps of the other process are those the lemmas speak of.
LEMMA OtherBegins == ASSUME Other!Init PROVE OtherProofs!Init
BY DEF
   Other!Init, Other!NoCommand, Other!NoStatuses, Other!Unseen,
   OtherProofs!Init, OtherProofs!NoCommand, OtherProofs!NoStatuses,
   OtherProofs!Unseen

LEMMA OtherStarts ==
  ASSUME NEW op, NEW targets, NEW dryRun, Other!Start(op, targets, dryRun)
  PROVE  OtherProofs!Start(op, targets, dryRun)
BY DEF
   Other!Start, Other!Spend,
   OtherProofs!Start, OtherProofs!Spend

LEMMA OtherPlans == ASSUME Other!Plan PROVE OtherProofs!Plan
BY DEF
   Other!Plan, Other!BuildIndex, Other!PrepareSysroot,
   Other!SysrootUnreadable, Other!RefusePackage, Other!BeginPackage,
   Other!InstallMissing, Other!UninstallLeaves, Other!InstallKept,
   Other!InstallConflict, Other!InstallDivert, Other!InstallDivertFails,
   Other!Uninstall, Other!FinishInstall, Other!FinishUninstall, Other!Gate,
   Other!NoFault, Other!ReadFault, Other!EnsureActual, Other!Sysroot,
   Other!EmitMkdir, Other!Op, Other!Spend, Other!persistent, Other!Rest,
   Other!ContainsPackage, Other!Claimed, Other!Look, Other!Visit,
   Other!InstallOp, Other!EmitInstall, Other!MatchesUs, Other!MatchesOther,
   Other!EmitGone, Other!Present, Other!Save, Other!Diverted, Other!RmRf,
   Other!DivertOps, Other!EmitMv, Other!IsNext, Other!MergeClaims,
   Other!RemoveClaims, Other!RenameZipOp, Other!planning, Other!Observed,
   Other!Unseen, Other!NoCommand, Other!NoStatuses, Other!CreateFileOp,
   Other!File, Other!IsMatch, Other!IsBelow, Other!Missing, Other!Front,
   Other!Last, Other!RemovalOrders, Other!RenameOp, Other!IsStrictPrefix,
   Other!SetToSeqs, Other!IsPrefix, Other!Cardinality,
   OtherProofs!Plan, OtherProofs!BuildIndex, OtherProofs!PrepareSysroot,
   OtherProofs!SysrootUnreadable, OtherProofs!RefusePackage,
   OtherProofs!BeginPackage, OtherProofs!InstallMissing,
   OtherProofs!UninstallLeaves, OtherProofs!InstallKept,
   OtherProofs!InstallConflict, OtherProofs!InstallDivert,
   OtherProofs!InstallDivertFails, OtherProofs!Uninstall,
   OtherProofs!FinishInstall, OtherProofs!FinishUninstall, OtherProofs!Gate,
   OtherProofs!NoFault, OtherProofs!ReadFault, OtherProofs!EnsureActual,
   OtherProofs!Sysroot, OtherProofs!EmitMkdir, OtherProofs!Op,
   OtherProofs!Spend, OtherProofs!persistent, OtherProofs!Rest,
   OtherProofs!ContainsPackage, OtherProofs!Claimed, OtherProofs!Look,
   OtherProofs!Visit, OtherProofs!InstallOp, OtherProofs!EmitInstall,
   OtherProofs!MatchesUs, OtherProofs!MatchesOther, OtherProofs!EmitGone,
   OtherProofs!Present, OtherProofs!Save, OtherProofs!Diverted,
   OtherProofs!RmRf, OtherProofs!DivertOps, OtherProofs!EmitMv,
   OtherProofs!IsNext, OtherProofs!MergeClaims, OtherProofs!RemoveClaims,
   OtherProofs!RenameZipOp, OtherProofs!planning, OtherProofs!Observed,
   OtherProofs!Unseen, OtherProofs!NoCommand, OtherProofs!NoStatuses,
   OtherProofs!CreateFileOp, OtherProofs!File, OtherProofs!IsMatch,
   OtherProofs!IsBelow, OtherProofs!Missing, OtherProofs!Front,
   OtherProofs!Last, OtherProofs!RemovalOrders, OtherProofs!RenameOp,
   OtherProofs!IsStrictPrefix, OtherProofs!SetToSeqs, OtherProofs!IsPrefix,
   OtherProofs!Cardinality

LEMMA OtherExecutes == ASSUME Other!Execute PROVE OtherProofs!Execute
BY DEF
   Other!Execute, Other!ExecuteOp, Other!OpFails, Other!FreedPathFails,
   Other!FreedPathAborts,
   Other!FinishExecution, Other!Exit, Other!NextOp, Other!NoFault,
   Other!persistent, Other!Effect, Other!Spend, Other!CutOff, Other!Rest,
   Other!planning, Other!MakeDir, Other!WriteFile, Other!RemovePath,
   Other!RemoveDir, Other!Rename, Other!NoCommand, Other!NoStatuses,
   Other!Missing, Other!HasParent, Other!Directory, Other!CanWrite,
   Other!File, Other!IsEmpty, Other!CanRename, Other!IsBelow, Other!Source,
   Other!Unseen, Other!Sysroot, Other!Front, Other!IsStrictPrefix,
   Other!IsPrefix,
   OtherProofs!Execute, OtherProofs!ExecuteOp, OtherProofs!OpFails,
   OtherProofs!FreedPathFails, OtherProofs!FreedPathAborts, OtherProofs!FinishExecution,
   OtherProofs!Exit, OtherProofs!NextOp, OtherProofs!NoFault,
   OtherProofs!persistent, OtherProofs!Effect, OtherProofs!Spend,
   OtherProofs!CutOff, OtherProofs!Rest, OtherProofs!planning,
   OtherProofs!MakeDir, OtherProofs!WriteFile, OtherProofs!RemovePath,
   OtherProofs!RemoveDir, OtherProofs!Rename, OtherProofs!NoCommand,
   OtherProofs!NoStatuses, OtherProofs!Missing, OtherProofs!HasParent,
   OtherProofs!Directory, OtherProofs!CanWrite, OtherProofs!File,
   OtherProofs!IsEmpty, OtherProofs!CanRename, OtherProofs!IsBelow,
   OtherProofs!Source, OtherProofs!Unseen, OtherProofs!Sysroot,
   OtherProofs!Front, OtherProofs!IsStrictPrefix, OtherProofs!IsPrefix

LEMMA OtherCrashes == ASSUME Other!Crash PROVE OtherProofs!Crash
BY DEF
   Other!Crash, Other!Spend, Other!CutOff, Other!Rest, Other!WriteFile,
   Other!NoCommand, Other!NoStatuses, Other!CanWrite, Other!File,
   Other!Unseen, Other!HasParent, Other!Sysroot, Other!Front,
   OtherProofs!Crash, OtherProofs!Spend, OtherProofs!CutOff,
   OtherProofs!Rest, OtherProofs!WriteFile, OtherProofs!NoCommand,
   OtherProofs!NoStatuses, OtherProofs!CanWrite, OtherProofs!File,
   OtherProofs!Unseen, OtherProofs!HasParent, OtherProofs!Sysroot,
   OtherProofs!Front

\* What is there is the same to both.
LEMMA OtherHeld ==
  /\ OtherProofs!Tree = Tree
  /\ \A t : OtherProofs!WellFormed(t) <=> WellFormed(t)
  /\ \A Z, F, t : OtherProofs!StillThere(Z, F, t) <=> StillThere(Z, F, t)
  /\ \A Z, F, t : OtherProofs!StillThere(Z, F, t)' <=> StillThere(Z, F, t)'
<1>1. /\ OtherProofs!Tree = Tree
      /\ \A t : OtherProofs!WellFormed(t) <=> WellFormed(t)
  BY DEF Tree, OtherProofs!Tree, Node, OtherProofs!Node, File, OtherProofs!File,
     Missing, OtherProofs!Missing, Directory, OtherProofs!Directory, WellFormed,
     OtherProofs!WellFormed, Sysroot, OtherProofs!Sysroot, Front, OtherProofs!Front
<1>2. \A Y, F, t : OtherProofs!Held(Y, F, t) = Held(Y, F, t)
  BY DEF Held, OtherProofs!Held, IsSaved, OtherProofs!IsSaved, OnDisk,
     OtherProofs!OnDisk, Claimed, OtherProofs!Claimed, Save, OtherProofs!Save,
     Front, OtherProofs!Front, Last, OtherProofs!Last, IsBelow, OtherProofs!IsBelow,
     IsStrictPrefix, OtherProofs!IsStrictPrefix, IsPrefix, OtherProofs!IsPrefix
<1>3. /\ \A Z, F, t : OtherProofs!StillThere(Z, F, t) <=> StillThere(Z, F, t)
      /\ \A Z, F, t : OtherProofs!StillThere(Z, F, t)' <=> StillThere(Z, F, t)'
  BY <1>2 DEF StillThere, OtherProofs!StillThere
<1> QED
  BY <1>1, <1>3

(***************************************************************************)
(* The lemmas about the other process, rid of their assumptions.            *)
(***************************************************************************)
LEMMA OtherTypeStep ==
  ASSUME OtherProofs!TypeOK,
         \/ Other!Run \/ Other!Crash
         \/ \E op \in {"del", "fix"}, targets \in SUBSET Packages,
               dryRun \in BOOLEAN : Other!Start(op, targets, dryRun)
  PROVE  OtherProofs!TypeOK'
<1>1. OtherProofs!Next
  BY OtherStarts, OtherPlans, OtherExecutes, OtherCrashes
     DEF OtherProofs!Next, Other!Run, OtherProofs!Run
<1> QED
  BY <1>1, OtherProofs!TypeNext, OtherAssumptions, CrcsAssumption, NoPackageAssumption,
     BoundsAssumption

LEMMA OtherReadsAreCounted ==
  ASSUME OtherProofs!TypeOK, Other!Run \/ Other!Crash
  PROVE  left2'.reads <= left2.reads
BY OtherPlans, OtherExecutes, OtherCrashes, OtherProofs!ReadsAreCounted,
   OtherAssumptions, CrcsAssumption, NoPackageAssumption, BoundsAssumption
   DEF Other!Run, OtherProofs!Run

LEMMA OtherMindsStep ==
  ASSUME NEW Z \in SUBSET Packages, NEW F \in SUBSET Packages, NEW t \in Tree,
         WellFormed(t), OtherProofs!Minds(Z, F, t), StillThere(Z, F, t),
         Other!Run \/ Other!Crash, left2'.reads = left2.reads
  PROVE  OtherProofs!Minds(Z, F, t)' /\ StillThere(Z, F, t)'
<1>1. OtherProofs!Run \/ OtherProofs!Crash
  BY OtherPlans, OtherExecutes, OtherCrashes DEF Other!Run, OtherProofs!Run
<1>2. /\ t \in OtherProofs!Tree /\ OtherProofs!WellFormed(t)
      /\ OtherProofs!StillThere(Z, F, t)
  BY OtherHeld
<1>3. OtherProofs!Minds(Z, F, t)' /\ OtherProofs!StillThere(Z, F, t)'
  BY <1>1, <1>2, OtherProofs!MindsStep, OtherAssumptions, CrcsAssumption,
     NoPackageAssumption, BoundsAssumption
<1> QED
  BY <1>3, OtherHeld

LEMMA OtherMindsStart ==
  ASSUME NEW Z \in SUBSET Packages, NEW F \in SUBSET Packages, NEW t,
         NEW Z2 \in SUBSET Packages, NEW F2 \in SUBSET Packages,
         Z \subseteq Z2, F \subseteq F2, OtherProofs!Minds(Z, F, t),
         NEW op \in {"del", "fix"}, NEW targets \in SUBSET Packages,
         NEW dryRun \in BOOLEAN, Other!Start(op, targets, dryRun),
         Named(op, targets, Z2, F2)
  PROVE  OtherProofs!Minds(Z2, F2, t)'
<1>1. OtherProofs!Start(op, targets, dryRun)
  BY OtherStarts
<1>2. OtherProofs!AtEase /\ OtherProofs!Named(op, targets, Z2, F2)
  BY DEF OtherProofs!Minds, OtherProofs!AtEase, Named, OtherProofs!Named
<1> QED
  BY <1>1, <1>2, OtherProofs!MindsStart, OtherAssumptions, CrcsAssumption,
     NoPackageAssumption, BoundsAssumption

LEMMA OtherMindsElsewhere ==
  ASSUME NEW Z \in SUBSET Packages, NEW F \in SUBSET Packages, NEW t,
         NEW Z2 \in SUBSET Packages, NEW F2 \in SUBSET Packages,
         Z \subseteq Z2, F \subseteq F2, OtherProofs!Minds(Z, F, t),
         UNCHANGED memory2, disk' \in Tree, installed' \in SUBSET Packages,
         StillThere(Z2, F2, t), StillThere(Z2, F2, t)'
  PROVE  OtherProofs!Minds(Z2, F2, t)'
<1>1. /\ OtherProofs!StillThere(Z2, F2, t) /\ OtherProofs!StillThere(Z2, F2, t)'
      /\ disk' \in OtherProofs!Tree
  BY OtherHeld
<1>2. UNCHANGED <<pc2, cmd2, OtherProofs!planning, start2, failed2, left2>>
  BY DEF memory2, OtherProofs!planning
<1> QED
  BY <1>1, <1>2, OtherProofs!MindsElsewhere, OtherAssumptions, CrcsAssumption,
     NoPackageAssumption, BoundsAssumption

LEMMA OtherMindsInit ==
  ASSUME Other!Init, NEW t, t = disk
  PROVE  OtherProofs!TypeOK /\ OtherProofs!Minds({}, {}, t)
<1>1. OtherProofs!Init
  BY OtherBegins
<1>2. OtherProofs!Minds({}, {}, t)
  BY <1>1, OtherProofs!MindsInit, OtherAssumptions, CrcsAssumption,
     NoPackageAssumption, BoundsAssumption
<1> QED
  BY <1>2 DEF OtherProofs!Minds

(***************************************************************************)
(* The two together.  A step of one leaves what the other minds where it    *)
(* is, so what that one has read of it stays true, however stale the rest.  *)
(***************************************************************************)
PairTypes ==
  /\ TypeOK /\ OtherProofs!TypeOK
  /\ left.reads <= MaxReadFaults /\ left2.reads <= MaxReadFaults
  /\ named.del \subseteq Packages /\ named.fix \subseteq Packages
  /\ named = [del |-> named.del, fix |-> named.fix]
  /\ first \in Tree /\ WellFormed(first)

BothMind ==
  /\ Minds(Taken, named.fix, first)
  /\ OtherProofs!Minds(Taken, named.fix, first)
  /\ StillThere(Taken, named.fix, first)

PairInv == PairTypes /\ (NoReadFailed => BothMind)

LEMMA PairInitHolds == PairInit => PairInv
<1> SUFFICES ASSUME PairInit PROVE PairInv
  OBVIOUS
<1>1. /\ Init /\ Other!Init /\ first = disk /\ Taken = {} /\ named.fix = {}
      /\ named = [del |-> {}, fix |-> {}]
  BY DEF PairInit, Taken
<1>2. TypeOK /\ Minds({}, {}, first) /\ StillThere({}, {}, first)
  BY <1>1, MindsInit, TypeInit
<1>3. OtherProofs!TypeOK /\ OtherProofs!Minds({}, {}, first)
  BY <1>1, OtherMindsInit
<1>4. left.reads <= MaxReadFaults /\ left2.reads <= MaxReadFaults
  BY <1>1, BoundsAssumption DEF Init, Other!Init
<1>5. first \in Tree /\ WellFormed(first)
  BY <1>1, InitialTreesAssumption DEF Init
<1> QED
  BY <1>1, <1>2, <1>3, <1>4, <1>5 DEF PairInv, PairTypes, BothMind

LEMMA PairStart ==
  ASSUME PairInv, StartOne, Overlap
  PROVE  PairInv'
<1>1. PICK op \in {"del", "fix"}, targets \in SUBSET Packages :
        /\ Issue(op, targets)
        /\ \/ Start(op, targets, FALSE) /\ UNCHANGED memory2
           \/ Other!Start(op, targets, FALSE) /\ UNCHANGED memory
  BY DEF StartOne
<1>2. PICK A \in SUBSET Packages :
        A = IF targets = {} THEN installed ELSE targets
  BY DEF PairInv, PairTypes, TypeOK
<1>3. /\ named' = [named EXCEPT ![op] = @ \cup A]
      /\ first' = first
  BY <1>1, <1>2 DEF Issue, Overlap
<1>4. PICK Z \in SUBSET Packages, F \in SUBSET Packages, t \in Tree :
        Z = Taken /\ F = named.fix /\ t = first
  BY DEF PairInv, PairTypes, Taken
<1>5. /\ named'.del = IF op = "del" THEN named.del \cup A ELSE named.del
      /\ named'.fix = IF op = "fix" THEN named.fix \cup A ELSE named.fix
      /\ named' = [del |-> named'.del, fix |-> named'.fix]
  BY <1>3 DEF PairInv, PairTypes
<1>6. PICK Z2 \in SUBSET Packages, F2 \in SUBSET Packages :
        Z2 = Taken' /\ F2 = named'.fix
  BY <1>5 DEF PairInv, PairTypes, Taken
<1>7. /\ Z \subseteq Z2 /\ F \subseteq F2
      /\ A \subseteq IF op = "fix" THEN F2 \cap Z2 ELSE Z2
  BY <1>4, <1>5, <1>6 DEF Taken
<1>8. /\ UNCHANGED <<disk, installed>>
      /\ left'.reads = left.reads /\ left2'.reads = left2.reads
  BY <1>1 DEF Start, Other!Start, Spend, Other!Spend, memory, memory2, PairInv,
     PairTypes, TypeOK, OtherProofs!TypeOK
<1>9. TypeOK' /\ OtherProofs!TypeOK'
  <2>1. CASE Start(op, targets, FALSE) /\ UNCHANGED memory2
    <3>1. TypeOK'
      BY <2>1, TypeNext DEF Next, PairInv, PairTypes
    <3>2. OtherProofs!TypeOK'
      BY <1>8, <2>1 DEF PairInv, PairTypes, OtherProofs!TypeOK, memory2
    <3> QED BY <3>1, <3>2
  <2>2. CASE Other!Start(op, targets, FALSE) /\ UNCHANGED memory
    <3>1. OtherProofs!TypeOK'
      BY <2>2, OtherTypeStep DEF PairInv, PairTypes
    <3>2. TypeOK'
      BY <1>8, <2>2 DEF PairInv, PairTypes, TypeOK, memory, planning
    <3> QED BY <3>1, <3>2
  <2> QED
    BY <1>1, <2>1, <2>2
<1>10. PairTypes'
  BY <1>3, <1>5, <1>6, <1>8, <1>9 DEF PairInv, PairTypes, Taken, WellFormed
<1>11. ASSUME NoReadFailed' PROVE BothMind'
  <2>1. Minds(Z, F, t) /\ OtherProofs!Minds(Z, F, t) /\ StillThere(Z, F, t)
    BY <1>4, <1>8, <1>11 DEF PairInv, BothMind, NoReadFailed
  <2>2. StillThere(Z2, F2, t) /\ StillThere(Z2, F2, t)'
    BY <1>7, <1>8, <2>1, StillThereOfFewer
  <2>3. disk' \in Tree /\ installed' \in SUBSET Packages
    BY <1>9 DEF TypeOK
  <2>4. Minds(Z2, F2, t)' /\ OtherProofs!Minds(Z2, F2, t)'
    <3>0. Named(op, targets, Z2, F2)
      BY <1>2, <1>7 DEF Named
    <3>1. CASE Start(op, targets, FALSE) /\ UNCHANGED memory2
      <4>1. AtEase
        BY <2>1 DEF Minds, AtEase
      <4> QED
        BY <4>1, <1>7, <2>1, <2>2, <2>3, <3>0, <3>1, MindsStart, OtherMindsElsewhere
    <3>2. CASE Other!Start(op, targets, FALSE) /\ UNCHANGED memory
      <4>1. UNCHANGED <<pc, cmd, planning, start, failed, left>>
        BY <3>2 DEF memory
      <4> QED
        BY <1>7, <2>1, <2>2, <2>3, <3>0, <3>2, <4>1, MindsElsewhere,
           OtherMindsStart
    <3> QED
      BY <1>1, <3>1, <3>2
  <2> QED
    BY <1>3, <1>4, <1>6, <2>2, <2>4 DEF BothMind
<1> QED
  BY <1>10, <1>11 DEF PairInv

LEMMA PairStepThis ==
  ASSUME PairInv, StepThis, Overlap
  PROVE  PairInv'
<1>1. /\ Run \/ Crash
      /\ UNCHANGED memory2 /\ named' = named /\ first' = first
  BY DEF StepThis, Overlap
<1>2. PICK Z \in SUBSET Packages, F \in SUBSET Packages, t \in Tree :
        Z = Taken /\ F = named.fix /\ t = first
  BY DEF PairInv, PairTypes, Taken
<1>3. TypeOK' /\ left'.reads <= left.reads
  BY <1>1, TypeNext, ReadsAreCounted DEF Next, PairInv, PairTypes
<1>4. disk' \in Tree /\ installed' \in SUBSET Packages
  BY <1>3 DEF TypeOK
<1>5. OtherProofs!TypeOK'
  BY <1>1, <1>4, OtherHeld DEF PairInv, PairTypes, OtherProofs!TypeOK, memory2
<1>6. left.reads \in Int /\ left'.reads \in Int /\ MaxReadFaults \in Int
      /\ left2' = left2
  BY <1>1, <1>3, BoundsAssumption DEF PairInv, PairTypes, TypeOK, memory2
<1>7. PairTypes'
  BY <1>1, <1>3, <1>5, <1>6 DEF PairInv, PairTypes, WellFormed
<1>8. ASSUME NoReadFailed' PROVE BothMind'
  <2>1. NoReadFailed /\ left'.reads = left.reads
    BY <1>3, <1>6, <1>8 DEF NoReadFailed, PairInv, PairTypes
  <2>2. /\ Minds(Z, F, t) /\ OtherProofs!Minds(Z, F, t) /\ StillThere(Z, F, t)
        /\ WellFormed(t)
    BY <1>2, <2>1 DEF PairInv, PairTypes, BothMind
  <2>3. Minds(Z, F, t)' /\ StillThere(Z, F, t)'
    BY <1>1, <2>1, <2>2, MindsStep
  <2>4. OtherProofs!Minds(Z, F, t)'
    BY <1>1, <1>4, <2>2, <2>3, OtherMindsElsewhere
  <2> QED
    BY <1>1, <1>2, <2>3, <2>4 DEF BothMind, Taken
<1> QED
  BY <1>7, <1>8 DEF PairInv

LEMMA PairStepOther ==
  ASSUME PairInv, StepOther, Overlap
  PROVE  PairInv'
<1>1. /\ Other!Run \/ Other!Crash
      /\ UNCHANGED memory /\ named' = named /\ first' = first
  BY DEF StepOther, Overlap
<1>2. PICK Z \in SUBSET Packages, F \in SUBSET Packages, t \in Tree :
        Z = Taken /\ F = named.fix /\ t = first
  BY DEF PairInv, PairTypes, Taken
<1>3. OtherProofs!TypeOK' /\ left2'.reads <= left2.reads
  BY <1>1, OtherTypeStep, OtherReadsAreCounted DEF PairInv, PairTypes
<1>4. disk' \in Tree /\ installed' \in SUBSET Packages
  BY <1>3, OtherHeld DEF OtherProofs!TypeOK
<1>5. UNCHANGED <<pc, cmd, planning, start, failed, left>>
  BY <1>1 DEF memory
<1>6. TypeOK'
  BY <1>4, <1>5 DEF PairInv, PairTypes, TypeOK, planning
<1>7. left2.reads \in Int /\ left2'.reads \in Int /\ MaxReadFaults \in Int
  BY <1>3, BoundsAssumption DEF PairInv, PairTypes, OtherProofs!TypeOK
<1>8. PairTypes'
  BY <1>1, <1>3, <1>5, <1>6, <1>7 DEF PairInv, PairTypes, WellFormed
<1>9. ASSUME NoReadFailed' PROVE BothMind'
  <2>1. NoReadFailed /\ left2'.reads = left2.reads
    BY <1>3, <1>5, <1>7, <1>9 DEF NoReadFailed, PairInv, PairTypes
  <2>2. /\ Minds(Z, F, t) /\ OtherProofs!Minds(Z, F, t) /\ StillThere(Z, F, t)
        /\ WellFormed(t)
    BY <1>2, <2>1 DEF PairInv, PairTypes, BothMind
  <2>3. OtherProofs!Minds(Z, F, t)' /\ StillThere(Z, F, t)'
    BY <1>1, <2>1, <2>2, OtherMindsStep
  <2>4. Minds(Z, F, t)'
    BY <1>4, <1>5, <2>2, <2>3, MindsElsewhere
  <2> QED
    BY <1>1, <1>2, <2>3, <2>4 DEF BothMind, Taken
<1> QED
  BY <1>8, <1>9 DEF PairInv

LEMMA PairNextHolds == PairInv /\ [PairNext]_pairVars => PairInv'
<1> SUFFICES ASSUME PairInv, [PairNext]_pairVars PROVE PairInv'
  OBVIOUS
<1>1. CASE PairNext
  BY <1>1, PairStart, PairStepThis, PairStepOther DEF PairNext
<1>2. CASE UNCHANGED pairVars
  <2>1. UNCHANGED <<vars, memory2, first, named>>
    BY <1>2 DEF pairVars
  <2>2. UNCHANGED <<disk, installed, pc, cmd, planning, start, failed, left>>
    BY <2>1 DEF vars, planning
  <2>3. PICK Z \in SUBSET Packages, F \in SUBSET Packages, t \in Tree :
          Z = Taken /\ F = named.fix /\ t = first
    BY DEF PairInv, PairTypes, Taken
  <2>4. TypeOK' /\ OtherProofs!TypeOK'
    BY <2>1, <2>2 DEF PairInv, PairTypes, TypeOK, OtherProofs!TypeOK, planning, memory2
  <2>5. PairTypes'
    BY <2>1, <2>2, <2>4 DEF PairInv, PairTypes, WellFormed, memory2
  <2>6. ASSUME NoReadFailed' PROVE BothMind'
    <3>1. Minds(Z, F, t) /\ OtherProofs!Minds(Z, F, t) /\ StillThere(Z, F, t)
      BY <2>1, <2>2, <2>3, <2>6 DEF PairInv, BothMind, NoReadFailed, memory2
    <3>2. StillThere(Z, F, t)' /\ disk' \in Tree /\ installed' \in SUBSET Packages
      BY <2>2, <2>4, <3>1 DEF StillThere, TypeOK
    <3>3. Minds(Z, F, t)' /\ OtherProofs!Minds(Z, F, t)'
      BY <2>1, <2>2, <3>1, <3>2, MindsElsewhere, OtherMindsElsewhere
    <3> QED
      BY <2>1, <2>3, <3>2, <3>3 DEF BothMind, Taken
  <2> QED
    BY <2>5, <2>6 DEF PairInv
<1> QED
  BY <1>1, <1>2

\* As long as both can read what they look at, two processes take from no
\* package that neither was asked to change, but under the .zpksave names of
\* what was to be fixed: no lock is needed for that.
THEOREM BystandersKeptCorrect == PairSpec => []BystandersKept
<1>1. PairInv => BystandersKept
  <2> SUFFICES ASSUME PairInv, NoReadFailed, NEW p \in Packages \ Taken, NEW q \in Paths,
                      OnDisk(first, p, q), ~ IsSaved(named.fix, q)
               PROVE  OnDisk(disk, p, q)
    BY DEF BystandersKept
  <2>1. q \in Held(Packages \ Taken, named.fix, first)
    BY DEF Held
  <2>2. disk[q] = first[q]
    BY <2>1 DEF PairInv, BothMind, StillThere
  <2> QED
    BY <2>2 DEF OnDisk
<1> QED
  BY <1>1, PairInitHolds, PairNextHolds, PTL DEF PairSpec

(***************************************************************************)
(* OrphansAreShared.  What is gone and what is left is the same to both.    *)
(***************************************************************************)
LEMMA OtherLeaves ==
  /\ \A t, t2 : OtherProofs!Thinned(t, t2) <=> Thinned(t, t2)
  /\ \A t, I : OtherProofs!SolesGone(t, I) <=> SolesGone(t, I)
  /\ OtherProofs!LeftNothing({}) <=> LeftNothing({})
  /\ OtherProofs!LeftNothing({})' <=> LeftNothing({})'
<1>1. /\ \A p : OtherProofs!Claimed(p) = Claimed(p)
      /\ \A t, p, q : OtherProofs!OnDisk(t, p, q) <=> OnDisk(t, p, q)
      /\ OtherProofs!Missing = Missing /\ OtherProofs!Sysroot = Sysroot
  BY DEF OnDisk, OtherProofs!OnDisk, Claimed, OtherProofs!Claimed, Missing,
     OtherProofs!Missing, Sysroot, OtherProofs!Sysroot
<1>2. \A q, r : OtherProofs!IsBelow(q, r) <=> IsBelow(q, r)
  BY DEF IsBelow, OtherProofs!IsBelow, IsStrictPrefix, OtherProofs!IsStrictPrefix,
     IsPrefix, OtherProofs!IsPrefix
<1>3. \A t, q : OtherProofs!IsEmpty(t, q) <=> IsEmpty(t, q)
  BY <1>1, <1>2 DEF IsEmpty, OtherProofs!IsEmpty
<1>4. \A q : ~ OtherProofs!IsSaved({}, q) /\ ~ IsSaved({}, q)
  BY DEF IsSaved, OtherProofs!IsSaved
<1>5. \A t, q : OtherProofs!ClaimsOnly(t, q) <=> ClaimsOnly(t, q)
  BY <1>1 DEF ClaimsOnly, OtherProofs!ClaimsOnly
<1>6. \A t, t2 : OtherProofs!Thinned(t, t2) <=> Thinned(t, t2)
  BY <1>1, <1>5 DEF Thinned, OtherProofs!Thinned
<1>7. \A t, I : OtherProofs!SolesGone(t, I) <=> SolesGone(t, I)
  <2>1. \A p, q : OtherProofs!Sole(p, q) <=> Sole(p, q)
    BY <1>1 DEF Sole, OtherProofs!Sole
  <2>2. \A t, q : OtherProofs!HoldsForeign(t, q) <=> HoldsForeign(t, q)
    BY <1>1, <1>2 DEF HoldsForeign, OtherProofs!HoldsForeign
  <2>3. \A t, p, q : OtherProofs!LeftInUse(t, p, q) <=> LeftInUse(t, p, q)
    BY <1>1, <2>2 DEF LeftInUse, OtherProofs!LeftInUse
  <2> QED
    BY <1>1, <2>1, <2>3 DEF SolesGone, OtherProofs!SolesGone
<1>8. OtherProofs!LeftNothing({}) <=> LeftNothing({})
  BY <1>1, <1>3, <1>4 DEF LeftNothing, OtherProofs!LeftNothing
<1>9. OtherProofs!LeftNothing({})' <=> LeftNothing({})'
  BY <1>1, <1>3, <1>4 DEF LeftNothing, OtherProofs!LeftNothing
<1> QED
  BY <1>6, <1>7, <1>8, <1>9

\* A step of the other process, in which only packages of F are to be fixed.
OtherGoes(F) ==
  \/ Other!Run \/ Other!Crash
  \/ \E op \in {"del", "fix"}, targets \in SUBSET Packages :
       /\ Other!Start(op, targets, FALSE)
       /\ op = "fix" => (IF targets = {} THEN installed ELSE targets) \subseteq F

LEMMA OtherGoing == ASSUME NEW F, OtherGoes(F) PROVE OtherProofs!Goes(F)
BY OtherStarts, OtherPlans, OtherExecutes, OtherCrashes
   DEF OtherGoes, OtherProofs!Goes, Other!Run, OtherProofs!Run

LEMMA OtherCounts ==
  ASSUME OtherProofs!TypeOK, OtherProofs!NothingPlanned, OtherProofs!Counted,
         NEW F, OtherGoes(F)
  PROVE  /\ OtherProofs!TypeOK' /\ OtherProofs!NothingPlanned' /\ OtherProofs!Counted'
         /\ OtherProofs!Quiet' => /\ OtherProofs!Quiet
                                  /\ ~ OtherProofs!Spend("reads")
                                  /\ ~ OtherProofs!Spend("writes")
BY OtherGoing, OtherProofs!RaceCounts, OtherAssumptions, CrcsAssumption,
   NoPackageAssumption, BoundsAssumption

LEMMA OtherNext ==
  ASSUME OtherProofs!TypeOK, OtherProofs!NothingPlanned, OtherProofs!Racing(disk),
         SolesGone(disk, installed), OtherGoes({}),
         ~ OtherProofs!Spend("reads"), ~ OtherProofs!Spend("writes")
  PROVE  /\ OtherProofs!Racing(disk)' /\ SolesGone(disk, installed)'
         /\ Thinned(disk, disk')
         /\ pc2 # "idle" \/ pc2' # "idle"
         /\ OtherProofs!Alone => OtherProofs!Alone'
<1>1. OtherProofs!SolesGone(disk, installed) /\ OtherProofs!Goes({})
  BY OtherGoing, OtherLeaves
<1>2. /\ (OtherProofs!Racing(disk) /\ OtherProofs!SolesGone(disk, installed))'
      /\ OtherProofs!Thinned(disk, disk')
      /\ pc2 # "idle" \/ pc2' # "idle"
      /\ OtherProofs!Alone => OtherProofs!Alone'
  BY <1>1, OtherProofs!RaceNext, OtherAssumptions, CrcsAssumption,
     NoPackageAssumption, BoundsAssumption
<1> QED
  BY <1>2, OtherLeaves

LEMMA OtherElsewhere ==
  ASSUME OtherProofs!TypeOK, NEW t, NEW t2, Thinned(t, t2), OtherProofs!Racing(t),
         UNCHANGED memory2
  PROVE  OtherProofs!Racing(t2)'
<1>1. OtherProofs!Thinned(t, t2) /\ UNCHANGED <<pc2, cmd2, OtherProofs!planning>>
  BY OtherLeaves DEF memory2, OtherProofs!planning
<1> QED
  BY <1>1, OtherProofs!RacingElsewhere, OtherAssumptions, CrcsAssumption,
     NoPackageAssumption, BoundsAssumption

LEMMA OtherAtRest ==
  ASSUME OtherProofs!TypeOK', OtherProofs!NothingPlanned', NEW t,
         OtherProofs!Racing(t)', pc2' = "idle", LeftNothing({})'
  PROVE  OtherProofs!Alone'
<1>1. OtherProofs!LeftNothing({})'
  BY OtherLeaves
<1> QED
  BY <1>1, OtherProofs!AloneAtRest, OtherAssumptions, CrcsAssumption,
     NoPackageAssumption, BoundsAssumption

LEMMA OtherAloneInit ==
  ASSUME Other!Init, NEW t
  PROVE  /\ OtherProofs!TypeOK /\ OtherProofs!NothingPlanned /\ OtherProofs!Counted
         /\ OtherProofs!Racing(t) /\ OtherProofs!Alone
<1>1. OtherProofs!Init
  BY OtherBegins
<1> QED
  BY <1>1, OtherProofs!AloneInit, OtherProofs!RaceInit, OtherAssumptions,
     CrcsAssumption, NoPackageAssumption, BoundsAssumption

LEMMA OtherAloneStays ==
  ASSUME OtherProofs!Alone, UNCHANGED <<disk, installed>>, UNCHANGED memory2
  PROVE  OtherProofs!Alone'
<1>1. UNCHANGED OtherProofs!vars
  BY DEF memory2, OtherProofs!vars, OtherProofs!planning
<1> QED
  BY <1>1, OtherProofs!AloneStays, OtherAssumptions, CrcsAssumption,
     NoPackageAssumption, BoundsAssumption

(***************************************************************************)
(* As long as nothing fails and only `del`s run, each races the other; and  *)
(* while the two have never run at the same time, each runs alone.          *)
(***************************************************************************)
ClearRun == named.fix = {} /\ NoReadFailed /\ NoWriteFailed

InTurn == (pc = "idle" \/ pc2 = "idle") /\ Alone /\ OtherProofs!Alone

RacePair ==
  /\ Racing(disk) /\ OtherProofs!Racing(disk) /\ SolesGone(disk, installed)
  /\ ~ overlapped => InTurn

PairCounts ==
  /\ TypeOK /\ NothingPlanned /\ Counted
  /\ OtherProofs!TypeOK /\ OtherProofs!NothingPlanned /\ OtherProofs!Counted

SharedInv == PairCounts /\ (ClearRun => RacePair)

LEMMA SharedInit == PairInit => SharedInv
<1> SUFFICES ASSUME PairInit PROVE SharedInv
  OBVIOUS
<1>1. Init /\ Other!Init
  BY DEF PairInit
<1>2. /\ TypeOK /\ NothingPlanned /\ Counted /\ Alone /\ SolesGone(disk, installed)
      /\ Racing(disk)
  BY <1>1, AloneInit, RaceInit
<1>3. /\ OtherProofs!TypeOK /\ OtherProofs!NothingPlanned /\ OtherProofs!Counted
      /\ OtherProofs!Racing(disk) /\ OtherProofs!Alone
  BY <1>1, OtherAloneInit
<1>4. pc = "idle"
  BY <1>1 DEF Init
<1> QED
  BY <1>2, <1>3, <1>4 DEF SharedInv, PairCounts, RacePair, InTurn

\* What one takes away disturbs neither the types nor the plans of the other.
LEMMA UndisturbedThis ==
  ASSUME TypeOK, NothingPlanned, Counted, UNCHANGED memory,
         disk' \in Tree, installed' \in SUBSET Packages
  PROVE  TypeOK' /\ NothingPlanned' /\ Counted'
BY DEF TypeOK, NothingPlanned, Counted, memory, planning

LEMMA UndisturbedOther ==
  ASSUME OtherProofs!TypeOK, OtherProofs!NothingPlanned, OtherProofs!Counted,
         UNCHANGED memory2, disk' \in Tree, installed' \in SUBSET Packages
  PROVE  OtherProofs!TypeOK' /\ OtherProofs!NothingPlanned' /\ OtherProofs!Counted'
<1>1. disk' \in OtherProofs!Tree
  BY OtherHeld
<1> QED
  BY <1>1 DEF OtherProofs!TypeOK, OtherProofs!NothingPlanned, OtherProofs!Counted,
     OtherProofs!NoStatuses, memory2

LEMMA SharedThis ==
  ASSUME SharedInv, Overlap, Goes(named'.fix), UNCHANGED memory2,
         ClearRun' => named.fix = {}
  PROVE  SharedInv'
<1>1. /\ TypeOK' /\ NothingPlanned' /\ Counted'
      /\ Quiet' => Quiet /\ ~ Spend("reads") /\ ~ Spend("writes")
  BY RaceCounts DEF SharedInv, PairCounts
<1>2. disk' \in Tree /\ installed' \in SUBSET Packages
  BY <1>1 DEF TypeOK
<1>3. OtherProofs!TypeOK' /\ OtherProofs!NothingPlanned' /\ OtherProofs!Counted'
  BY <1>2, UndisturbedOther DEF SharedInv, PairCounts
<1>4. ASSUME ClearRun' PROVE RacePair'
  <2>1. Quiet' /\ UNCHANGED left2 /\ named'.fix = {}
    BY <1>4 DEF ClearRun, NoReadFailed, NoWriteFailed, Quiet, memory2
  <2>2. Quiet /\ ~ Spend("reads") /\ ~ Spend("writes") /\ Goes({})
    BY <1>1, <2>1
  <2>3. ClearRun
    BY <1>4, <2>1, <2>2 DEF ClearRun, NoReadFailed, NoWriteFailed, Quiet
  <2>4. RacePair /\ TypeOK /\ NothingPlanned /\ OtherProofs!TypeOK
    BY <2>3 DEF SharedInv, PairCounts
  <2>5. Racing(disk) /\ OtherProofs!Racing(disk) /\ SolesGone(disk, installed)
    BY <2>4 DEF RacePair
  <2>6. /\ Racing(disk)' /\ SolesGone(disk, installed)' /\ Thinned(disk, disk')
        /\ pc # "idle" \/ pc' # "idle"
        /\ Alone => Alone'
    BY <2>2, <2>4, <2>5, RaceNext
  <2>7. PICK t : t = disk'
    OBVIOUS
  <2>8. OtherProofs!Racing(t)'
    BY <2>4, <2>5, <2>6, <2>7, OtherElsewhere
  <2>9. OtherProofs!Racing(disk)'
    BY <2>7, <2>8
  <2>10. ASSUME ~ overlapped' PROVE InTurn'
    <3>1. InTurn /\ (pc' = "idle" \/ pc2' = "idle") /\ pc2' = pc2
      BY <2>4, <2>10 DEF Overlap, RacePair, memory2
    <3>2. pc2' = "idle" /\ Alone'
      BY <2>6, <3>1 DEF InTurn
    <3>3. LeftNothing({})'
      BY <3>2 DEF Alone
    <3> QED
      BY <1>3, <2>8, <3>2, <3>3, OtherAtRest DEF InTurn
  <2> QED
    BY <2>6, <2>9, <2>10 DEF RacePair
<1> QED
  BY <1>1, <1>3, <1>4 DEF SharedInv, PairCounts

LEMMA SharedOther ==
  ASSUME SharedInv, Overlap, OtherGoes(named'.fix), UNCHANGED memory,
         ClearRun' => named.fix = {}
  PROVE  SharedInv'
<1>1. /\ OtherProofs!TypeOK' /\ OtherProofs!NothingPlanned' /\ OtherProofs!Counted'
      /\ OtherProofs!Quiet' => /\ OtherProofs!Quiet
                               /\ ~ OtherProofs!Spend("reads")
                               /\ ~ OtherProofs!Spend("writes")
  BY OtherCounts DEF SharedInv, PairCounts
<1>2. disk' \in Tree /\ installed' \in SUBSET Packages
  BY <1>1, OtherHeld DEF OtherProofs!TypeOK
<1>3. TypeOK' /\ NothingPlanned' /\ Counted'
  BY <1>2, UndisturbedThis DEF SharedInv, PairCounts
<1>4. ASSUME ClearRun' PROVE RacePair'
  <2>1. OtherProofs!Quiet' /\ UNCHANGED left /\ named'.fix = {}
    BY <1>4 DEF ClearRun, NoReadFailed, NoWriteFailed, OtherProofs!Quiet, memory
  <2>2. /\ OtherProofs!Quiet /\ OtherGoes({})
        /\ ~ OtherProofs!Spend("reads") /\ ~ OtherProofs!Spend("writes")
    BY <1>1, <2>1
  <2>3. ClearRun
    BY <1>4, <2>1, <2>2 DEF ClearRun, NoReadFailed, NoWriteFailed, OtherProofs!Quiet
  <2>4. /\ RacePair /\ TypeOK /\ OtherProofs!TypeOK /\ OtherProofs!NothingPlanned
    BY <2>3 DEF SharedInv, PairCounts
  <2>5. Racing(disk) /\ OtherProofs!Racing(disk) /\ SolesGone(disk, installed)
    BY <2>4 DEF RacePair
  <2>6. /\ OtherProofs!Racing(disk)' /\ SolesGone(disk, installed)'
        /\ Thinned(disk, disk')
        /\ pc2 # "idle" \/ pc2' # "idle"
        /\ OtherProofs!Alone => OtherProofs!Alone'
    BY <2>2, <2>4, <2>5, OtherNext
  <2>7. PICK t : t = disk'
    OBVIOUS
  <2>8. Racing(t)'
    <3>1. UNCHANGED <<pc, cmd, planning>>
      BY DEF memory
    <3> QED
      BY <2>4, <2>5, <2>6, <2>7, <3>1, RacingElsewhere
  <2>9. Racing(disk)'
    BY <2>7, <2>8
  <2>10. ASSUME ~ overlapped' PROVE InTurn'
    <3>1. InTurn /\ (pc' = "idle" \/ pc2' = "idle") /\ pc' = pc
      BY <2>4, <2>10 DEF Overlap, RacePair, memory
    <3>2. pc' = "idle" /\ OtherProofs!Alone'
      BY <2>6, <3>1 DEF InTurn
    <3>3. OtherProofs!LeftNothing({})'
      BY <3>2 DEF OtherProofs!Alone
    <3>4. LeftNothing({})'
      BY <3>3, OtherLeaves
    <3> QED
      BY <1>3, <2>8, <3>2, <3>4, AloneAtRest DEF InTurn
  <2> QED
    BY <2>6, <2>9, <2>10 DEF RacePair
<1> QED
  BY <1>1, <1>3, <1>4 DEF SharedInv, PairCounts

\* What is to be fixed only grows, by what the step names.
LEMMA PairGoes ==
  ASSUME PairTypes, PairNext
  PROVE  /\ \/ Goes(named'.fix) /\ UNCHANGED memory2
            \/ OtherGoes(named'.fix) /\ UNCHANGED memory
         /\ named.fix \subseteq named'.fix
         /\ Overlap
<1>1. CASE StartOne
  <2>1. PICK op \in {"del", "fix"}, targets \in SUBSET Packages :
          /\ Issue(op, targets)
          /\ \/ Start(op, targets, FALSE) /\ UNCHANGED memory2
             \/ Other!Start(op, targets, FALSE) /\ UNCHANGED memory
    BY <1>1 DEF StartOne
  <2>2. PICK A \in SUBSET Packages :
          A = IF targets = {} THEN installed ELSE targets
    BY DEF PairTypes, TypeOK
  <2>3. /\ named.fix \subseteq named'.fix
        /\ op = "fix" => A \subseteq named'.fix
    BY <2>1, <2>2 DEF Issue, PairTypes
  <2>4. \/ Goes(named'.fix) /\ UNCHANGED memory2
        \/ OtherGoes(named'.fix) /\ UNCHANGED memory
    BY <2>1, <2>2, <2>3 DEF Goes, OtherGoes
  <2> QED
    BY <2>3, <2>4 DEF PairNext
<1>2. CASE StepThis \/ StepOther
  BY <1>2 DEF StepThis, StepOther, Goes, OtherGoes, PairNext
<1> QED
  BY <1>1, <1>2 DEF PairNext

LEMMA SharedNext == PairInv /\ SharedInv /\ [PairNext]_pairVars => SharedInv'
<1> SUFFICES ASSUME PairInv, SharedInv, [PairNext]_pairVars PROVE SharedInv'
  OBVIOUS
<1>1. CASE PairNext
  <2>1. /\ \/ Goes(named'.fix) /\ UNCHANGED memory2
           \/ OtherGoes(named'.fix) /\ UNCHANGED memory
        /\ named.fix \subseteq named'.fix
        /\ Overlap
    BY <1>1, PairGoes DEF PairInv
  <2>2. ClearRun' => named.fix = {}
    BY <2>1 DEF ClearRun
  <2> QED
    BY <2>1, <2>2, SharedThis, SharedOther
<1>2. CASE UNCHANGED pairVars
  <2>1. UNCHANGED <<disk, installed, vars, memory, memory2, named, overlapped>>
    BY <1>2 DEF pairVars, vars, memory, planning
  <2>2. PairCounts'
    <3>1. disk' \in Tree /\ installed' \in SUBSET Packages
      BY <2>1 DEF SharedInv, PairCounts, TypeOK
    <3> QED
      BY <2>1, <3>1, UndisturbedThis, UndisturbedOther DEF SharedInv, PairCounts
  <2>3. ASSUME ClearRun' PROVE RacePair'
    <3>1. ClearRun
      BY <2>1, <2>3 DEF ClearRun, NoReadFailed, NoWriteFailed, memory, memory2
    <3>2. RacePair /\ TypeOK /\ OtherProofs!TypeOK
      BY <3>1 DEF SharedInv, PairCounts
    <3>3. PICK t : t = disk
      OBVIOUS
    <3>4. Thinned(t, t) /\ Racing(t) /\ OtherProofs!Racing(t)
      BY <3>2, <3>3 DEF Thinned, RacePair
    <3>5. UNCHANGED <<pc, cmd, planning>>
      BY <2>1 DEF memory
    <3>6. Racing(t)' /\ OtherProofs!Racing(t)'
      BY <2>1, <3>2, <3>4, <3>5, RacingElsewhere, OtherElsewhere
    <3>7. Racing(disk)' /\ OtherProofs!Racing(disk)'
      BY <2>1, <3>3, <3>6
    <3>8. SolesGone(disk, installed)'
      BY <2>1, <3>2 DEF RacePair, SolesGone
    <3>9. ~ overlapped' => InTurn'
      <4>1. InTurn => Alone' /\ OtherProofs!Alone'
        BY <2>1, AloneStays, OtherAloneStays DEF InTurn
      <4> QED
        BY <2>1, <3>2, <4>1 DEF RacePair, InTurn, memory, memory2
    <3> QED
      BY <3>7, <3>8, <3>9 DEF RacePair
  <2> QED
    BY <2>2, <2>3 DEF SharedInv
<1> QED
  BY <1>1, <1>2

\* However many `del`s two processes run, at whatever moment either dies, what
\* a package that is gone has left is another installed package's, a directory
\* in use, or, once the two have run at the same time, what another package
\* that is gone claims too.
THEOREM OrphansAreSharedCorrect == PairSpec => []OrphansAreShared
<1>1. PairInv /\ SharedInv => OrphansAreShared
  <2> SUFFICES ASSUME SharedInv, ClearRun, NEW p \in Packages \ installed,
                      NEW q \in Claimed(p), OnDisk(disk, p, q),
                      ~ (\E o \in installed : OnDisk(disk, o, q)),
                      ~ (Claims[p][q].isDir /\ ~ IsEmpty(disk, q))
               PROVE  /\ overlapped
                      /\ \E o \in Packages \ (installed \cup {p}) : OnDisk(disk, o, q)
    BY DEF OrphansAreShared, ClearRun
  <2>1. RacePair
    BY DEF SharedInv
  <2>2. ~ Sole(p, q)
    <3>1. ASSUME HoldsForeign(disk, q) PROVE ~ IsEmpty(disk, q)
      BY <3>1 DEF HoldsForeign, IsEmpty
    <3> QED
      BY <2>1, <3>1 DEF RacePair, SolesGone, LeftInUse
  <2>3. PICK o \in Packages \ {p} : q \in Claimed(o) /\ Claims[o][q] = Claims[p][q]
    BY <2>2 DEF Sole
  <2>4. OnDisk(disk, o, q)
    BY <2>3 DEF OnDisk
  <2>5. overlapped
    <3>1. ~ IsSaved({}, q)
      BY DEF IsSaved
    <3>2. ~ LeftNothing({})
      BY <3>1 DEF LeftNothing
    <3> QED
      BY <2>1, <3>2 DEF RacePair, InTurn, Alone
  <2> QED
    BY <2>3, <2>4, <2>5
<1> QED
  BY <1>1, PairInitHolds, PairNextHolds, SharedInit, SharedNext, PTL DEF PairSpec
=============================================================================
