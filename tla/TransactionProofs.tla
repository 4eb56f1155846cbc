-------------------------- MODULE TransactionProofs --------------------------
(***************************************************************************)
(* Proofs about Transaction for every set of paths, packages and claims     *)
(* that meets the assumptions, and without the bounds of an instance: types,*)
(* what `del` spares, and of `fix` what it spares, when it refuses and that *)
(* it has nothing to do when nothing is missing.                            *)
(***************************************************************************)
EXTENDS Transaction, FileTreeProofs, FiniteSetTheorems, TLAPS

\* The fields of an operation of each kind have their type.
LEMMA FsOpFields ==
  ASSUME NEW op \in FsOp
  PROVE  /\ op.kind \in {"MKDIR", "REMOVEFILE", "RMDIR", "RMDIR_FREED",
                         "CREATEFILE"} => op.path \in Paths
         /\ op.kind = "CREATEFILE" => op.crc \in Crcs
         /\ op.kind = "RENAME" => op.from \in Paths /\ op.to \in Paths
         /\ op.kind = "RENAME_ZIP" => op.pkg \in Packages
         /\ op.kind \in {"MKDIR", "REMOVEFILE", "RMDIR", "RMDIR_FREED",
                         "CREATEFILE", "RENAME", "RENAME_ZIP"}
BY DEF FsOp

\* What an operation makes of a tree, whole or cut off, is a tree.
LEMMA EffectType ==
  ASSUME NEW t \in Tree, NEW op \in FsOp
  PROVE  Effect(t, op) \in Tree
BY FsOpFields, CallsType, CrcsAssumption DEF Effect

LEMMA CutOffType ==
  ASSUME disk \in Tree, NEW op \in FsOp
  PROVE  CutOff(op) \subseteq Tree
BY FsOpFields, CallsType, PartialCrcAssumption DEF CutOff

\* The operations planned are well formed.
LEMMA PlannedOps ==
  ASSUME NEW p \in Packages, NEW q \in Claimed(p)
  PROVE  /\ InstallOp(p, q) \in FsOp
         /\ RenameOp(q, Save(q)) \in FsOp
         /\ RenameZipOp(p) \in FsOp
         /\ Op("RMDIR", q) \in FsOp
         /\ Op("REMOVEFILE", q) \in FsOp
<1>1. /\ q \in Paths
      /\ Save(q) \in Paths
      /\ Claims[p][q].crc \in Crcs
  BY ClaimsAssumption, SaveAssumption DEF Claim
<1> QED
  BY <1>1 DEF InstallOp, RenameOp, RenameZipOp, Op, CreateFileOp, FsOp

LEMMA RmRfType ==
  ASSUME NEW q \in Paths
  PROVE  RmRf(q) \subseteq Seq(FsOp)
<1> SUFFICES ASSUME NEW s \in RemovalOrders(q)
             PROVE  [i \in DOMAIN s |->
                       IF disk[s[i]].kind = "dir" THEN Op("RMDIR_FREED", s[i])
                                                  ELSE Op("REMOVEFILE", s[i])]
                      \in Seq(FsOp)
  BY DEF RmRf
<1>1. Present(q) \subseteq Paths
  BY DEF Present
<1>2. IsFiniteSet(Present(q))
  BY <1>1, PathsAssumption, FS_Subset
<1>3. Cardinality(Present(q)) \in Nat
  BY <1>2, FS_CardinalityType
<1>4. s \in [1..Cardinality(Present(q)) -> Present(q)]
  BY DEF RemovalOrders, SetToSeqs
<1>5. ASSUME NEW i \in DOMAIN s
      PROVE  Op("RMDIR_FREED", s[i]) \in FsOp /\ Op("REMOVEFILE", s[i]) \in FsOp
  BY <1>1, <1>4, <1>5 DEF Op, FsOp
<1> DEFINE ops == [i \in 1..Cardinality(Present(q)) |->
                     IF disk[s[i]].kind = "dir" THEN Op("RMDIR_FREED", s[i])
                                                ELSE Op("REMOVEFILE", s[i])]
<1>6. ops \in [1..Cardinality(Present(q)) -> FsOp]
  BY <1>4, <1>5
<1>7. ops \in Seq(FsOp)
  <2> HIDE DEF ops
  <2> QED BY <1>3, <1>6
<1> QED
  BY <1>4, <1>7

(***************************************************************************)
(* The simulated statuses.                                                  *)
(***************************************************************************)
LEMMA StatusesType ==
  ASSUME NEW st \in [Paths -> Status], NEW t \in Tree,
         NEW q \in Paths, NEW to \in Paths, NEW S, NEW readable \in BOOLEAN
  PROVE  /\ EnsureActual(st, t, q, readable) \in [Paths -> Status]
         /\ EmitMkdir(st, q) \in [Paths -> Status]
         /\ EmitGone(st, S) \in [Paths -> Status]
         /\ EmitMv(st, q, to) \in [Paths -> Status]
<1> USE CrcsAssumption DEF Status
<1>0. Observed(t[q]) \in Status
  BY NodeFields DEF Observed, Tree
<1>1. EnsureActual(st, t, q, readable) \in [Paths -> Status]
  BY <1>0 DEF EnsureActual, Unseen
<1>2. EmitMkdir(st, q) \in [Paths -> Status]
  BY DEF EmitMkdir
<1>3. EmitGone(st, S) \in [Paths -> Status]
  BY DEF EmitGone
<1>4. EmitMv(st, q, to) \in [Paths -> Status]
  BY DEF EmitMv
<1> QED
  BY <1>1, <1>2, <1>3, <1>4

LEMMA EmitInstallType ==
  ASSUME NEW st \in [Paths -> Status], NEW p \in Packages, NEW q \in Claimed(p)
  PROVE  EmitInstall(st, p, q) \in [Paths -> Status]
<1>1. q \in Paths /\ Claims[p][q].crc \in Crcs
  BY ClaimsAssumption DEF Claim
<1> QED
  BY <1>1 DEF EmitInstall, EmitMkdir, Observed, File, Status

(***************************************************************************)
(* Type correctness, action by action.                                      *)
(***************************************************************************)
LEMMA RestType ==
  ASSUME Rest, disk' \in Tree, installed' \subseteq Packages,
         left' \in [{"commands", "reads", "writes", "crashes"} -> Nat]
  PROVE  TypeOK'
<1>1. NoCommand \in Command
  BY DEF NoCommand, Command
<1>2. NoStatuses \in [Paths -> Status]
  BY CrcsAssumption DEF NoStatuses, Unseen, Status
<1>3. shouldNotInstall' \in BOOLEAN /\ shouldProceed' \in BOOLEAN
  BY DEF Rest
<1>4. fsops' \in Seq(FsOp) /\ pkfsops' \in Seq(FsOp)
  BY DEF Rest
<1> QED
  BY <1>1, <1>2, <1>3, <1>4 DEF Rest, TypeOK

LEMMA SpendType ==
  ASSUME TypeOK, NEW what \in {"commands", "reads", "writes", "crashes"},
         Spend(what)
  PROVE  left' \in [{"commands", "reads", "writes", "crashes"} -> Nat]
BY DEF Spend, TypeOK

LEMMA FaultType ==
  ASSUME TypeOK, ReadFault \/ NoFault
  PROVE  /\ left' \in [{"commands", "reads", "writes", "crashes"} -> Nat]
         /\ failed' \subseteq {"read", "write"}
<1>1. CASE ReadFault
  BY <1>1, SpendType DEF ReadFault, TypeOK
<1>2. CASE NoFault
  BY <1>2 DEF NoFault, TypeOK
<1> QED
  BY <1>1, <1>2

LEMMA TypeInit == Init => TypeOK
<1> SUFFICES ASSUME Init PROVE TypeOK
  OBVIOUS
<1>1. NoCommand \in Command
  BY DEF NoCommand, Command
<1>2. NoStatuses \in [Paths -> Status]
  BY CrcsAssumption DEF NoStatuses, Unseen, Status
<1>3. left \in [{"commands", "reads", "writes", "crashes"} -> Nat]
  BY BoundsAssumption DEF Init
<1>4. shouldNotInstall \in BOOLEAN /\ shouldProceed \in BOOLEAN
  BY DEF Init
<1>5. fsops \in Seq(FsOp) /\ pkfsops \in Seq(FsOp)
  BY DEF Init
<1>6. disk \in Tree /\ start \in Tree
  BY InitialTreesAssumption DEF Init
<1> QED
  BY <1>1, <1>2, <1>3, <1>4, <1>5, <1>6 DEF Init, TypeOK

LEMMA TypeCommand ==
  ASSUME TypeOK,
         \/ \E op \in {"del", "fix"}, targets \in SUBSET Packages,
               dryRun \in BOOLEAN : Start(op, targets, dryRun)
         \/ BuildIndex \/ PrepareSysroot \/ SysrootUnreadable
  PROVE  TypeOK'
<1>1. ASSUME NEW op \in {"del", "fix"}, NEW targets \in SUBSET Packages,
             NEW dryRun \in BOOLEAN, Start(op, targets, dryRun)
      PROVE  TypeOK'
  <2>1. cmd' \in Command
    BY <1>1 DEF Start, Command
  <2>2. left' \in [{"commands", "reads", "writes", "crashes"} -> Nat]
    BY <1>1, SpendType DEF Start
  <2> QED
    BY <1>1, <2>1, <2>2 DEF Start, TypeOK
<1>2. CASE BuildIndex
  <2>1. ReadFault \/ NoFault
    BY <1>2 DEF BuildIndex
  <2>2. index' \subseteq Packages
    BY <1>2 DEF BuildIndex, TypeOK
  <2> QED
    BY <1>2, <2>1, <2>2, FaultType DEF BuildIndex, TypeOK
<1>3. CASE PrepareSysroot
  <2>1. Sysroot \in Paths
    BY PathsAssumption
  <2>2. statuses' \in [Paths -> Status]
    <3>1. EnsureActual(statuses, disk, Sysroot, TRUE) \in [Paths -> Status]
      BY <2>1, StatusesType DEF TypeOK
    <3>2. EmitMkdir(EnsureActual(statuses, disk, Sysroot, TRUE), Sysroot)
            \in [Paths -> Status]
      BY <2>1, <3>1, StatusesType DEF TypeOK
    <3>3. \/ statuses' = EnsureActual(statuses, disk, Sysroot, TRUE)
          \/ statuses' = EmitMkdir(EnsureActual(statuses, disk, Sysroot, TRUE), Sysroot)
      BY <1>3, Zenon DEF PrepareSysroot
    <3> QED
      BY <3>1, <3>2, <3>3
  <2>3. fsops' \in Seq(FsOp)
    <3>1. Op("MKDIR", Sysroot) \in FsOp
      BY <2>1 DEF Op, FsOp
    <3>2. fsops' = fsops \/ fsops' = Append(fsops, Op("MKDIR", Sysroot))
      BY <1>3, Zenon DEF PrepareSysroot
    <3> QED
      BY <3>1, <3>2 DEF TypeOK
  <2> QED
    BY <1>3, <2>2, <2>3, FaultType DEF PrepareSysroot, TypeOK
<1>4. CASE SysrootUnreadable
  BY <1>4, SpendType, RestType DEF SysrootUnreadable, persistent, TypeOK
<1> QED
  BY <1>1, <1>2, <1>3, <1>4

\* What every step at a claim may use.
LEMMA AtClaim ==
  ASSUME TypeOK, pc = "plan", NEW q \in remaining, NEW readable \in BOOLEAN
  PROVE  /\ current \in Packages /\ q \in Claimed(current)
         /\ q \in Paths /\ Save(q) \in Paths
         /\ Look(q, readable) \in [Paths -> Status]
<1>1. current \in Packages /\ q \in Claimed(current)
  BY DEF TypeOK
<1>2. q \in Paths /\ Save(q) \in Paths
  BY <1>1, ClaimsAssumption, SaveAssumption
<1> QED
  BY <1>1, <1>2, StatusesType DEF Look, TypeOK

LEMMA VisitType ==
  ASSUME TypeOK, NEW op, NEW q \in remaining, NEW readable \in BOOLEAN,
         Visit(op, q, readable),
         statuses' \in [Paths -> Status], pkfsops' \in Seq(FsOp),
         shouldNotInstall' \in BOOLEAN
  PROVE  TypeOK'
<1>1. ReadFault \/ NoFault
  BY DEF Visit
<1>2. /\ left' \in [{"commands", "reads", "writes", "crashes"} -> Nat]
      /\ failed' \subseteq {"read", "write"}
  BY <1>1, FaultType
<1> QED
  BY <1>2 DEF Visit, TypeOK

LEMMA TypeInstallClaim ==
  ASSUME TypeOK, NEW q \in remaining, NEW readable \in BOOLEAN,
         \/ InstallMissing(q, readable) \/ InstallKept(q) \/ InstallConflict(q)
         \/ InstallDivert(q) \/ InstallDivertFails(q)
  PROVE  TypeOK'
<1>0. pc = "plan"
  BY DEF InstallMissing, InstallKept, InstallConflict, InstallDivert,
         InstallDivertFails, Visit
<1>1. /\ current \in Packages /\ q \in Claimed(current)
      /\ q \in Paths /\ Save(q) \in Paths
      /\ Look(q, TRUE) \in [Paths -> Status]
      /\ Look(q, readable) \in [Paths -> Status]
  BY <1>0, AtClaim
<1>2. InstallOp(current, q) \in FsOp /\ RenameOp(q, Save(q)) \in FsOp
  BY <1>1, PlannedOps
<1>3. CASE InstallMissing(q, readable)
  <2>1. EmitInstall(Look(q, readable), current, q) \in [Paths -> Status]
    BY <1>1, EmitInstallType
  <2>2. Append(pkfsops, InstallOp(current, q)) \in Seq(FsOp)
    BY <1>2 DEF TypeOK
  <2>3. /\ statuses' \in [Paths -> Status] /\ pkfsops' \in Seq(FsOp)
        /\ shouldNotInstall' \in BOOLEAN
    BY <1>3, <2>1, <2>2 DEF InstallMissing, TypeOK
  <2>4. Visit("fix", q, readable)
    BY <1>3, Zenon DEF InstallMissing
  <2> QED
    BY <2>3, <2>4, VisitType, Zenon
<1>4. CASE InstallKept(q)
  BY <1>1, <1>4, VisitType DEF InstallKept, TypeOK
<1>5. CASE InstallConflict(q)
  BY <1>1, <1>5, VisitType DEF InstallConflict, TypeOK
<1>6. CASE InstallDivert(q)
  <2> DEFINE cleared == EmitGone(Look(q, TRUE), Present(Save(q)))
             moved == EmitMv(cleared, q, Save(q))
  <2>1. cleared \in [Paths -> Status]
    BY <1>1, StatusesType DEF TypeOK
  <2>2. moved \in [Paths -> Status]
    <3> HIDE DEF cleared
    <3> QED BY <1>1, <2>1, StatusesType DEF TypeOK
  <2>3. EmitInstall(moved, current, q) \in [Paths -> Status]
    <3> HIDE DEF moved
    <3> QED BY <1>1, <2>2, EmitInstallType
  <2>4. ASSUME NEW removals \in RmRf(Save(q))
        PROVE  pkfsops \o removals \o DivertOps(q) \in Seq(FsOp)
    <3>1. removals \in Seq(FsOp)
      BY <1>1, RmRfType
    <3>2. DivertOps(q) \in Seq(FsOp)
      BY <1>2 DEF DivertOps
    <3> QED
      BY <3>1, <3>2 DEF TypeOK
  <2>5. pkfsops' \in Seq(FsOp)
    BY <1>6, <2>4 DEF InstallDivert
  <2> QED
    BY <1>6, <2>3, <2>5, VisitType DEF InstallDivert, TypeOK
<1>7. CASE InstallDivertFails(q)
  BY <1>1, <1>7, FaultType DEF InstallDivertFails, TypeOK
<1> QED
  BY <1>3, <1>4, <1>5, <1>6, <1>7

LEMMA TypeUninstallClaim ==
  ASSUME TypeOK, NEW q \in remaining, NEW readable \in BOOLEAN,
         Uninstall(q) \/ UninstallLeaves(q, readable)
  PROVE  TypeOK'
<1>0. pc = "plan"
  BY DEF Uninstall, UninstallLeaves, Visit
<1>1. /\ current \in Packages /\ q \in Claimed(current)
      /\ Look(q, TRUE) \in [Paths -> Status]
      /\ Look(q, readable) \in [Paths -> Status]
  BY <1>0, AtClaim
<1>2. CASE Uninstall(q)
  <2>1. pkfsops' \in Seq(FsOp)
    BY <1>1, <1>2, PlannedOps DEF Uninstall, TypeOK
  <2>2. EmitGone(Look(q, TRUE), {q}) \in [Paths -> Status]
    BY <1>0, <1>1, AtClaim, StatusesType DEF TypeOK
  <2> QED
    BY <1>2, <2>1, <2>2, VisitType DEF Uninstall, TypeOK
<1>3. CASE UninstallLeaves(q, readable)
  <2>1. /\ statuses' \in [Paths -> Status] /\ pkfsops' \in Seq(FsOp)
        /\ shouldNotInstall' \in BOOLEAN
    BY <1>1, <1>3 DEF UninstallLeaves, TypeOK
  <2>2. Visit("del", q, readable)
    BY <1>3, Zenon DEF UninstallLeaves
  <2> QED
    BY <2>1, <2>2, VisitType, Zenon
<1> QED
  BY <1>2, <1>3

LEMMA TypePackage ==
  ASSUME TypeOK,
         \/ \E p \in todo : RefusePackage(p) \/ BeginPackage(p)
         \/ FinishInstall \/ FinishUninstall \/ Gate
  PROVE  TypeOK'
<1>1. ASSUME NEW p \in todo, RefusePackage(p) PROVE TypeOK'
  <2>1. ReadFault \/ NoFault
    BY <1>1, Zenon DEF RefusePackage
  <2>2. shouldProceed' \in BOOLEAN
    BY <1>1 DEF RefusePackage
  <2> QED
    BY <1>1, <2>1, <2>2, FaultType DEF RefusePackage, TypeOK
<1>2. ASSUME NEW p \in todo, BeginPackage(p) PROVE TypeOK'
  BY <1>2 DEF BeginPackage, TypeOK
<1>3. CASE FinishInstall
  <2>1. fsops \o pkfsops \in Seq(FsOp) /\ <<>> \in Seq(FsOp)
    BY DEF TypeOK
  <2>2. fsops' \in Seq(FsOp) /\ pkfsops' \in Seq(FsOp)
    BY <1>3, <2>1 DEF FinishInstall, MergeClaims, TypeOK
  <2>3. current \in Packages
    BY <1>3 DEF FinishInstall, MergeClaims, TypeOK
  <2>4. shouldNotInstall' \in BOOLEAN /\ shouldProceed' \in BOOLEAN
    BY <1>3 DEF FinishInstall, MergeClaims, TypeOK
  <2> QED
    BY <1>3, <2>2, <2>3, <2>4 DEF FinishInstall, MergeClaims, TypeOK
<1>4. CASE FinishUninstall
  <2>1. current \in Packages
    BY <1>4 DEF FinishUninstall, RemoveClaims, TypeOK
  <2>2. RenameZipOp(current) \in FsOp
    BY <2>1 DEF RenameZipOp, FsOp
  <2>3. fsops' \in Seq(FsOp) /\ pkfsops' \in Seq(FsOp)
    BY <1>4, <2>2 DEF FinishUninstall, RemoveClaims, TypeOK
  <2> QED
    BY <1>4, <2>3 DEF FinishUninstall, RemoveClaims, TypeOK
<1>5. CASE Gate
  BY <1>5 DEF Gate, planning, TypeOK
<1> QED
  BY <1>1, <1>2, <1>3, <1>4, <1>5

LEMMA TypeExecute ==
  ASSUME TypeOK, Execute \/ Crash
  PROVE  TypeOK'
<1>1. ASSUME fsops # <<>> PROVE Head(fsops) \in FsOp /\ Tail(fsops) \in Seq(FsOp)
  BY <1>1 DEF TypeOK
<1>2. ASSUME fsops # <<>> PROVE CutOff(Head(fsops)) \subseteq Tree
  BY <1>1, <1>2, CutOffType DEF TypeOK
<1>3. CASE ExecuteOp
  <2>1. disk' \in Tree
    BY <1>1, <1>3, EffectType DEF ExecuteOp, NextOp, persistent, TypeOK
  <2>2. installed' \subseteq Packages
    BY <1>3 DEF ExecuteOp, persistent, TypeOK
  <2> QED
    BY <1>1, <1>3, <2>1, <2>2 DEF ExecuteOp, NextOp, NoFault, TypeOK
<1>4. CASE OpFails
  <2>1. disk' \in Tree
    BY <1>2, <1>4 DEF OpFails, NextOp
  <2>2. left' \in [{"commands", "reads", "writes", "crashes"} -> Nat]
    BY <1>4, SpendType DEF OpFails
  <2> QED
    BY <1>1, <1>4, <2>1, <2>2 DEF OpFails, NextOp, TypeOK
<1>5. CASE FreedPathAborts \/ FreedPathFails
  <2>1. CASE FreedPathAborts
    BY <2>1, RestType DEF FreedPathAborts, TypeOK
  <2>2. CASE FreedPathFails
    BY <1>1, <2>2 DEF FreedPathFails, NextOp, NoFault, persistent, TypeOK
  <2> QED
    BY <1>5, <2>1, <2>2
<1>6. CASE FinishExecution
  BY <1>6 DEF FinishExecution, planning, TypeOK
<1>7. CASE Exit
  BY <1>7, RestType DEF Exit, TypeOK
<1>8. CASE Crash
  <2>1. disk' \in Tree
    BY <1>2, <1>8 DEF Crash, TypeOK
  <2>2. left' \in [{"commands", "reads", "writes", "crashes"} -> Nat]
    BY <1>8, SpendType DEF Crash
  <2> QED
    BY <1>8, <2>1, <2>2, RestType DEF Crash, TypeOK
<1> QED
  BY <1>3, <1>4, <1>5, <1>6, <1>7, <1>8 DEF Execute

LEMMA TypeNext == TypeOK /\ [Next]_vars => TypeOK'
<1> SUFFICES ASSUME TypeOK, [Next]_vars PROVE TypeOK'
  OBVIOUS
<1>1. CASE Next
  BY <1>1, TypeCommand, TypeInstallClaim, TypeUninstallClaim, TypePackage,
     TypeExecute DEF Next, Run, Plan
<1>2. CASE UNCHANGED vars
  BY <1>2 DEF vars, TypeOK
<1> QED
  BY <1>1, <1>2

\* Transaction keeps its type, whatever fails and however often.
THEOREM TypeCorrect == Spec => []TypeOK
BY TypeInit, TypeNext, PTL DEF Spec

(***************************************************************************)
(* DelSparesOthers.  A plan of `del` removes only what no package that      *)
(* stays in the index matched when the command was issued.  That is known   *)
(* while planning because the statuses of paths that exist are what is on   *)
(* disk, and it lasts because the index only shrinks and every operation    *)
(* changes no path but its own.                                             *)
(***************************************************************************)
Harmless(op, S) ==
  \/ op.kind = "RENAME_ZIP"
  \/ /\ op.kind \in {"REMOVEFILE", "RMDIR"}
     /\ \A p \in S : ~ OnDisk(start, p, op.path)

AllHarmless(ops, S) == \A i \in DOMAIN ops : Harmless(ops[i], S)

Truthful(st) == \A q \in Paths : st[q].exists => st[q] = Observed(disk[q])

\* What holds of a process before it has anything planned.
NothingPlanned ==
  /\ pc \in {"idle", "index"} => fsops = <<>> /\ statuses = NoStatuses
  /\ pc # "plan" => pkfsops = <<>>
  /\ pc = "prepare" => cmd.op = "fix"

DelPlan ==
  cmd.op = "del" =>
    /\ pc \notin {"execute", "done"} => disk = start /\ Truthful(statuses)
    /\ AllHarmless(fsops, index)
    /\ AllHarmless(pkfsops, index \ {current})

DelInv == TypeOK /\ NothingPlanned /\ DelPlan /\ DelSparesOthers

LEMMA HarmlessAppend ==
  ASSUME NEW S, NEW ops \in Seq(FsOp), NEW op \in FsOp,
         AllHarmless(ops, S), Harmless(op, S)
  PROVE  AllHarmless(Append(ops, op), S)
BY DEF AllHarmless

LEMMA HarmlessConcat ==
  ASSUME NEW S, NEW ops1 \in Seq(FsOp), NEW ops2 \in Seq(FsOp),
         AllHarmless(ops1, S), AllHarmless(ops2, S)
  PROVE  AllHarmless(ops1 \o ops2, S)
<1> SUFFICES ASSUME NEW i \in DOMAIN (ops1 \o ops2)
             PROVE  Harmless((ops1 \o ops2)[i], S)
  BY DEF AllHarmless
<1>1. CASE i <= Len(ops1)
  <2>1. i \in DOMAIN ops1 /\ (ops1 \o ops2)[i] = ops1[i]
    BY <1>1
  <2> QED BY <2>1 DEF AllHarmless
<1>2. CASE i > Len(ops1)
  <2>1. i - Len(ops1) \in DOMAIN ops2 /\ (ops1 \o ops2)[i] = ops2[i - Len(ops1)]
    BY <1>2
  <2> QED BY <2>1 DEF AllHarmless
<1> QED
  BY <1>1, <1>2

LEMMA HarmlessTail ==
  ASSUME NEW S, NEW ops \in Seq(FsOp), ops # <<>>, AllHarmless(ops, S)
  PROVE  Harmless(Head(ops), S) /\ AllHarmless(Tail(ops), S)
<1>1. 1 \in DOMAIN ops /\ Head(ops) = ops[1]
  OBVIOUS
<1>2. ASSUME NEW i \in DOMAIN Tail(ops)
      PROVE  i + 1 \in DOMAIN ops /\ Tail(ops)[i] = ops[i + 1]
  BY <1>2
<1> QED
  BY <1>1, <1>2 DEF AllHarmless

LEMMA HarmlessFewer ==
  ASSUME NEW S, NEW R, R \subseteq S, NEW ops, AllHarmless(ops, S)
  PROVE  AllHarmless(ops, R)
BY DEF AllHarmless, Harmless

\* Looking at a path keeps the statuses truthful, and so does removing one.
LEMMA TruthfulLook ==
  ASSUME TypeOK, Truthful(statuses), NEW q \in Paths, NEW readable \in BOOLEAN
  PROVE  Truthful(Look(q, readable)) /\ Truthful(EmitGone(Look(q, readable), {q}))
<1>1. Truthful(Look(q, readable))
  BY DEF Truthful, Look, EnsureActual, Unseen, TypeOK
<1>2. Truthful(EmitGone(Look(q, readable), {q}))
  <2> DEFINE st == Look(q, readable)
  <2>1. st \in [Paths -> Status]
    BY StatusesType DEF Look, TypeOK
  <2> HIDE DEF st
  <2>2. ASSUME NEW r \in Paths, EmitGone(st, {q})[r].exists
        PROVE  EmitGone(st, {q})[r] = st[r]
    BY <2>1, <2>2 DEF EmitGone, Status
  <2>3. Truthful(st)
    BY <1>1 DEF st
  <2>4. Truthful(EmitGone(st, {q}))
    BY <2>2, <2>3 DEF Truthful
  <2> QED
    BY <2>4 DEF st
<1> QED
  BY <1>1, <1>2

DelRest == NothingPlanned /\ DelPlan /\ DelSparesOthers

LEMMA DelInit == Init => DelRest
BY DEF Init, NoCommand, DelRest, NothingPlanned, DelPlan, DelSparesOthers

LEMMA DelGone == ASSUME Rest PROVE DelRest'
BY DEF Rest, NoCommand, DelRest, NothingPlanned, DelPlan, DelSparesOthers

\* A command of another kind, or none, owes the second half nothing.
LEMMA DelOther ==
  ASSUME NothingPlanned', cmd'.op # "del"
  PROVE  DelRest'
BY DEF DelRest, DelPlan, DelSparesOthers

LEMMA NothingIsTruthful == Truthful(NoStatuses)
BY DEF Truthful, NoStatuses, Unseen

LEMMA DelStart ==
  ASSUME DelInv, NEW op \in {"del", "fix"}, NEW targets \in SUBSET Packages,
         NEW dryRun \in BOOLEAN, Start(op, targets, dryRun)
  PROVE  DelRest'
<1>1. /\ pc = "idle" /\ pc' \in {"index", "done"}
      /\ fsops' = <<>> /\ pkfsops' = <<>> /\ statuses' = NoStatuses
      /\ disk' = disk /\ start' = disk'
  BY DEF Start, DelInv, NothingPlanned
<1>2. NothingPlanned'
  BY <1>1 DEF NothingPlanned
<1>3. Truthful(NoStatuses)'
  BY DEF Truthful, NoStatuses, Unseen
<1>4. Truthful(statuses)'
  BY <1>1, <1>3 DEF Truthful
<1>5. DelPlan'
  BY <1>1, <1>4 DEF DelPlan, AllHarmless
<1>6. DelSparesOthers'
  BY <1>1 DEF DelSparesOthers
<1> QED
  BY <1>2, <1>5, <1>6 DEF DelRest

LEMMA DelBuildIndex ==
  ASSUME DelInv, BuildIndex
  PROVE  DelRest'
<1>1. /\ pc = "index" /\ fsops = <<>> /\ pkfsops = <<>>
      /\ pc' = IF cmd.op = "fix" THEN "prepare" ELSE "choose"
      /\ UNCHANGED <<disk, start, cmd, fsops, pkfsops, statuses>>
  BY DEF BuildIndex, DelInv, NothingPlanned
<1>2. NothingPlanned'
  BY <1>1 DEF NothingPlanned
<1>3. CASE cmd.op = "del"
  <2>1. disk = start /\ Truthful(statuses)
    BY <1>1, <1>3 DEF DelInv, DelPlan
  <2>2. Truthful(statuses)'
    BY <1>1, <2>1 DEF Truthful
  <2>3. DelPlan'
    BY <1>1, <2>1, <2>2 DEF DelPlan, AllHarmless
  <2>4. DelSparesOthers'
    BY <1>1, <2>1 DEF DelSparesOthers
  <2> QED
    BY <1>2, <2>3, <2>4 DEF DelRest
<1>4. CASE cmd.op # "del"
  BY <1>1, <1>2, <1>4, DelOther
<1> QED
  BY <1>3, <1>4

LEMMA DelPrepare ==
  ASSUME DelInv, PrepareSysroot \/ SysrootUnreadable
  PROVE  DelRest'
<1>1. CASE PrepareSysroot
  <2>1. /\ pc = "prepare" /\ pc' = "choose" /\ cmd.op = "fix" /\ cmd' = cmd
        /\ pkfsops' = pkfsops
    BY <1>1 DEF PrepareSysroot, DelInv, NothingPlanned
  <2>2. NothingPlanned'
    BY <2>1 DEF DelInv, NothingPlanned
  <2> QED
    BY <2>1, <2>2, DelOther
<1>2. CASE SysrootUnreadable
  BY <1>2, DelGone DEF SysrootUnreadable
<1> QED
  BY <1>1, <1>2

\* A step of planning that leaves the plans alone.
LEMMA DelKeeps ==
  ASSUME DelInv, pc \notin {"idle", "index", "prepare", "execute", "done"},
         pc' \notin {"idle", "index", "prepare"},
         UNCHANGED <<disk, start, cmd, index, fsops, pkfsops>>,
         pc' # "plan" => pkfsops = <<>>,
         Truthful(statuses) => Truthful(statuses)',
         current' = current \/ pkfsops = <<>>
  PROVE  DelRest'
<1>1. NothingPlanned'
  BY DEF DelInv, NothingPlanned
<1>2. CASE cmd.op = "del"
  <2>1. disk = start /\ Truthful(statuses)
    BY <1>2 DEF DelInv, DelPlan
  <2>2. AllHarmless(fsops, index)' /\ AllHarmless(pkfsops, index \ {current})'
    BY <1>2 DEF DelInv, DelPlan, AllHarmless, Harmless
  <2>3. DelPlan'
    BY <2>1, <2>2 DEF DelPlan
  <2>4. DelSparesOthers'
    BY <2>1 DEF DelSparesOthers
  <2> QED
    BY <1>1, <2>3, <2>4 DEF DelRest
<1>3. CASE cmd.op # "del"
  BY <1>1, <1>3, DelOther
<1> QED
  BY <1>2, <1>3

LEMMA DelPackage ==
  ASSUME DelInv, \/ \E p \in todo : RefusePackage(p) \/ BeginPackage(p)
                 \/ Gate
  PROVE  DelRest'
<1>1. ASSUME NEW p \in todo, RefusePackage(p) \/ BeginPackage(p) PROVE DelRest'
  <2>1. /\ pc = "choose" /\ pc' \in {"choose", "plan"}
        /\ UNCHANGED <<disk, start, cmd, index, fsops, pkfsops, statuses>>
    BY <1>1 DEF RefusePackage, BeginPackage
  <2>2. pkfsops = <<>>
    BY <2>1 DEF DelInv, NothingPlanned
  <2>3. Truthful(statuses) => Truthful(statuses)'
    BY <2>1 DEF Truthful
  <2> QED
    BY <2>1, <2>2, <2>3, DelKeeps
<1>2. CASE Gate
  <2>1. /\ pc = "choose" /\ pc' \in {"execute", "done"}
        /\ UNCHANGED <<disk, start, cmd, index, fsops, pkfsops, statuses>>
    BY <1>2 DEF Gate, planning
  <2>2. pkfsops = <<>>
    BY <2>1 DEF DelInv, NothingPlanned
  <2>3. Truthful(statuses) => Truthful(statuses)'
    BY <2>1 DEF Truthful
  <2> QED
    BY <2>1, <2>2, <2>3, DelKeeps
<1> QED
  BY <1>1, <1>2

LEMMA DelInstall ==
  ASSUME DelInv, NEW q \in remaining, NEW readable \in BOOLEAN,
         \/ InstallMissing(q, readable) \/ InstallKept(q) \/ InstallConflict(q)
         \/ InstallDivert(q) \/ InstallDivertFails(q) \/ FinishInstall
  PROVE  DelRest'
<1>1. /\ pc = "plan" /\ cmd.op = "fix" /\ cmd' = cmd
      /\ pc' = "plan" \/ (pc' = "choose" /\ pkfsops' = <<>>)
  BY DEF InstallMissing, InstallKept, InstallConflict, InstallDivert,
         InstallDivertFails, FinishInstall, Visit
<1>2. NothingPlanned'
  BY <1>1 DEF NothingPlanned
<1> QED
  BY <1>1, <1>2, DelOther

\* Once read, what a package has on disk matches its claim.
LEMMA OnDiskMatches ==
  ASSUME NEW t, NEW p \in Packages, NEW q, OnDisk(t, p, q)
  PROVE  q \in Claimed(p) /\ IsMatch(Observed(t[q]), Claims[p][q])
<1>1. q \in Claimed(p) /\ Claims[p][q] \in Claim
  BY ClaimsAssumption DEF OnDisk
<1>2. Claims[p][q].isDir \in BOOLEAN
  BY <1>1 DEF Claim
<1>3. /\ Observed(t[q]).exists
      /\ Observed(t[q]).isDir <=> Claims[p][q].isDir
      /\ Observed(t[q]).isDir \in BOOLEAN
      /\ Observed(t[q]).crc = Claims[p][q].crc
  BY <1>2 DEF OnDisk, Observed
<1>4. Observed(t[q]).isDir = Claims[p][q].isDir
  BY <1>2, <1>3
<1> QED
  BY <1>1, <1>3, <1>4 DEF IsMatch

\* The removal of a claim is harmless: the status it was decided on is what is
\* on disk, and no other package of the index matches it.
LEMMA DelUninstall ==
  ASSUME DelInv, NEW q \in remaining, NEW readable \in BOOLEAN,
         Uninstall(q) \/ UninstallLeaves(q, readable)
  PROVE  DelRest'
<1>1. /\ pc = "plan" /\ pc' = "plan" /\ cmd.op = "del"
      /\ UNCHANGED <<disk, start, cmd, index, fsops, current>>
  BY DEF Uninstall, UninstallLeaves, Visit
<1>2. /\ q \in Paths /\ current \in Packages /\ q \in Claimed(current)
      /\ Look(q, TRUE) \in [Paths -> Status]
  BY <1>1, AtClaim DEF DelInv
<1>3. disk = start /\ Truthful(statuses)
  BY <1>1 DEF DelInv, DelPlan
<1>4. /\ Truthful(Look(q, readable)) /\ Truthful(Look(q, TRUE))
      /\ Truthful(EmitGone(Look(q, TRUE), {q}))
  BY <1>2, <1>3, TruthfulLook DEF DelInv
<1>5. CASE UninstallLeaves(q, readable)
  <2>1. Truthful(statuses)'
    BY <1>1, <1>4, <1>5 DEF UninstallLeaves, Truthful
  <2>2. UNCHANGED pkfsops
    BY <1>5 DEF UninstallLeaves
  <2> QED
    BY <1>1, <2>1, <2>2, DelKeeps
<1>6. CASE Uninstall(q)
  <2> DEFINE op == Op(IF Claims[current][q].isDir THEN "RMDIR" ELSE "REMOVEFILE", q)
  <2>1. /\ Look(q, TRUE)[q].exists
        /\ \A o \in index \ {current} :
             q \in Claimed(o) => ~ IsMatch(Look(q, TRUE)[q], Claims[o][q])
    BY <1>6 DEF Uninstall, MatchesUs, MatchesOther, IsMatch
  <2>2. Look(q, TRUE)[q] = Observed(start[q])
    BY <1>2, <1>3, <1>4, <2>1 DEF Truthful
  <2>3. Harmless(op, index \ {current})
    <3>1. ASSUME NEW p \in index \ {current}, OnDisk(start, p, q) PROVE FALSE
      <4>1. p \in Packages
        BY DEF DelInv, TypeOK
      <4>2. q \in Claimed(p) /\ IsMatch(Observed(start[q]), Claims[p][q])
        BY <3>1, <4>1, OnDiskMatches
      <4> QED
        BY <2>1, <2>2, <4>2
    <3> QED
      BY <3>1 DEF Harmless, Op
  <2>4. op \in FsOp
    BY <1>2, PlannedOps
  <2>5. pkfsops \in Seq(FsOp) /\ AllHarmless(pkfsops, index \ {current})
    BY <1>1 DEF DelInv, DelPlan, TypeOK
  <2>6. AllHarmless(Append(pkfsops, op), index \ {current})
    <3> HIDE DEF op
    <3> QED BY <2>3, <2>4, <2>5, HarmlessAppend
  <2>7. pkfsops' = Append(pkfsops, op)
    BY <1>6 DEF Uninstall
  <2>8. AllHarmless(pkfsops, index \ {current})' /\ AllHarmless(fsops, index)'
    <3> HIDE DEF op
    <3>1. AllHarmless(fsops, index)
      BY <1>1 DEF DelInv, DelPlan
    <3> QED BY <1>1, <2>6, <2>7, <3>1 DEF AllHarmless, Harmless
  <2>9. Truthful(statuses)'
    BY <1>1, <1>4, <1>6 DEF Uninstall, Truthful
  <2>10. NothingPlanned'
    BY <1>1 DEF NothingPlanned
  <2>11. DelPlan' /\ DelSparesOthers'
    BY <1>1, <1>3, <2>8, <2>9 DEF DelPlan, DelSparesOthers
  <2> QED
    BY <2>10, <2>11 DEF DelRest
<1> QED
  BY <1>5, <1>6

LEMMA DelFinish ==
  ASSUME DelInv, FinishUninstall
  PROVE  DelRest'
<1>1. /\ pc = "plan" /\ pc' = "choose" /\ cmd.op = "del"
      /\ UNCHANGED <<disk, start, cmd, statuses>>
      /\ pkfsops' = <<>> /\ index' = index \ {current}
      /\ fsops' = fsops \o pkfsops \o <<RenameZipOp(current)>>
  BY DEF FinishUninstall, RemoveClaims
<1>2. disk = start /\ Truthful(statuses)
  BY <1>1 DEF DelInv, DelPlan
<1>3. /\ fsops \in Seq(FsOp) /\ pkfsops \in Seq(FsOp)
      /\ <<RenameZipOp(current)>> \in Seq(FsOp)
  BY <1>1, PlannedOps DEF DelInv, TypeOK, RenameZipOp, FsOp
<1>4. AllHarmless(fsops, index \ {current})
  BY <1>1, HarmlessFewer DEF DelInv, DelPlan
<1>5. AllHarmless(pkfsops, index \ {current})
  BY <1>1 DEF DelInv, DelPlan
<1>6. AllHarmless(<<RenameZipOp(current)>>, index \ {current})
  BY DEF AllHarmless, Harmless, RenameZipOp
<1>7. AllHarmless(fsops \o pkfsops, index \ {current})
  BY <1>3, <1>4, <1>5, HarmlessConcat
<1>8. AllHarmless(fsops \o pkfsops \o <<RenameZipOp(current)>>, index \ {current})
  <2>1. fsops \o pkfsops \in Seq(FsOp)
    BY <1>3
  <2> QED
    BY <1>3, <1>6, <1>7, <2>1, HarmlessConcat
<1>9. AllHarmless(fsops, index)'
  BY <1>1, <1>8 DEF AllHarmless, Harmless
<1>10. Truthful(statuses)'
  BY <1>1, <1>2 DEF Truthful
<1>11. NothingPlanned'
  BY <1>1 DEF NothingPlanned
<1>12. AllHarmless(pkfsops, index \ {current})'
  BY <1>1 DEF AllHarmless
<1>13. DelPlan'
  BY <1>1, <1>2, <1>9, <1>10, <1>12 DEF DelPlan
<1>14. DelSparesOthers'
  BY <1>1, <1>2 DEF DelSparesOthers
<1> QED
  BY <1>11, <1>13, <1>14 DEF DelRest

\* A harmless operation changes nothing but its own path.
LEMMA HarmlessEffect ==
  ASSUME NEW t \in Tree, NEW op \in FsOp, NEW S, Harmless(op, S)
  PROVE  \A q \in Paths :
           Effect(t, op)[q] = t[q] \/ (q = op.path /\ op.kind # "RENAME_ZIP")
BY FsOpFields, CrcsAssumption
   DEF Harmless, Effect, RemovePath, RemoveDir, Tree, Node, Missing

LEMMA DelExecute ==
  ASSUME DelInv, Execute \/ Crash
  PROVE  DelRest'
<1>1. CASE ExecuteOp \/ OpFails \/ FreedPathFails
  <2>1. /\ pc = "execute" /\ pc' = "execute" /\ fsops # <<>>
        /\ fsops' = Tail(fsops)
        /\ UNCHANGED <<start, cmd, index, pkfsops, current>>
    BY <1>1 DEF ExecuteOp, OpFails, FreedPathFails, NextOp
  <2>2. NothingPlanned'
    BY <2>1 DEF DelInv, NothingPlanned
  <2>3. CASE cmd.op = "del"
    <3>1. fsops \in Seq(FsOp) /\ AllHarmless(fsops, index) /\ pkfsops = <<>>
      BY <2>1, <2>3 DEF DelInv, DelPlan, TypeOK, NothingPlanned
    <3>2. Harmless(Head(fsops), index) /\ AllHarmless(Tail(fsops), index)
      BY <2>1, <3>1, HarmlessTail
    <3>3. Head(fsops) \in FsOp
      BY <2>1, <3>1
    <3>4. disk' = disk \/ disk' = Effect(disk, Head(fsops))
      <4>1. CASE ExecuteOp
        BY <4>1 DEF ExecuteOp, persistent
      <4>2. CASE OpFails
        BY <3>2, <4>2 DEF OpFails, CutOff, Harmless
      <4>3. CASE FreedPathFails
        BY <4>3 DEF FreedPathFails, persistent
      <4> QED BY <1>1, <4>1, <4>2, <4>3
    <3>5. \A p \in index, q \in Paths : OnDisk(start, p, q) => disk'[q] = disk[q]
      <4>1. \A q \in Paths : \/ Effect(disk, Head(fsops))[q] = disk[q]
                             \/ /\ q = Head(fsops).path
                                /\ Head(fsops).kind # "RENAME_ZIP"
        BY <3>2, <3>3, HarmlessEffect DEF DelInv, TypeOK
      <4> QED
        BY <3>2, <3>4, <4>1 DEF Harmless
    <3>6. DelSparesOthers'
      BY <2>1, <2>3, <3>5 DEF DelInv, DelSparesOthers, OnDisk
    <3>7. DelPlan'
      BY <2>1, <3>1, <3>2 DEF DelPlan, AllHarmless, Harmless
    <3> QED
      BY <2>2, <3>6, <3>7 DEF DelRest
  <2> QED
    BY <2>1, <2>2, <2>3, DelOther
<1>2. CASE FinishExecution
  <2>1. /\ pc = "execute" /\ pc' = "done"
        /\ UNCHANGED <<disk, start, cmd, index, fsops, pkfsops, current>>
    BY <1>2 DEF FinishExecution, planning
  <2>2. NothingPlanned'
    BY <2>1 DEF DelInv, NothingPlanned
  <2>3. DelPlan' /\ DelSparesOthers'
    BY <2>1 DEF DelInv, DelPlan, DelSparesOthers, AllHarmless, Harmless
  <2> QED
    BY <2>2, <2>3 DEF DelRest
<1>3. CASE FreedPathAborts \/ Exit \/ Crash
  BY <1>3, DelGone DEF FreedPathAborts, Exit, Crash
<1> QED
  BY <1>1, <1>2, <1>3 DEF Execute

LEMMA DelNext == DelInv /\ [Next]_vars => DelInv'
<1> SUFFICES ASSUME DelInv, [Next]_vars PROVE DelInv'
  OBVIOUS
<1>1. TypeOK'
  BY TypeNext DEF DelInv
<1>2. ASSUME Next PROVE DelRest'
  <2>1. ASSUME FinishInstall PROVE DelRest'
    <3>1. /\ cmd.op = "fix" /\ cmd' = cmd /\ pc' = "choose" /\ pkfsops' = <<>>
      BY <2>1 DEF FinishInstall, MergeClaims
    <3>2. NothingPlanned'
      BY <3>1 DEF NothingPlanned
    <3> QED
      BY <3>1, <3>2, DelOther
  <2> QED
    BY <1>2, <2>1, DelStart, DelBuildIndex, DelPrepare, DelPackage, DelInstall,
       DelUninstall, DelFinish, DelExecute DEF Next, Run, Plan
<1>3. ASSUME UNCHANGED vars PROVE DelRest'
  <2>1. UNCHANGED <<disk, start, pc, cmd, index, statuses, fsops, pkfsops, current>>
    BY <1>3 DEF vars
  <2>2. NothingPlanned'
    BY <2>1 DEF DelInv, NothingPlanned
  <2>3. DelSparesOthers'
    BY <2>1 DEF DelInv, DelSparesOthers
  <2>4. Truthful(statuses)' <=> Truthful(statuses)
    BY <2>1 DEF Truthful
  <2>5. AllHarmless(fsops, index)' <=> AllHarmless(fsops, index)
    BY <2>1 DEF AllHarmless, Harmless
  <2>6. AllHarmless(pkfsops, index \ {current})' <=>
          AllHarmless(pkfsops, index \ {current})
    BY <2>1 DEF AllHarmless, Harmless
  <2>7. DelPlan'
    BY <2>1, <2>4, <2>5, <2>6 DEF DelInv, DelPlan
  <2> QED
    BY <2>2, <2>3, <2>7 DEF DelRest
<1> QED
  BY <1>1, <1>2, <1>3 DEF DelInv, DelRest

\* A `del` never takes a file or a directory from a package that stays in the
\* index, for any packages, trees, failures and crashes.
THEOREM DelSparesOthersCorrect == Spec => []DelSparesOthers
<1>1. Init => DelInv
  BY TypeInit, DelInit DEF DelInv, DelRest
<1>2. DelInv => DelSparesOthers
  BY DEF DelInv
<1> QED
  BY <1>1, <1>2, DelNext, PTL DEF Spec


(***************************************************************************)
(* What lies above a claim, and what operations do to a tree.               *)
(***************************************************************************)
\* A package claims as a directory all that lies above what it claims.
LEMMA ClaimsLieInDirectories ==
  ASSUME NEW o \in Packages, NEW q \in Claimed(o),
         NEW p \in Paths, p # Sysroot, IsBelow(q, p)
  PROVE  p \in Claimed(o) /\ Claims[o][p] = DirClaim
<1> DEFINE Above(k) == SubSeq(q, 1, Len(q) - k)
           Bad == {k \in Nat : 1 <= k /\ k < Len(q) /\
                     ~ (Above(k) \in Claimed(o) /\ Claims[o][Above(k)] = DirClaim)}
<1>0. q \in Paths /\ Len(q) \in Nat
  BY PathIsSequence, ClaimsAssumption
<1>1. ASSUME NEW k \in Nat, k < Len(q)
      PROVE  /\ Above(k) # Sysroot
             /\ Front(Above(k)) = Above(k + 1)
             /\ k = 0 => Above(k) = q
  <2>1. Len(q) - k \in 0 .. Len(q) /\ Len(q) - k > 0
    BY <1>0, <1>1
  <2>2. (Len(q) - k) - 1 = Len(q) - (k + 1)
    BY <1>0, <1>1
  <2>3. PICK n \in 0 .. Len(q) :
          n = Len(q) - k /\ n > 0 /\ n - 1 = Len(q) - (k + 1)
    BY <2>1, <2>2
  <2>4. /\ SubSeq(q, 1, n) # Sysroot
        /\ Front(SubSeq(q, 1, n)) = SubSeq(q, 1, n - 1)
        /\ n = Len(q) => SubSeq(q, 1, n) = q
    BY <1>0, <2>3, PathAbove
  <2>5. /\ SubSeq(q, 1, n) # Sysroot
        /\ Front(SubSeq(q, 1, n)) = SubSeq(q, 1, Len(q) - (k + 1))
        /\ k = 0 => SubSeq(q, 1, n) = q
    BY <1>0, <2>3, <2>4
  <2> QED
    BY <2>3, <2>5
<1>2. Bad = {}
  <2> SUFFICES ASSUME Bad # {} PROVE FALSE
    OBVIOUS
  <2>1. PICK k \in Bad : \A m \in Bad : k <= m
    BY LeastNatural
  <2>2. k - 1 \in Nat /\ k - 1 < Len(q) /\ k - 1 \notin Bad
    BY <1>0, <2>1
  <2>3. /\ Front(Above(k - 1)) = Above(k)
        /\ k - 1 = 0 => Above(k - 1) = q
    <3>1. (k - 1) + 1 = k
      OBVIOUS
    <3> QED
      BY <1>1, <2>2, <3>1
  <2>4. Above(k - 1) \in Claimed(o)
    <3>1. CASE k - 1 = 0
      BY <2>3, <3>1
    <3>2. CASE k - 1 # 0
      BY <2>2, <3>2
    <3> QED BY <3>1, <3>2
  <2>5. Above(k) # Sysroot
    BY <1>1
  <2> HIDE DEF Above
  <2>6. Above(k) \in Claimed(o) /\ Claims[o][Above(k)] = DirClaim
    BY <2>3, <2>4, <2>5, ClaimsAssumption
  <2> QED
    BY <2>6
<1>3. p = Above(Len(q) - Len(p)) /\ Len(p) \in Nat /\ Len(p) < Len(q) /\ Len(p) > 0
  <2>1. Len(q) - (Len(q) - Len(p)) = Len(p) /\ Len(p) \in Nat
    BY <1>0, PathIsSequence
  <2>2. Len(p) > 0
    BY PathIsSequence DEF Sysroot
  <2> QED
    BY <1>0, <2>1, <2>2, BelowIsCut
<1>4. Len(q) - Len(p) \in Nat /\ 1 <= Len(q) - Len(p) /\ Len(q) - Len(p) < Len(q)
  BY <1>0, <1>3
<1>5. LET a == Above(Len(q) - Len(p)) IN a \in Claimed(o) /\ Claims[o][a] = DirClaim
  BY <1>2, <1>4
<1> QED
  BY <1>3, <1>5

\* Every operation, whole or cut off, keeps a tree well formed.
LEMMA EffectWellFormed ==
  ASSUME NEW t \in Tree, WellFormed(t), NEW op \in FsOp
  PROVE  WellFormed(Effect(t, op))
BY FsOpFields, CallsWellFormed, RenameWellFormed, CrcsAssumption DEF Effect

LEMMA CutOffWellFormed ==
  ASSUME disk \in Tree, WellFormed(disk), NEW op \in FsOp, NEW t \in CutOff(op)
  PROVE  WellFormed(t)
BY FsOpFields, CallsWellFormed, PartialCrcAssumption DEF CutOff

(***************************************************************************)
(* The disk is always a tree, and so was the one a command found.           *)
(***************************************************************************)
TreesWellFormed == WellFormed(disk) /\ WellFormed(start)

LEMMA WellFormedInit == Init => TreesWellFormed
BY InitialTreesAssumption DEF Init, TreesWellFormed

LEMMA WellFormedNext ==
  ASSUME TypeOK, TreesWellFormed, [Next]_vars
  PROVE  TreesWellFormed'
<1>1. ASSUME UNCHANGED <<disk, start>> PROVE TreesWellFormed'
  BY <1>1 DEF TreesWellFormed, WellFormed
<1>2. ASSUME disk' = disk, start' = disk' PROVE TreesWellFormed'
  BY <1>2 DEF TreesWellFormed, WellFormed
<1>3. ASSUME WellFormed(disk'), start' = start \/ start' = disk'
      PROVE TreesWellFormed'
  BY <1>3 DEF TreesWellFormed, WellFormed
<1>4. ASSUME fsops # <<>> PROVE Head(fsops) \in FsOp
  BY <1>4 DEF TypeOK
<1>5. ASSUME NEW op \in {"del", "fix"}, NEW targets \in SUBSET Packages,
             NEW dryRun \in BOOLEAN, Start(op, targets, dryRun)
      PROVE  TreesWellFormed'
  BY <1>2, <1>5 DEF Start
<1>6. ASSUME Plan PROVE TreesWellFormed'
  <2>1. CASE SysrootUnreadable
    BY <1>2, <2>1 DEF SysrootUnreadable, persistent, Rest
  <2>2. CASE BuildIndex \/ PrepareSysroot \/ FinishInstall \/ FinishUninstall \/ Gate
    BY <1>1, <2>2 DEF BuildIndex, PrepareSysroot, FinishInstall, FinishUninstall,
       Gate
  <2>3. ASSUME NEW p \in todo, RefusePackage(p) \/ BeginPackage(p)
        PROVE  TreesWellFormed'
    BY <1>1, <2>3 DEF RefusePackage, BeginPackage
  <2>4. ASSUME NEW q \in remaining, NEW readable \in BOOLEAN,
               \/ InstallMissing(q, readable) \/ UninstallLeaves(q, readable)
               \/ InstallKept(q) \/ InstallConflict(q)
               \/ InstallDivert(q) \/ InstallDivertFails(q) \/ Uninstall(q)
        PROVE  TreesWellFormed'
    <3>1. UNCHANGED <<disk, start>>
      BY <2>4 DEF InstallMissing, InstallKept, InstallConflict, InstallDivert,
         InstallDivertFails, Uninstall, UninstallLeaves, Visit
    <3> QED
      BY <1>1, <3>1
  <2> QED
    BY <1>6, <2>1, <2>2, <2>3, <2>4 DEF Plan
<1>7. CASE ExecuteOp
  <2>1. /\ fsops # <<>> /\ start' = start
        /\ disk' = disk \/ disk' = Effect(disk, Head(fsops))
    BY <1>7 DEF ExecuteOp, NextOp, persistent
  <2>2. WellFormed(disk')
    BY <1>4, <2>1, EffectWellFormed DEF TypeOK, TreesWellFormed
  <2> QED
    BY <1>3, <2>1, <2>2
<1>8. CASE OpFails
  <2>1. fsops # <<>> /\ start' = start /\ disk' \in CutOff(Head(fsops))
    BY <1>8 DEF OpFails, NextOp
  <2>2. WellFormed(disk')
    BY <1>4, <2>1, CutOffWellFormed DEF TypeOK, TreesWellFormed
  <2> QED
    BY <1>3, <2>1, <2>2
<1>9. CASE FreedPathFails \/ FreedPathAborts \/ FinishExecution \/ Exit
  BY <1>1, <1>2, <1>9
     DEF FreedPathFails, FreedPathAborts, FinishExecution, Exit, Rest, NextOp, persistent
<1>10. CASE Crash
  <2>1. start' = disk'
    BY <1>10 DEF Crash, Rest
  <2>2. disk' = disk \/ (fsops # <<>> /\ disk' \in CutOff(Head(fsops)))
    BY <1>10 DEF Crash
  <2>3. WellFormed(disk')
    BY <1>4, <2>2, CutOffWellFormed DEF TypeOK, TreesWellFormed
  <2> QED
    BY <1>3, <2>1, <2>3
<1>11. CASE UNCHANGED vars
  BY <1>1, <1>11 DEF vars
<1> QED
  BY <1>5, <1>6, <1>7, <1>8, <1>9, <1>10, <1>11 DEF Next, Run, Execute

(***************************************************************************)
(* What a plan spares.  S is a set of paths at which something is on disk;  *)
(* an operation that does not touch them leaves them as they are.           *)
(***************************************************************************)
Touches(op, q) ==
  \/ /\ op.kind \in {"CREATEFILE", "REMOVEFILE", "RMDIR", "RMDIR_FREED"}
     /\ q = op.path
  \/ /\ op.kind = "RENAME"
     /\ q \in {op.from, op.to} \/ IsBelow(q, op.from) \/ IsBelow(q, op.to)

Spares(ops, S) == \A i \in DOMAIN ops : \A q \in S : ~ Touches(ops[i], q)

LEMMA UntouchedStays ==
  ASSUME NEW t \in Tree, NEW op \in FsOp, NEW q \in Paths, t[q] # Missing,
         ~ Touches(op, q)
  PROVE  Effect(t, op)[q] = t[q]
<1>1. CASE op.kind = "RENAME"
  BY <1>1, FsOpFields DEF Effect, Rename, Touches
<1>2. CASE op.kind # "RENAME"
  BY <1>2, FsOpFields
     DEF Effect, MakeDir, WriteFile, RemovePath, RemoveDir, Touches, Tree
<1> QED
  BY <1>1, <1>2

LEMMA UntouchedNotCutOff ==
  ASSUME disk \in Tree, NEW op \in FsOp, NEW q \in Paths, ~ Touches(op, q),
         NEW t \in CutOff(op)
  PROVE  t[q] = disk[q]
BY FsOpFields DEF CutOff, WriteFile, Touches, Tree

LEMMA SparesConcat ==
  ASSUME NEW S, NEW ops1 \in Seq(FsOp), NEW ops2 \in Seq(FsOp),
         Spares(ops1, S), Spares(ops2, S)
  PROVE  Spares(ops1 \o ops2, S)
<1> SUFFICES ASSUME NEW i \in DOMAIN (ops1 \o ops2), NEW q \in S
             PROVE  ~ Touches((ops1 \o ops2)[i], q)
  BY DEF Spares
<1>1. CASE i <= Len(ops1)
  <2>1. i \in DOMAIN ops1 /\ (ops1 \o ops2)[i] = ops1[i]
    BY <1>1
  <2> QED BY <2>1 DEF Spares
<1>2. CASE i > Len(ops1)
  <2>1. i - Len(ops1) \in DOMAIN ops2 /\ (ops1 \o ops2)[i] = ops2[i - Len(ops1)]
    BY <1>2
  <2> QED BY <2>1 DEF Spares
<1> QED
  BY <1>1, <1>2

LEMMA SparesAppend ==
  ASSUME NEW S, NEW ops \in Seq(FsOp), NEW op \in FsOp, Spares(ops, S),
         \A q \in S : ~ Touches(op, q)
  PROVE  Spares(Append(ops, op), S)
BY DEF Spares

LEMMA SparesTail ==
  ASSUME NEW S, NEW ops \in Seq(FsOp), ops # <<>>, Spares(ops, S)
  PROVE  /\ \A q \in S : ~ Touches(Head(ops), q)
         /\ Spares(Tail(ops), S)
<1>1. 1 \in DOMAIN ops /\ Head(ops) = ops[1]
  OBVIOUS
<1>2. ASSUME NEW i \in DOMAIN Tail(ops)
      PROVE  i + 1 \in DOMAIN ops /\ Tail(ops)[i] = ops[i + 1]
  BY <1>2
<1> QED
  BY <1>1, <1>2 DEF Spares

LEMMA SparesFewer ==
  ASSUME NEW S, NEW R, R \subseteq S, NEW ops, Spares(ops, S)
  PROVE  Spares(ops, R)
BY DEF Spares

\* rm_rf touches the path it is given and what lies below it.
LEMMA RmRfSpares ==
  ASSUME NEW r \in Paths, NEW removals \in RmRf(r), NEW S,
         \A q \in S : q # r /\ ~ IsBelow(q, r)
  PROVE  Spares(removals, S)
<1> PICK s \in RemovalOrders(r) :
      removals = [i \in DOMAIN s |->
                    IF disk[s[i]].kind = "dir" THEN Op("RMDIR_FREED", s[i])
                                               ELSE Op("REMOVEFILE", s[i])]
  BY DEF RmRf
<1>1. \A i \in DOMAIN s : s[i] \in Present(r)
  BY DEF RemovalOrders, SetToSeqs
<1>2. \A i \in DOMAIN s : removals[i].path = s[i] /\ removals[i].kind # "RENAME"
  BY DEF Op
<1>3. ASSUME NEW i \in DOMAIN removals, NEW q \in S PROVE ~ Touches(removals[i], q)
  <2>1. i \in DOMAIN s
    OBVIOUS
  <2>2. removals[i].path # q /\ removals[i].kind # "RENAME"
    BY <1>1, <1>2, <2>1 DEF Present
  <2> QED
    BY <2>2 DEF Touches
<1> QED
  BY <1>3 DEF Spares

(***************************************************************************)
(* What is known of the paths in S: once looked at, what is on disk.        *)
(***************************************************************************)
Settled(st, S) == \A q \in S : st[q].seen => st[q] = Observed(disk[q])

LEMMA SettledLook ==
  ASSUME TypeOK, NEW S \in SUBSET Paths, Settled(statuses, S), NEW q \in Paths
  PROVE  /\ Settled(Look(q, TRUE), S)
         /\ q \in S => Look(q, TRUE)[q] = Observed(disk[q])
BY DEF Settled, Look, EnsureActual, Observed, TypeOK

\* What the packages in Y have on the tree t, outside the .zpksave names of the
\* packages in T.
Held(Y, T, t) ==
  {q \in Paths : ~ IsSaved(T, q) /\ \E p \in Y : OnDisk(t, p, q)}

LEMMA HeldFacts ==
  ASSUME NEW Y \in SUBSET Packages, NEW T \in SUBSET Packages,
         NEW t \in Tree, NEW q \in Held(Y, T, t)
  PROVE  /\ q \in Paths \ {Sysroot} /\ t[q] # Missing
         /\ \A p \in T : \A r \in Claimed(p) : q # Save(r) /\ ~ IsBelow(q, Save(r))
<1>1. PICK p \in Y : OnDisk(t, p, q)
  BY DEF Held
<1>2. q \in Claimed(p) /\ t[q].kind # "missing"
  BY <1>1 DEF OnDisk
<1> QED
  BY <1>2, ClaimsAssumption DEF Held, IsSaved, Missing

\* A claimed path above something held is held as well.
LEMMA HeldIsClosed ==
  ASSUME NEW Y \in SUBSET Packages, NEW T \in SUBSET Packages,
         NEW t \in Tree, WellFormed(t), NEW r \in Held(Y, T, t),
         NEW q \in Paths \ {Sysroot}, IsBelow(r, q)
  PROVE  q \in Held(Y, T, t)
<1>1. PICK p \in Y : OnDisk(t, p, r)
  BY DEF Held
<1>2. p \in Packages /\ r \in Claimed(p) /\ r \in Paths /\ t[r].kind # "missing"
  BY <1>1, ClaimsAssumption DEF OnDisk
<1>3. q \in Claimed(p) /\ Claims[p][q] = DirClaim
  BY <1>2, ClaimsLieInDirectories
<1>4. t[q] = Directory
  BY <1>2, NodesLieInDirectories
<1>5. OnDisk(t, p, q)
  BY <1>3, <1>4 DEF OnDisk, DirClaim, Directory
<1>6. ~ IsSaved(T, q)
  <2> SUFFICES ASSUME NEW o \in T, NEW c \in Claimed(o),
                      q = Save(c) \/ IsBelow(q, Save(c))
               PROVE  FALSE
    BY DEF IsSaved
  <2>1. Save(c) \in Paths
    BY SaveAssumption
  <2>2. IsBelow(r, Save(c))
    BY <1>2, <2>1, BelowTransitive
  <2> QED
    BY <2>2, HeldFacts
<1> QED
  BY <1>5, <1>6 DEF Held

(***************************************************************************)
(* A process spares what the packages in Y have on the tree t: it has it    *)
(* right and its plans leave it alone.  This lasts while it plans, whatever *)
(* it plans for packages that are not in Y, as long as it can read what it  *)
(* looks at and its index holds Y.                                          *)
(***************************************************************************)
SparesHeld(S) == Settled(statuses, S) /\ Spares(fsops, S) /\ Spares(pkfsops, S)

\* What is held matches another package when it is looked at.
LEMMA HeldMatchesOther ==
  ASSUME TypeOK, NEW Y, Y \subseteq index \ {current}, NEW T \in SUBSET Packages,
         NEW t \in Tree, NEW q \in Held(Y, T, t), disk[q] = t[q],
         Settled(statuses, Held(Y, T, t))
  PROVE  /\ Look(q, TRUE)[q].exists
         /\ MatchesOther(Look(q, TRUE), index, current, q)
<1>1. q \in Paths /\ Held(Y, T, t) \in SUBSET Paths
  BY DEF Held
<1>2. Look(q, TRUE)[q] = Observed(t[q])
  BY <1>1, SettledLook
<1>3. PICK p \in Y : OnDisk(t, p, q)
  BY DEF Held
<1>4. p \in Packages /\ p \in index \ {current}
  BY DEF TypeOK
<1>5. q \in Claimed(p) /\ IsMatch(Observed(t[q]), Claims[p][q])
  BY <1>3, <1>4, OnDiskMatches
<1> QED
  BY <1>2, <1>4, <1>5 DEF MatchesOther, IsMatch

LEMMA InstallSpares ==
  ASSUME TypeOK, NEW Y, Y \subseteq index \ {current}, NEW T \in SUBSET Packages,
         NEW t \in Tree, WellFormed(t), NEW S, S = Held(Y, T, t),
         \A q \in S : disk[q] = t[q], SparesHeld(S), current \in T,
         NEW q \in remaining, NEW readable \in BOOLEAN,
         \/ InstallMissing(q, readable) \/ InstallKept(q) \/ InstallConflict(q)
         \/ InstallDivert(q) \/ InstallDivertFails(q),
         "read" \notin failed'
  PROVE  Settled(statuses', S) /\ Spares(pkfsops', S)
<1>0. pc = "plan"
  BY DEF InstallMissing, InstallKept, InstallConflict, InstallDivert,
         InstallDivertFails, Visit
<1>1. /\ current \in Packages /\ q \in Claimed(current)
      /\ q \in Paths \ {Sysroot} /\ Save(q) \in Paths
  BY <1>0, AtClaim, ClaimsAssumption DEF TypeOK
<1>2. S \in SUBSET Paths /\ Y \in SUBSET Packages
  BY DEF Held, TypeOK
<1>3. /\ Settled(Look(q, TRUE), S) /\ Look(q, TRUE) \in [Paths -> Status]
      /\ q \in S => /\ Look(q, TRUE)[q].exists
                    /\ MatchesOther(Look(q, TRUE), index, current, q)
  BY <1>0, <1>1, <1>2, AtClaim, SettledLook, HeldMatchesOther DEF SparesHeld
<1>4. InstallOp(current, q) \in FsOp /\ RenameOp(q, Save(q)) \in FsOp
  BY <1>1, PlannedOps
<1>5. pkfsops \in Seq(FsOp) /\ Spares(pkfsops, S)
  BY DEF TypeOK, SparesHeld
<1>6. q \notin S => \A r \in S : ~ Touches(InstallOp(current, q), r)
  BY DEF InstallOp, Touches, Op, CreateFileOp
<1>7. CASE InstallMissing(q, readable)
  <2>1. readable = TRUE
    BY <1>7 DEF InstallMissing, Visit, ReadFault
  <2>2. q \notin S
    BY <1>3, <1>7, <2>1 DEF InstallMissing
  <2>3. /\ statuses' = EmitInstall(Look(q, TRUE), current, q)
        /\ pkfsops' = Append(pkfsops, InstallOp(current, q))
    BY <1>7, <2>1 DEF InstallMissing
  <2>4. Settled(statuses', S)
    BY <1>2, <1>3, <2>2, <2>3 DEF Settled, EmitInstall, EmitMkdir
  <2>5. Spares(pkfsops', S)
    BY <1>4, <1>5, <1>6, <2>2, <2>3, SparesAppend
  <2> QED
    BY <2>4, <2>5
<1>8. CASE InstallKept(q)
  BY <1>3, <1>5, <1>8 DEF InstallKept
<1>9. CASE InstallConflict(q)
  BY <1>3, <1>5, <1>9 DEF InstallConflict
<1>10. CASE InstallDivertFails(q)
  BY <1>3, <1>5, <1>10 DEF InstallDivertFails
<1>11. CASE InstallDivert(q)
  <2> DEFINE cleared == EmitGone(Look(q, TRUE), Present(Save(q)))
             moved == EmitMv(cleared, q, Save(q))
  <2>1. q \notin S
    BY <1>3, <1>11 DEF InstallDivert, Diverted
  <2>2. \A r \in S : /\ r \in Paths /\ r # q /\ ~ IsBelow(r, q)
                     /\ r # Save(q) /\ ~ IsBelow(r, Save(q))
    BY <1>1, <1>2, <2>1, HeldFacts, HeldIsClosed
  <2>3. PICK removals \in RmRf(Save(q)) :
          pkfsops' = pkfsops \o removals \o DivertOps(q)
    BY <1>11 DEF InstallDivert
  <2>4. removals \in Seq(FsOp) /\ Spares(removals, S)
    BY <1>1, <2>2, RmRfType, RmRfSpares
  <2>5. DivertOps(q) \in Seq(FsOp) /\ Spares(DivertOps(q), S)
    <3>1. <<RenameOp(q, Save(q))>> \in Seq(FsOp) /\ Spares(<<RenameOp(q, Save(q))>>, S)
      BY <1>4, <2>2 DEF Spares, Touches, RenameOp
    <3>2. DivertOps(q) = Append(<<RenameOp(q, Save(q))>>, InstallOp(current, q))
      BY DEF DivertOps
    <3> QED
      BY <1>4, <1>6, <2>1, <3>1, <3>2, SparesAppend
  <2>6. pkfsops \o removals \in Seq(FsOp) /\ Spares(pkfsops \o removals, S)
    BY <1>5, <2>4, SparesConcat
  <2>7. Spares(pkfsops', S)
    BY <2>3, <2>5, <2>6, SparesConcat
  <2>8. statuses' = EmitInstall(moved, current, q)
    BY <1>11 DEF InstallDivert
  <2>9. \A r \in S : cleared[r] = Look(q, TRUE)[r]
    BY <1>2, <2>2 DEF EmitGone, Present
  <2>10. cleared \in [Paths -> Status]
    BY <1>1, <1>3, StatusesType DEF TypeOK
  <2> HIDE DEF cleared
  <2>11. \A r \in S : moved[r] = cleared[r]
    BY <1>2, <2>2, <2>10 DEF EmitMv
  <2>12. moved \in [Paths -> Status]
    BY <1>1, <2>10, StatusesType DEF TypeOK
  <2> HIDE DEF moved
  <2>13. \A r \in S : statuses'[r] = moved[r]
    BY <1>2, <2>2, <2>8, <2>12 DEF EmitInstall, EmitMkdir
  <2>14. Settled(statuses', S)
    BY <1>3, <2>9, <2>11, <2>13 DEF Settled
  <2> QED
    BY <2>7, <2>14
<1> QED
  BY <1>7, <1>8, <1>9, <1>10, <1>11

LEMMA UninstallSpares ==
  ASSUME TypeOK, NEW Y, Y \subseteq index \ {current}, NEW T \in SUBSET Packages,
         NEW t \in Tree, NEW S, S = Held(Y, T, t),
         \A q \in S : disk[q] = t[q], SparesHeld(S),
         NEW q \in remaining, NEW readable \in BOOLEAN,
         Uninstall(q) \/ UninstallLeaves(q, readable),
         "read" \notin failed'
  PROVE  Settled(statuses', S) /\ Spares(pkfsops', S)
<1>0. pc = "plan"
  BY DEF Uninstall, UninstallLeaves, Visit
<1>1. current \in Packages /\ q \in Claimed(current) /\ q \in Paths
  BY <1>0, AtClaim
<1>2. S \in SUBSET Paths
  BY DEF Held
<1>3. /\ Settled(Look(q, TRUE), S) /\ Look(q, TRUE) \in [Paths -> Status]
      /\ q \in S => MatchesOther(Look(q, TRUE), index, current, q)
  BY <1>0, <1>1, <1>2, AtClaim, SettledLook, HeldMatchesOther DEF SparesHeld
<1>4. pkfsops \in Seq(FsOp) /\ Spares(pkfsops, S)
  BY DEF TypeOK, SparesHeld
<1>5. CASE UninstallLeaves(q, readable)
  <2>1. readable = TRUE
    BY <1>5 DEF UninstallLeaves, Visit, ReadFault
  <2> QED
    BY <1>3, <1>4, <1>5, <2>1 DEF UninstallLeaves
<1>6. CASE Uninstall(q)
  <2> DEFINE op == Op(IF Claims[current][q].isDir THEN "RMDIR" ELSE "REMOVEFILE", q)
  <2>1. q \notin S
    BY <1>3, <1>6 DEF Uninstall
  <2>2. /\ statuses' = EmitGone(Look(q, TRUE), {q})
        /\ pkfsops' = Append(pkfsops, op)
    BY <1>6 DEF Uninstall
  <2>3. op \in FsOp /\ \A r \in S : ~ Touches(op, r)
    BY <1>1, <2>1, PlannedOps DEF Touches, Op
  <2> HIDE DEF op
  <2>4. Spares(pkfsops', S)
    BY <1>4, <2>2, <2>3, SparesAppend
  <2>5. Settled(statuses', S)
    BY <1>2, <1>3, <2>1, <2>2 DEF Settled, EmitGone
  <2> QED
    BY <2>4, <2>5
<1> QED
  BY <1>5, <1>6

LEMMA NothingSpares ==
  ASSUME NEW S \in SUBSET Paths
  PROVE  Settled(NoStatuses, S) /\ Spares(<<>>, S)
BY DEF Settled, Spares, NoStatuses, Unseen

LEMMA PrepareSpares ==
  ASSUME TypeOK, NEW S \in SUBSET (Paths \ {Sysroot}), SparesHeld(S), PrepareSysroot
  PROVE  Settled(statuses', S) /\ Spares(fsops', S)
<1> DEFINE st == EnsureActual(statuses, disk, Sysroot, TRUE)
           op == Op("MKDIR", Sysroot)
<1>1. Sysroot \in Paths
  BY PathsAssumption
<1>2. st = Look(Sysroot, TRUE)
  BY DEF Look
<1>3. st \in [Paths -> Status] /\ Settled(st, S)
  <2>1. S \in SUBSET Paths /\ Settled(statuses, S)
    BY DEF SparesHeld
  <2>2. st \in [Paths -> Status]
    BY <1>1, StatusesType DEF TypeOK
  <2> HIDE DEF st
  <2> QED
    BY <1>1, <1>2, <2>1, <2>2, SettledLook
<1>4. \/ statuses' = st /\ fsops' = fsops
      \/ statuses' = EmitMkdir(st, Sysroot) /\ fsops' = Append(fsops, op)
  BY Zenon DEF PrepareSysroot
<1>5. op \in FsOp /\ \A q \in S : ~ Touches(op, q)
  BY <1>1 DEF Op, FsOp, Touches
<1> HIDE DEF st, op
<1>6. Settled(EmitMkdir(st, Sysroot), S)
  BY <1>3 DEF Settled, EmitMkdir
<1>7. Spares(Append(fsops, op), S)
  BY <1>5, SparesAppend DEF SparesHeld, TypeOK
<1> QED
  BY <1>3, <1>4, <1>6, <1>7 DEF SparesHeld

LEMMA FinishSpares ==
  ASSUME TypeOK, NEW S \in SUBSET Paths, SparesHeld(S),
         FinishInstall \/ FinishUninstall
  PROVE  /\ UNCHANGED <<disk, statuses>>
         /\ Spares(fsops', S) /\ Spares(pkfsops', S)
<1>1. UNCHANGED <<disk, statuses>> /\ pkfsops' = <<>> /\ pc = "plan"
  BY DEF FinishInstall, FinishUninstall
<1>2. /\ fsops \in Seq(FsOp) /\ pkfsops \in Seq(FsOp) /\ current \in Packages
      /\ Spares(fsops, S) /\ Spares(pkfsops, S)
  BY <1>1 DEF TypeOK, SparesHeld
<1>3. fsops \o pkfsops \in Seq(FsOp) /\ Spares(fsops \o pkfsops, S)
  BY <1>2, SparesConcat
<1> DEFINE zip == <<RenameZipOp(current)>>
<1>4. zip \in Seq(FsOp) /\ Spares(zip, S)
  BY <1>2 DEF Spares, Touches, RenameZipOp, FsOp
<1> HIDE DEF zip
<1>5. Spares(fsops \o pkfsops \o zip, S)
  BY <1>3, <1>4, SparesConcat
<1>6. \/ fsops' = fsops \/ fsops' = fsops \o pkfsops
      \/ fsops' = fsops \o pkfsops \o zip
  BY DEF FinishInstall, FinishUninstall, zip
<1> QED
  BY <1>1, <1>2, <1>3, <1>5, <1>6, NothingSpares

\* Executing a plan that spares S leaves it as it is, step by step.
LEMMA ExecuteSpares ==
  ASSUME TypeOK, NEW t \in Tree, NEW S \in SUBSET Paths, SparesHeld(S),
         \A q \in S : disk[q] = t[q] /\ t[q] # Missing,
         \/ ExecuteOp \/ OpFails \/ FreedPathFails
         \/ Crash /\ pc = "execute" /\ fsops # <<>>
  PROVE  (\A q \in S : disk'[q] = t[q]) /\ Spares(Tail(fsops), S)
<1>1. fsops # <<>> /\ fsops \in Seq(FsOp) /\ Spares(fsops, S)
  BY DEF ExecuteOp, OpFails, FreedPathFails, NextOp, TypeOK, SparesHeld
<1>2. /\ Head(fsops) \in FsOp
      /\ \A q \in S : ~ Touches(Head(fsops), q)
      /\ Spares(Tail(fsops), S)
  <2>1. Head(fsops) \in FsOp
    BY <1>1
  <2> QED
    BY <1>1, <2>1, SparesTail
<1>3. disk' \in {disk, Effect(disk, Head(fsops))} \cup CutOff(Head(fsops))
  BY DEF ExecuteOp, OpFails, FreedPathFails, Crash, persistent
<1> SUFFICES ASSUME NEW q \in S PROVE disk'[q] = disk[q]
  BY <1>2
<1>4. Effect(disk, Head(fsops))[q] = disk[q]
  BY <1>2, UntouchedStays DEF TypeOK
<1>5. \A u \in CutOff(Head(fsops)) : u[q] = disk[q]
  BY <1>2, UntouchedNotCutOff DEF TypeOK
<1> QED
  BY <1>3, <1>4, <1>5

\* Whatever a process does but start a command.
LEMMA RunSpares ==
  ASSUME TypeOK, NothingPlanned, Run \/ Crash, "read" \notin failed',
         NEW Y \in SUBSET Packages, NEW T \in SUBSET Packages,
         NEW t \in Tree, WellFormed(t), NEW S, S = Held(Y, T, t),
         \A q \in S : disk[q] = t[q], SparesHeld(S),
         pc = "plan" => Y \subseteq index \ {current},
         pc = "plan" /\ cmd.op = "fix" => current \in T
  PROVE  (\A q \in S : disk'[q] = t[q]) /\ SparesHeld(S)'
<1>1. S \in SUBSET (Paths \ {Sysroot}) /\ \A q \in S : t[q] # Missing
  <2>1. ASSUME NEW q \in S PROVE q \in Paths \ {Sysroot} /\ t[q] # Missing
    BY <2>1, HeldFacts
  <2> QED BY <2>1
<1>2. ASSUME disk' = disk, Settled(statuses', S), Spares(fsops', S), Spares(pkfsops', S)
      PROVE  (\A q \in S : disk'[q] = t[q]) /\ SparesHeld(S)'
  BY <1>2 DEF SparesHeld, Settled, Spares
<1>3. Settled(statuses, S) /\ Spares(fsops, S) /\ Spares(pkfsops, S)
  BY DEF SparesHeld
<1>4. ASSUME \A q \in S : disk'[q] = t[q], Rest
      PROVE  (\A q \in S : disk'[q] = t[q]) /\ SparesHeld(S)'
  <2>1. Spares(<<>>, S) /\ Settled(statuses, S)'
    BY <1>1, <1>4 DEF Rest, Settled, Spares, NoStatuses, Unseen
  <2> QED
    BY <1>4, <2>1 DEF SparesHeld, Settled, Spares, Rest
<1>5. ASSUME Plan PROVE (\A q \in S : disk'[q] = t[q]) /\ SparesHeld(S)'
  <2>1. CASE SysrootUnreadable
    BY <1>4, <2>1 DEF SysrootUnreadable, persistent
  <2>2. CASE BuildIndex \/ Gate
    BY <1>2, <1>3, <2>2 DEF BuildIndex, Gate, planning
  <2>3. CASE PrepareSysroot
    <3>1. UNCHANGED <<disk, pkfsops>>
      BY <2>3 DEF PrepareSysroot
    <3> QED
      BY <1>1, <1>2, <1>3, <2>3, <3>1, PrepareSpares
  <2>4. CASE FinishInstall \/ FinishUninstall
    BY <1>1, <1>2, <1>3, <2>4, FinishSpares
  <2>5. ASSUME NEW p \in todo, RefusePackage(p) \/ BeginPackage(p)
        PROVE  (\A q \in S : disk'[q] = t[q]) /\ SparesHeld(S)'
    BY <1>2, <1>3, <2>5 DEF RefusePackage, BeginPackage
  <2>6. ASSUME NEW q \in remaining, NEW readable \in BOOLEAN,
               \/ InstallMissing(q, readable) \/ InstallKept(q) \/ InstallConflict(q)
               \/ InstallDivert(q) \/ InstallDivertFails(q)
        PROVE  (\A r \in S : disk'[r] = t[r]) /\ SparesHeld(S)'
    <3>1. UNCHANGED <<disk, fsops>> /\ pc = "plan" /\ cmd.op = "fix"
      BY <2>6 DEF InstallMissing, InstallKept, InstallConflict, InstallDivert,
         InstallDivertFails, Visit
    <3>2. Settled(statuses', S) /\ Spares(pkfsops', S)
      BY <2>6, <3>1, InstallSpares
    <3> QED
      BY <1>2, <1>3, <3>1, <3>2
  <2>7. ASSUME NEW q \in remaining, NEW readable \in BOOLEAN,
               Uninstall(q) \/ UninstallLeaves(q, readable)
        PROVE  (\A r \in S : disk'[r] = t[r]) /\ SparesHeld(S)'
    <3>1. UNCHANGED <<disk, fsops>> /\ pc = "plan"
      BY <2>7 DEF Uninstall, UninstallLeaves, Visit
    <3>2. Settled(statuses', S) /\ Spares(pkfsops', S)
      BY <2>7, <3>1, UninstallSpares
    <3> QED
      BY <1>2, <1>3, <3>1, <3>2
  <2> QED
    BY <1>5, <2>1, <2>2, <2>3, <2>4, <2>5, <2>6, <2>7 DEF Plan
<1>6. CASE ExecuteOp \/ OpFails \/ FreedPathFails
  <2>1. (\A q \in S : disk'[q] = t[q]) /\ Spares(Tail(fsops), S)
    BY <1>1, <1>6, ExecuteSpares
  <2>2. fsops' = Tail(fsops) /\ UNCHANGED <<statuses, pkfsops>>
    BY <1>6 DEF ExecuteOp, OpFails, FreedPathFails, NextOp
  <2> QED
    BY <1>3, <2>1, <2>2 DEF SparesHeld, Settled, Spares
<1>7. CASE FreedPathAborts \/ Exit
  BY <1>4, <1>7 DEF FreedPathAborts, Exit
<1>8. CASE FinishExecution
  BY <1>2, <1>3, <1>8 DEF FinishExecution, planning
<1>9. CASE Crash
  <2>1. Rest
    BY <1>9 DEF Crash
  <2>2. \A q \in S : disk'[q] = t[q]
    <3>1. CASE pc = "execute" /\ fsops # <<>>
      BY <1>1, <1>9, <3>1, ExecuteSpares
    <3>2. CASE ~ (pc = "execute" /\ fsops # <<>>)
      BY <1>9, <3>2 DEF Crash
    <3> QED BY <3>1, <3>2
  <2> QED
    BY <1>4, <2>1, <2>2
<1> QED
  BY <1>5, <1>6, <1>7, <1>8, <1>9 DEF Run, Execute

(***************************************************************************)
(* FixSparesOthers.  A `fix` plans only for its targets and adds only them  *)
(* to the index, so what the others have on the disk it found is held by    *)
(* packages of the index from the first claim it looks at to the last       *)
(* operation it executes.                                                   *)
(***************************************************************************)
PlansForTargets ==
  /\ cmd.op = "del" => cmd.targets # {}
  /\ cmd.op # "none" /\ cmd.targets # {} =>
       todo \subseteq cmd.targets /\ (pc = "plan" => current \in cmd.targets)
  /\ pc = "index" => disk = start
  /\ pc = "idle" => todo = {}

OthersHave == Held(index \ cmd.targets, cmd.targets, start)

FixSpares ==
  cmd.op = "fix" /\ cmd.targets # {} /\ "read" \notin failed =>
    (\A q \in OthersHave : disk[q] = start[q]) /\ SparesHeld(OthersHave)

FixInv == DelInv /\ TreesWellFormed /\ PlansForTargets /\ FixSpares

\* A process that goes on keeps its command, takes its packages from those left
\* to plan, and changes the index for the one it has planned.
IndexStep ==
  \/ index' = index
  \/ pc = "plan" /\ cmd.op = "fix" /\ index' = index \cup {current}
  \/ pc = "plan" /\ cmd.op = "del" /\ index' = index \ {current}

LEMMA GoesOn ==
  ASSUME TypeOK, Run \/ Crash, ~ Rest
  PROVE  /\ UNCHANGED <<cmd, start>> /\ failed \subseteq failed'
         /\ todo' \subseteq todo
         /\ pc' = "plan" => current' \in todo \/ (pc = "plan" /\ current' = current)
         /\ pc' \notin {"idle", "index"} /\ pc \notin {"idle", "done"}
         /\ BuildIndex \/ (IndexStep /\ pc # "index")
<1> DEFINE Goal ==
             /\ UNCHANGED <<cmd, start>> /\ failed \subseteq failed'
             /\ todo' \subseteq todo
             /\ pc' = "plan" => current' \in todo \/ (pc = "plan" /\ current' = current)
             /\ pc' \notin {"idle", "index"}
             /\ pc \notin {"idle", "done"}
             /\ BuildIndex \/ (IndexStep /\ pc # "index")
<1>1. ASSUME Rest PROVE FALSE
  BY <1>1
<1>2. ASSUME UNCHANGED <<cmd, start, index, current, todo>>, failed \subseteq failed',
             pc \notin {"idle", "index", "done"}, pc' \notin {"idle", "index"},
             pc' = "plan" => pc = "plan"
      PROVE  Goal
  BY <1>2 DEF IndexStep
<1>3. ASSUME ReadFault \/ NoFault PROVE failed \subseteq failed'
  BY <1>3 DEF ReadFault, NoFault
<1>4. CASE BuildIndex
  <2>1. failed \subseteq failed'
    BY <1>3, <1>4 DEF BuildIndex
  <2> QED
    BY <1>4, <2>1 DEF BuildIndex
<1>5. CASE PrepareSysroot \/ Gate \/ FinishExecution
  BY <1>2, <1>3, <1>5 DEF PrepareSysroot, Gate, FinishExecution, NoFault, planning
<1>6. ASSUME NEW p \in todo, RefusePackage(p) PROVE Goal
  <2>1. failed \subseteq failed'
    BY <1>3, <1>6 DEF RefusePackage
  <2> QED
    BY <1>6, <2>1 DEF RefusePackage, IndexStep
<1>7. ASSUME NEW p \in todo, BeginPackage(p) PROVE Goal
  BY <1>7 DEF BeginPackage, IndexStep
<1>8. ASSUME NEW q \in remaining, NEW readable \in BOOLEAN,
             \/ InstallMissing(q, readable) \/ UninstallLeaves(q, readable)
             \/ InstallKept(q) \/ InstallConflict(q)
             \/ InstallDivert(q) \/ InstallDivertFails(q) \/ Uninstall(q)
      PROVE  Goal
  <2>1. ReadFault \/ NoFault
    BY <1>8 DEF InstallMissing, UninstallLeaves, InstallKept, InstallConflict,
       InstallDivert, InstallDivertFails, Uninstall, Visit
  <2>2. UNCHANGED <<cmd, start, index, current, todo, pc>> /\ pc = "plan"
    BY <1>8 DEF InstallMissing, UninstallLeaves, InstallKept, InstallConflict,
       InstallDivert, InstallDivertFails, Uninstall, Visit
  <2> QED
    BY <1>2, <1>3, <2>1, <2>2
<1>9. CASE FinishInstall
  <2>1. /\ UNCHANGED <<cmd, start, failed, todo>> /\ pc = "plan" /\ pc' = "choose"
        /\ index' = index \/ index' = index \cup {current}
        /\ cmd.op = "fix"
    BY <1>9 DEF FinishInstall, MergeClaims
  <2> QED
    BY <2>1 DEF IndexStep
<1>10. CASE FinishUninstall
  <2>1. /\ UNCHANGED <<cmd, start, failed, todo>> /\ pc = "plan" /\ pc' = "choose"
        /\ index' = index \ {current} /\ cmd.op = "del"
    BY <1>10 DEF FinishUninstall, RemoveClaims
  <2> QED
    BY <2>1 DEF IndexStep
<1>11. CASE ExecuteOp \/ OpFails \/ FreedPathFails
  BY <1>2, <1>3, <1>11 DEF ExecuteOp, OpFails, FreedPathFails, NextOp
<1>12. CASE SysrootUnreadable \/ FreedPathAborts \/ Exit \/ Crash
  BY <1>1, <1>12 DEF SysrootUnreadable, FreedPathAborts, Exit, Crash
<1> QED
  BY <1>4, <1>5, <1>6, <1>7, <1>8, <1>9, <1>10, <1>11, <1>12
     DEF Run, Plan, Execute

LEMMA FixStart ==
  ASSUME FixInv, NEW op \in {"del", "fix"}, NEW targets \in SUBSET Packages,
         NEW dryRun \in BOOLEAN, Start(op, targets, dryRun)
  PROVE  PlansForTargets' /\ FixSpares'
<1>1. /\ pc = "idle" /\ pc' \in {"index", "done"}
      /\ fsops' = <<>> /\ pkfsops' = <<>> /\ statuses' = NoStatuses
      /\ disk' = disk /\ start' = disk' /\ cmd'.targets = targets
      /\ cmd'.op = op /\ (op = "del" => targets # {})
      /\ targets # {} => todo' \subseteq targets
  BY DEF Start, FixInv, DelInv, NothingPlanned, PlansForTargets
<1>2. PlansForTargets'
  BY <1>1 DEF PlansForTargets
<1>3. OthersHave' \in SUBSET Paths
  BY DEF OthersHave, Held
<1>4. PICK S : S = OthersHave'
  OBVIOUS
<1>5. SparesHeld(S)'
  BY <1>1, <1>3, <1>4 DEF SparesHeld, Settled, Spares, NoStatuses, Unseen
<1> QED
  BY <1>1, <1>2, <1>3, <1>4, <1>5 DEF FixSpares

LEMMA FixRun ==
  ASSUME FixInv, Run \/ Crash
  PROVE  PlansForTargets' /\ FixSpares'
<1>1. CASE Rest
  BY <1>1 DEF PlansForTargets, FixSpares, Rest, NoCommand
<1>2. CASE ~ Rest
  <2>1. /\ UNCHANGED <<cmd, start>> /\ failed \subseteq failed'
        /\ todo' \subseteq todo
        /\ pc' = "plan" => current' \in todo \/ (pc = "plan" /\ current' = current)
        /\ pc' \notin {"idle", "index"}
        /\ cmd.op = "fix" /\ cmd.targets # {} /\ ~ BuildIndex =>
             index' \ cmd.targets = index \ cmd.targets
    BY <1>2, GoesOn DEF FixInv, DelInv, PlansForTargets, IndexStep
  <2>2. PlansForTargets'
    BY <2>1 DEF FixInv, PlansForTargets
  <2>3. FixSpares'
    <3> SUFFICES ASSUME cmd.op = "fix", cmd.targets # {}, "read" \notin failed'
                 PROVE  (\A q \in OthersHave : disk[q] = start[q])'
                          /\ SparesHeld(OthersHave)'
      BY <2>1 DEF FixSpares
    <3>1. "read" \notin failed /\ cmd.op = "fix"
      BY <2>1
    <3>2. CASE BuildIndex
      <4>1. PICK S : S = OthersHave'
        OBVIOUS
      <4>2. S \in SUBSET Paths
        BY <4>1 DEF OthersHave, Held
      <4>3. /\ pc = "index" /\ disk = start /\ UNCHANGED <<disk, start>>
            /\ statuses = NoStatuses /\ fsops = <<>> /\ pkfsops = <<>>
            /\ UNCHANGED <<statuses, fsops, pkfsops>>
        BY <3>2 DEF BuildIndex, FixInv, PlansForTargets, DelInv, NothingPlanned
      <4>4. SparesHeld(S)'
        BY <4>2, <4>3 DEF SparesHeld, Settled, Spares, NoStatuses, Unseen
      <4> QED
        BY <4>1, <4>3, <4>4
    <3>3. CASE ~ BuildIndex
      <4>1. PICK S : S = Held(index \ cmd.targets, cmd.targets, start)
        OBVIOUS
      <4>2. OthersHave' = S /\ OthersHave = S
        BY <2>1, <3>3, <4>1 DEF OthersHave
      <4>3. (\A q \in S : disk[q] = start[q]) /\ SparesHeld(S)
        BY <3>1, <4>2 DEF FixInv, FixSpares
      <4>4. /\ index \ cmd.targets \in SUBSET Packages
            /\ cmd.targets \in SUBSET Packages /\ start \in Tree
            /\ WellFormed(start) /\ TypeOK /\ NothingPlanned
        BY DEF FixInv, DelInv, TypeOK, Command, TreesWellFormed
      <4>5. pc = "plan" => /\ current \in cmd.targets
                           /\ index \ cmd.targets \subseteq index \ {current}
        BY <3>1 DEF FixInv, PlansForTargets
      <4>6. (\A q \in S : disk'[q] = start[q]) /\ SparesHeld(S)'
        <5>1. PICK Y \in SUBSET Packages, T \in SUBSET Packages, t \in Tree :
                Y = index \ cmd.targets /\ T = cmd.targets /\ t = start
          BY <4>4
        <5>2. /\ S = Held(Y, T, t) /\ WellFormed(t) /\ \A q \in S : disk[q] = t[q]
              /\ pc = "plan" => current \in T
              /\ pc = "plan" => Y \subseteq index \ {current}
          BY <4>1, <4>3, <4>4, <4>5, <5>1
        <5>3. (\A q \in S : disk'[q] = t[q]) /\ SparesHeld(S)'
          BY <4>3, <4>4, <5>2, RunSpares
        <5> QED
          BY <5>1, <5>3
      <4> QED
        BY <2>1, <4>2, <4>6
    <3> QED
      BY <3>2, <3>3
  <2> QED
    BY <2>2, <2>3
<1> QED
  BY <1>1, <1>2

LEMMA FixInit == Init => FixInv
<1> SUFFICES ASSUME Init PROVE FixInv
  OBVIOUS
<1>1. DelInv
  BY TypeInit, DelInit DEF DelInv, DelRest
<1>2. TreesWellFormed
  BY WellFormedInit
<1> QED
  BY <1>1, <1>2 DEF Init, NoCommand, FixInv, PlansForTargets, FixSpares

LEMMA FixNext == FixInv /\ [Next]_vars => FixInv'
<1> SUFFICES ASSUME FixInv, [Next]_vars PROVE FixInv'
  OBVIOUS
<1>1. DelInv' /\ TreesWellFormed'
  BY DelNext, WellFormedNext DEF FixInv, DelInv
<1>2. ASSUME Next PROVE PlansForTargets' /\ FixSpares'
  BY <1>2, FixStart, FixRun DEF Next
<1>3. ASSUME UNCHANGED vars PROVE PlansForTargets' /\ FixSpares'
  BY <1>3 DEF vars, FixInv, PlansForTargets, FixSpares, OthersHave, SparesHeld, Settled,
     Spares
<1> QED
  BY <1>1, <1>2, <1>3 DEF FixInv

(***************************************************************************)
(* What leaves the directory of installed zips.                             *)
(***************************************************************************)
OpsMoving(Z) == {op \in FsOp : op.kind = "RENAME_ZIP" => op.pkg \in Z}

MovesZips(Z) == fsops \in Seq(OpsMoving(Z)) /\ pkfsops \in Seq(OpsMoving(Z))

LEMMA InstallMovesNoZip ==
  ASSUME NEW Z, NEW p \in Packages, NEW q \in Claimed(p)
  PROVE  /\ InstallOp(p, q) \in OpsMoving(Z)
         /\ RenameOp(q, Save(q)) \in OpsMoving(Z)
         /\ Op("RMDIR", q) \in OpsMoving(Z) /\ Op("REMOVEFILE", q) \in OpsMoving(Z)
<1>1. /\ InstallOp(p, q).kind \in {"MKDIR", "CREATEFILE"}
      /\ RenameOp(q, Save(q)).kind = "RENAME"
      /\ Op("RMDIR", q).kind = "RMDIR" /\ Op("REMOVEFILE", q).kind = "REMOVEFILE"
  BY DEF InstallOp, RenameOp, Op, CreateFileOp
<1> QED
  BY <1>1, PlannedOps DEF OpsMoving

LEMMA RmRfMovesNoZip ==
  ASSUME NEW Z, NEW r \in Paths, NEW removals \in RmRf(r)
  PROVE  removals \in Seq(OpsMoving(Z))
<1>1. removals \in Seq(FsOp)
  BY RmRfType
<1>2. PICK s \in RemovalOrders(r) :
      removals = [i \in DOMAIN s |->
                    IF disk[s[i]].kind = "dir" THEN Op("RMDIR_FREED", s[i])
                                               ELSE Op("REMOVEFILE", s[i])]
  BY DEF RmRf
<1>3. \A i \in DOMAIN removals : removals[i].kind # "RENAME_ZIP"
  BY <1>2 DEF Op
<1>4. \A i \in DOMAIN removals : removals[i] \in OpsMoving(Z)
  BY <1>1, <1>3 DEF OpsMoving
<1> QED
  BY <1>1, <1>4

\* A zip leaves only when a `del` moves a package it has planned.
LEMMA RunMovesZips ==
  ASSUME TypeOK, Run \/ Crash, NEW Z \in SUBSET Packages, MovesZips(Z),
         pc = "plan" /\ cmd.op = "del" => current \in Z
  PROVE  /\ MovesZips(Z)'
         /\ installed' \subseteq installed /\ installed \ installed' \subseteq Z
<1> DEFINE M == OpsMoving(Z)
           Goal == /\ MovesZips(Z)'
                   /\ installed' \subseteq installed
                   /\ installed \ installed' \subseteq Z
<1>0. /\ fsops \in Seq(M) /\ pkfsops \in Seq(M)
      /\ fsops' \in Seq(M) /\ pkfsops' \in Seq(M) => MovesZips(Z)'
  BY DEF MovesZips, OpsMoving, FsOp
<1>1. ASSUME Rest PROVE MovesZips(Z)'
  BY <1>0, <1>1 DEF Rest
<1>2. ASSUME UNCHANGED <<fsops, installed>>, pkfsops' \in Seq(M) PROVE Goal
  BY <1>0, <1>2
<1>3. CASE BuildIndex \/ Gate \/ FinishExecution
  <2>1. UNCHANGED <<fsops, pkfsops, installed>>
    BY <1>3 DEF BuildIndex, Gate, FinishExecution, planning
  <2> QED
    BY <1>0, <1>2, <2>1
<1>4. CASE PrepareSysroot
  <2>1. /\ UNCHANGED <<pkfsops, installed>>
        /\ fsops' = fsops \/ fsops' = Append(fsops, Op("MKDIR", Sysroot))
    BY <1>4, Zenon DEF PrepareSysroot
  <2>2. Op("MKDIR", Sysroot) \in M
    BY PathsAssumption DEF OpsMoving, FsOp, Op
  <2> QED
    BY <1>0, <2>1, <2>2
<1>5. ASSUME NEW p \in todo, RefusePackage(p) \/ BeginPackage(p) PROVE Goal
  <2>1. UNCHANGED <<fsops, pkfsops, installed>>
    BY <1>5 DEF RefusePackage, BeginPackage
  <2> QED
    BY <1>0, <1>2, <2>1
<1>6. ASSUME NEW q \in remaining, NEW readable \in BOOLEAN,
             \/ InstallMissing(q, readable) \/ UninstallLeaves(q, readable)
             \/ InstallKept(q) \/ InstallConflict(q)
             \/ InstallDivert(q) \/ InstallDivertFails(q) \/ Uninstall(q)
      PROVE  Goal
  <2>1. /\ UNCHANGED <<fsops, installed>> /\ pc = "plan"
    BY <1>6 DEF InstallMissing, UninstallLeaves, InstallKept, InstallConflict,
       InstallDivert, InstallDivertFails, Uninstall, Visit
  <2>2. current \in Packages /\ q \in Claimed(current) /\ Save(q) \in Paths
    BY <2>1, AtClaim DEF TypeOK
  <2>3. /\ InstallOp(current, q) \in M /\ RenameOp(q, Save(q)) \in M
        /\ Op("RMDIR", q) \in M /\ Op("REMOVEFILE", q) \in M
    BY <2>2, InstallMovesNoZip
  <2>4. CASE InstallDivert(q)
    <3>1. PICK removals \in RmRf(Save(q)) :
            pkfsops' = pkfsops \o removals \o DivertOps(q)
      BY <2>4 DEF InstallDivert
    <3>2. removals \in Seq(M)
      BY <2>2, RmRfMovesNoZip
    <3>3. DivertOps(q) \in Seq(M)
      BY <2>3 DEF DivertOps
    <3> QED
      BY <1>0, <1>2, <2>1, <3>1, <3>2, <3>3
  <2>5. CASE InstallMissing(q, readable)
    BY <1>0, <1>2, <2>1, <2>3, <2>5 DEF InstallMissing
  <2>6. CASE Uninstall(q)
    BY <1>0, <1>2, <2>1, <2>3, <2>6 DEF Uninstall
  <2>7. CASE \/ UninstallLeaves(q, readable) \/ InstallKept(q) \/ InstallConflict(q)
             \/ InstallDivertFails(q)
    BY <1>0, <1>2, <2>1, <2>7 DEF UninstallLeaves, InstallKept, InstallConflict,
       InstallDivertFails
  <2> QED
    BY <1>6, <2>4, <2>5, <2>6, <2>7
<1>7. CASE FinishInstall
  <2>1. /\ UNCHANGED installed /\ pkfsops' = <<>>
        /\ fsops' = fsops \/ fsops' = fsops \o pkfsops
    BY <1>7 DEF FinishInstall
  <2> HIDE DEF M
  <2>2. fsops \o pkfsops \in Seq(M) /\ <<>> \in Seq(M)
    <3>1. ASSUME NEW N, NEW ops1 \in Seq(N), NEW ops2 \in Seq(N)
          PROVE  ops1 \o ops2 \in Seq(N) /\ <<>> \in Seq(N)
      OBVIOUS
    <3> QED
      BY <1>0, <3>1
  <2> QED
    BY <1>0, <2>1, <2>2
<1>8. CASE FinishUninstall
  <2>1. /\ UNCHANGED installed /\ pkfsops' = <<>>
        /\ fsops' = fsops \o pkfsops \o <<RenameZipOp(current)>>
        /\ current \in Z
    BY <1>8 DEF FinishUninstall
  <2>2. RenameZipOp(current) \in M
    BY <2>1 DEF OpsMoving, FsOp, RenameZipOp
  <2>3. <<RenameZipOp(current)>> \in Seq(M)
    BY <2>2
  <2> QED
    BY <1>0, <2>1, <2>3
<1>9. CASE ExecuteOp \/ OpFails \/ FreedPathFails
  <2>1. /\ fsops # <<>> /\ fsops' = Tail(fsops) /\ pkfsops' = pkfsops
        /\ \/ installed' = installed
           \/ /\ Head(fsops).kind = "RENAME_ZIP"
              /\ installed' = installed \ {Head(fsops).pkg}
    BY <1>9 DEF ExecuteOp, OpFails, FreedPathFails, NextOp, persistent
  <2>2. Head(fsops) \in M /\ Tail(fsops) \in Seq(M)
    BY <1>0, <2>1
  <2>3. installed' \subseteq installed /\ installed \ installed' \subseteq Z
    BY <2>1, <2>2 DEF OpsMoving
  <2> QED
    BY <1>0, <2>1, <2>2, <2>3
<1>10. CASE SysrootUnreadable \/ FreedPathAborts \/ Exit \/ Crash
  <2>1. Rest /\ installed' = installed
    BY <1>10 DEF SysrootUnreadable, FreedPathAborts, Exit, Crash, persistent
  <2> QED
    BY <1>1, <2>1
<1> QED
  BY <1>3, <1>4, <1>5, <1>6, <1>7, <1>8, <1>9, <1>10 DEF Run, Plan, Execute

(***************************************************************************)
(* ConflictRefusesAll.  In a `fix` that can read all it looks at, the index *)
(* holds every installed package from the moment it is built: what such a   *)
(* `fix` spares is what any installed package has.  So the target whose     *)
(* path another package has finds a conflict there when its turn comes, and *)
(* until then, and ever after, nothing is executed.                         *)
(***************************************************************************)
FixMovesNoZip == cmd.op = "fix" => MovesZips({})

IndexIsWhole ==
  cmd.op = "fix" /\ "read" \notin failed /\ pc # "index" =>
    installed \subseteq index \/ (pc = "done" /\ disk = start)

Clash(p, o, q) ==
  /\ p \in cmd.targets /\ o \in installed \ cmd.targets /\ q \in Claimed(p)
  /\ OnDisk(start, o, q) /\ ~ OnDisk(start, p, q) /\ ~ IsSaved(cmd.targets, q)

\* Target p is still to find what is at q, or has.
WillRefuse(p, q) ==
  \/ p \in todo
  \/ pc = "plan" /\ current = p /\ (q \in remaining \/ shouldNotInstall)

ClashesRefuse ==
  cmd.op = "fix" /\ failed = {} =>
    \A p \in Packages, o \in Packages, q \in Paths : Clash(p, o, q) =>
      /\ disk = start /\ pc # "execute"
      /\ shouldProceed /\ pc # "done" => WillRefuse(p, q)

ConflictInv == FixInv /\ FixMovesNoZip /\ IndexIsWhole /\ ClashesRefuse

\* What matches a claim when it is read is on the disk.
LEMMA MatchesOnDisk ==
  ASSUME NEW t \in Tree, NEW p \in Packages, NEW q \in Claimed(p),
         IsMatch(Observed(t[q]), Claims[p][q])
  PROVE  OnDisk(t, p, q)
<1>1. q \in Paths /\ Claims[p][q].isDir \in BOOLEAN
  BY ClaimsAssumption DEF Claim
<1>2. t[q].kind \in {"missing", "file", "dir"}
  BY <1>1, NodeFields DEF Tree
<1> QED
  BY <1>1, <1>2 DEF OnDisk, IsMatch, Observed

LEMMA ConflictStart ==
  ASSUME ConflictInv, NEW op \in {"del", "fix"}, NEW targets \in SUBSET Packages,
         NEW dryRun \in BOOLEAN, Start(op, targets, dryRun)
  PROVE  FixMovesNoZip' /\ IndexIsWhole' /\ ClashesRefuse'
<1>1. /\ pc = "idle" /\ pc' \in {"index", "done"}
      /\ fsops' = <<>> /\ pkfsops' = <<>>
      /\ disk' = disk /\ start' = disk' /\ cmd'.targets = targets
      /\ pc' = "index" /\ targets # {} => todo' = targets
  BY DEF Start, ConflictInv, FixInv, DelInv, NothingPlanned
<1>2. FixMovesNoZip' /\ IndexIsWhole'
  BY <1>1 DEF FixMovesNoZip, MovesZips, IndexIsWhole
<1>3. ClashesRefuse'
  BY <1>1 DEF ClashesRefuse, Clash, WillRefuse
<1> QED
  BY <1>2, <1>3

\* The claim at which two packages clash is refused when it is looked at.
LEMMA ClashIsConflict ==
  ASSUME ConflictInv, cmd.op = "fix", failed' = {}, failed = {}, pc = "plan",
         NEW o \in Packages, NEW q \in remaining, Clash(current, o, q),
         NEW readable \in BOOLEAN,
         \/ InstallMissing(q, readable) \/ InstallKept(q) \/ InstallConflict(q)
         \/ InstallDivert(q) \/ InstallDivertFails(q)
  PROVE  shouldNotInstall' = TRUE
<1>1. /\ current \in Packages /\ q \in Claimed(current) /\ q \in Paths
      /\ current \in cmd.targets /\ o \in index \ cmd.targets
      /\ TypeOK /\ disk \in Tree /\ start \in Tree
      /\ installed \subseteq index /\ cmd.targets \in SUBSET Packages
  BY AtClaim DEF ConflictInv, FixInv, DelInv, TypeOK, Command, Clash, IndexIsWhole
<1>2. q \in OthersHave /\ OthersHave \in SUBSET Paths
  BY <1>1 DEF Clash, OthersHave, Held
<1>3. disk[q] = start[q] /\ Settled(statuses, OthersHave)
  BY <1>1, <1>2 DEF ConflictInv, FixInv, FixSpares, SparesHeld
<1>4. Look(q, TRUE)[q] = Observed(start[q])
  BY <1>1, <1>2, <1>3, SettledLook
<1>5. IsMatch(Observed(start[q]), Claims[o][q]) /\ q \in Claimed(o)
  BY OnDiskMatches DEF Clash
<1>6. ~ IsMatch(Observed(start[q]), Claims[current][q])
  BY <1>1, MatchesOnDisk DEF Clash
<1>7. /\ Look(q, TRUE)[q].exists
      /\ ~ MatchesUs(Look(q, TRUE), current, q)
      /\ MatchesOther(Look(q, TRUE), index, current, q)
  <2>1. o \in index \ {current}
    BY <1>1
  <2> QED
    BY <1>4, <1>5, <1>6, <2>1 DEF MatchesUs, MatchesOther, IsMatch
<1>8. ~ InstallMissing(q, readable)
  BY <1>7 DEF InstallMissing, Visit, ReadFault
<1>9. ~ InstallKept(q) /\ ~ InstallDivert(q) /\ ~ InstallDivertFails(q)
  BY <1>7 DEF InstallKept, InstallDivert, InstallDivertFails, Diverted
<1> QED
  BY <1>8, <1>9 DEF InstallConflict

LEMMA ConflictRun ==
  ASSUME ConflictInv, Run \/ Crash
  PROVE  FixMovesNoZip' /\ IndexIsWhole' /\ ClashesRefuse'
<1>1. CASE Rest
  BY <1>1 DEF FixMovesNoZip, IndexIsWhole, ClashesRefuse, Rest, NoCommand
<1>2. CASE ~ Rest
  <2>1. /\ UNCHANGED <<cmd, start>> /\ failed \subseteq failed'
        /\ ~ BuildIndex => pc \notin {"idle", "index", "done"}
        /\ cmd.op = "fix" /\ ~ BuildIndex => index \subseteq index'
    BY <1>2, GoesOn DEF ConflictInv, FixInv, DelInv, IndexStep
  <2> SUFFICES ASSUME cmd.op = "fix"
               PROVE  FixMovesNoZip' /\ IndexIsWhole' /\ ClashesRefuse'
    BY <2>1 DEF FixMovesNoZip, IndexIsWhole, ClashesRefuse
  <2>2. FixMovesNoZip' /\ installed' = installed
    <3>1. PICK Z : Z = {}
      OBVIOUS
    <3>2. MovesZips(Z)' /\ installed' \subseteq installed /\ installed \ installed' \subseteq Z
      BY <3>1, RunMovesZips DEF ConflictInv, FixInv, DelInv, FixMovesNoZip
    <3> QED
      BY <3>1, <3>2 DEF FixMovesNoZip
  <2>7. IndexIsWhole'
    <3> SUFFICES ASSUME "read" \notin failed'
                 PROVE  installed' \subseteq index'
      BY DEF IndexIsWhole
    <3>1. CASE BuildIndex
      BY <2>2, <3>1 DEF BuildIndex, ReadFault
    <3>2. CASE ~ BuildIndex
      BY <2>1, <2>2, <3>2 DEF ConflictInv, IndexIsWhole
    <3> QED
      BY <3>1, <3>2
  <2> SUFFICES ASSUME failed' = {}
               PROVE  ClashesRefuse'
    BY <2>2, <2>7 DEF ClashesRefuse
  <2>3. failed = {}
    BY <2>1
  <2>4. ~ ReadFault
    BY DEF ReadFault
  <2>5. ASSUME NEW p \in Packages, NEW o \in Packages, NEW q \in Paths,
               Clash(p, o, q)'
        PROVE  /\ Clash(p, o, q) /\ disk = start /\ pc # "execute"
               /\ shouldProceed /\ pc # "done" => WillRefuse(p, q)
    <3>1. Clash(p, o, q)
      BY <2>1, <2>2, <2>5 DEF Clash
    <3> QED
      BY <2>3, <3>1 DEF ConflictInv, ClashesRefuse
  <2> DEFINE Refuses(p, q) ==
        /\ disk = start /\ pc # "execute"
        /\ shouldProceed /\ pc # "done" => WillRefuse(p, q)
  <2>6. ASSUME \A p \in Packages, o \in Packages, q \in Paths :
                 Clash(p, o, q)' => Refuses(p, q)'
        PROVE  ClashesRefuse'
    BY <2>6 DEF ClashesRefuse
  <2>8. CASE BuildIndex \/ PrepareSysroot
    <3>1. /\ pc \in {"index", "prepare"} /\ pc' \in {"prepare", "choose"}
          /\ UNCHANGED <<disk, todo, shouldProceed>>
      BY <2>8 DEF BuildIndex, PrepareSysroot
    <3> QED
      BY <2>1, <2>5, <2>6, <2>7, <3>1 DEF WillRefuse
  <2>9. ASSUME NEW r \in todo, RefusePackage(r) PROVE ClashesRefuse'
    BY <2>1, <2>5, <2>6, <2>9 DEF RefusePackage
  <2>10. ASSUME NEW r \in todo, BeginPackage(r) PROVE ClashesRefuse'
    BY <2>1, <2>5, <2>6, <2>10 DEF BeginPackage, WillRefuse, Clash
  <2>11. ASSUME NEW r \in remaining, NEW readable \in BOOLEAN,
                \/ InstallMissing(r, readable) \/ InstallKept(r) \/ InstallConflict(r)
                \/ InstallDivert(r) \/ InstallDivertFails(r)
         PROVE  ClashesRefuse'
    <3>1. /\ UNCHANGED <<disk, pc, todo, current, shouldProceed>>
          /\ remaining' = remaining \ {r} /\ pc = "plan"
          /\ shouldNotInstall' = shouldNotInstall \/ shouldNotInstall' = TRUE
      BY <2>11 DEF InstallMissing, InstallKept, InstallConflict, InstallDivert,
         InstallDivertFails, Visit
    <3>2. ASSUME NEW o \in Packages, Clash(current, o, r)
          PROVE  shouldNotInstall' = TRUE
      BY <2>3, <2>11, <3>1, <3>2, ClashIsConflict
    <3>3. ASSUME NEW p \in Packages, NEW o \in Packages, NEW q \in Paths,
                 Clash(p, o, q)'
          PROVE  Refuses(p, q)'
      <4>1. /\ Clash(p, o, q) /\ disk = start /\ pc # "execute"
            /\ shouldProceed /\ pc # "done" => WillRefuse(p, q)
        BY <2>5, <3>3
      <4>2. shouldNotInstall \in BOOLEAN
        BY DEF ConflictInv, FixInv, DelInv, TypeOK
      <4>3. WillRefuse(p, q) => WillRefuse(p, q)'
        BY <3>1, <3>2, <4>1, <4>2 DEF WillRefuse
      <4> QED
        BY <2>1, <3>1, <4>1, <4>3
    <3> QED
      BY <2>6, <3>3
  <2>12. CASE FinishInstall
    <3>1. /\ pc = "plan" /\ pc' = "choose" /\ remaining = {}
          /\ UNCHANGED <<disk, todo>>
          /\ IF shouldNotInstall THEN shouldProceed' = FALSE
                                 ELSE UNCHANGED shouldProceed
      BY <2>12 DEF FinishInstall
    <3> QED
      BY <2>1, <2>5, <2>6, <2>7, <3>1 DEF WillRefuse
  <2>13. ASSUME NEW r \in remaining, NEW readable \in BOOLEAN,
                Uninstall(r) \/ UninstallLeaves(r, readable) \/ FinishUninstall
         PROVE  FALSE
    BY <2>13 DEF Uninstall, UninstallLeaves, FinishUninstall, Visit
  <2>14. ~ FinishUninstall
    BY DEF FinishUninstall
  <2>15. CASE Gate
    <3>1. /\ pc = "choose" /\ todo = {} /\ disk' = disk
          /\ shouldProceed' = shouldProceed
          /\ pc' = IF shouldProceed THEN "execute" ELSE "done"
      BY <2>15 DEF Gate, planning
    <3>2. ASSUME NEW p \in Packages, NEW o \in Packages, NEW q \in Paths,
                 Clash(p, o, q)'
          PROVE  Refuses(p, q)'
      <4>1. disk = start /\ ~ shouldProceed
        BY <2>5, <3>1, <3>2 DEF WillRefuse
      <4> QED
        BY <2>1, <3>1, <4>1
    <3> QED
      BY <2>6, <2>7, <3>2
  <2>16. CASE ExecuteOp \/ OpFails \/ FreedPathFails \/ FinishExecution
    <3>1. pc = "execute"
      BY <2>16 DEF ExecuteOp, OpFails, FreedPathFails, FinishExecution, NextOp
    <3> QED
      BY <2>5, <2>6, <2>7, <3>1
  <2>17. ~ (SysrootUnreadable \/ FreedPathAborts \/ Exit \/ Crash)
    BY <1>2 DEF SysrootUnreadable, FreedPathAborts, Exit, Crash
  <2> QED
    BY <2>7, <2>8, <2>9, <2>10, <2>11, <2>12, <2>13, <2>14, <2>15, <2>16, <2>17
       DEF Run, Plan, Execute
<1> QED
  BY <1>1, <1>2

LEMMA ConflictNext == ConflictInv /\ [Next]_vars => ConflictInv'
<1> SUFFICES ASSUME ConflictInv, [Next]_vars PROVE ConflictInv'
  OBVIOUS
<1>1. FixInv'
  BY FixNext DEF ConflictInv
<1>2. ASSUME Next PROVE FixMovesNoZip' /\ IndexIsWhole' /\ ClashesRefuse'
  BY <1>2, ConflictStart, ConflictRun DEF Next
<1>3. ASSUME UNCHANGED vars PROVE FixMovesNoZip' /\ IndexIsWhole' /\ ClashesRefuse'
  BY <1>3 DEF vars, ConflictInv, FixMovesNoZip, MovesZips, IndexIsWhole, ClashesRefuse,
     Clash, WillRefuse
<1> QED
  BY <1>1, <1>2, <1>3 DEF ConflictInv

LEMMA ConflictInit == Init => ConflictInv
BY FixInit DEF Init, NoCommand, ConflictInv, FixMovesNoZip, IndexIsWhole, ClashesRefuse

\* A `fix` of named packages that can read all it looks at takes nothing from
\* the other installed packages, but under the .zpksave names of what it
\* installs: for any packages and trees, and whatever write fails or kill comes.
THEOREM FixSparesOthersCorrect == Spec => []FixSparesOthers
<1>1. ConflictInv => FixSparesOthers
  <2> SUFFICES ASSUME ConflictInv, "read" \notin failed, cmd.op = "fix",
                      cmd.targets # {}, NEW p \in installed \ cmd.targets,
                      NEW q \in Paths, OnDisk(start, p, q), ~ IsSaved(cmd.targets, q)
               PROVE  OnDisk(disk, p, q)
    BY DEF FixSparesOthers, FixTakesFromNoOther
  <2>1. CASE installed \subseteq index
    <3>1. q \in OthersHave
      BY <2>1 DEF OthersHave, Held
    <3>2. disk[q] = start[q]
      BY <3>1 DEF ConflictInv, FixInv, FixSpares
    <3> QED
      BY <3>2 DEF OnDisk
  <2>2. CASE disk = start
    BY <2>2
  <2>3. pc = "index" => disk = start
    BY DEF ConflictInv, FixInv, PlansForTargets
  <2> QED
    BY <2>1, <2>2, <2>3 DEF ConflictInv, IndexIsWhole
<1> QED
  BY <1>1, ConflictInit, ConflictNext, PTL DEF Spec

\* While nothing fails, one target that finds another installed package's file
\* where it has to install its own keeps the whole `fix` from touching the
\* disk: for any packages and trees, in whatever order the targets come.
THEOREM ConflictRefusesAllCorrect == Spec => []ConflictRefusesAll
<1>1. ConflictInv => ConflictRefusesAll
  <2> SUFFICES ASSUME ConflictInv, cmd.op = "fix", failed = {},
                      NEW p \in cmd.targets, NEW o \in installed \ cmd.targets,
                      NEW q \in Claimed(p), OnDisk(start, o, q),
                      ~ OnDisk(start, p, q), ~ IsSaved(cmd.targets, q)
               PROVE  disk = start
    BY DEF ConflictRefusesAll
  <2>1. p \in Packages /\ o \in Packages /\ q \in Paths
    BY ClaimsAssumption DEF ConflictInv, FixInv, DelInv, TypeOK, Command
  <2>2. Clash(p, o, q)
    BY DEF Clash
  <2> QED
    BY <2>1, <2>2 DEF ConflictInv, ClashesRefuse
<1> QED
  BY <1>1, ConflictInit, ConflictNext, PTL DEF Spec

(***************************************************************************)
(* FixIsIdempotent.  When the disk holds every claim of every target, a     *)
(* `fix` that can read it finds its own files at every claim it visits, so  *)
(* its statuses stay what is on the disk and it plans nothing.              *)
(***************************************************************************)
Asked == IF cmd.targets = {} THEN installed ELSE cmd.targets

NothingToFix ==
  cmd.op = "fix" /\ failed = {} /\ start[Sysroot] = Directory
    /\ (\A p \in Asked : \A q \in Claimed(p) : OnDisk(start, p, q)) =>
      /\ disk = start /\ fsops = <<>> /\ pkfsops = <<>>
      /\ Settled(statuses, Paths)
      /\ todo \subseteq Asked /\ (pc = "plan" => current \in Asked)

IdleInv == FixInv /\ FixMovesNoZip /\ NothingToFix

LEMMA IdleStart ==
  ASSUME IdleInv, NEW op \in {"del", "fix"}, NEW targets \in SUBSET Packages,
         NEW dryRun \in BOOLEAN, Start(op, targets, dryRun)
  PROVE  FixMovesNoZip' /\ NothingToFix'
<1>1. /\ pc = "idle" /\ pc' \in {"index", "done"}
      /\ fsops' = <<>> /\ pkfsops' = <<>> /\ statuses' = NoStatuses
      /\ disk' = disk /\ start' = disk' /\ cmd'.targets = targets
      /\ todo' \subseteq Asked'
  BY DEF Start, IdleInv, FixInv, DelInv, NothingPlanned, PlansForTargets, Asked
<1>2. Settled(statuses, Paths)'
  BY <1>1 DEF Settled, NoStatuses, Unseen
<1> QED
  BY <1>1, <1>2 DEF FixMovesNoZip, MovesZips, NothingToFix

\* A claim that is on the disk is kept, and nothing is planned for it.
LEMMA OnDiskIsKept ==
  ASSUME TypeOK, cmd.op = "fix", failed' = {}, pc = "plan", disk = start,
         Settled(statuses, Paths), NEW q \in remaining, OnDisk(start, current, q),
         NEW readable \in BOOLEAN,
         \/ InstallMissing(q, readable) \/ InstallKept(q) \/ InstallConflict(q)
         \/ InstallDivert(q) \/ InstallDivertFails(q)
  PROVE  UNCHANGED pkfsops /\ Settled(statuses', Paths)
<1>1. current \in Packages /\ q \in Paths
  BY AtClaim
<1>2. Look(q, TRUE)[q] = Observed(start[q]) /\ Settled(Look(q, TRUE), Paths)
  BY <1>1, SettledLook
<1>3. Look(q, TRUE)[q].exists /\ MatchesUs(Look(q, TRUE), current, q)
  <2>1. IsMatch(Observed(start[q]), Claims[current][q])
    BY <1>1, OnDiskMatches
  <2> QED
    BY <1>2, <2>1 DEF MatchesUs, IsMatch
<1>4. ~ InstallMissing(q, readable)
  BY <1>3 DEF InstallMissing, Visit, ReadFault
<1>5. InstallKept(q)
  BY <1>3, <1>4 DEF InstallConflict, InstallDivert, InstallDivertFails, Diverted
<1> QED
  BY <1>2, <1>5 DEF InstallKept

LEMMA IdleRun ==
  ASSUME IdleInv, Run \/ Crash
  PROVE  FixMovesNoZip' /\ NothingToFix'
<1>1. CASE Rest
  BY <1>1 DEF FixMovesNoZip, NothingToFix, Rest, NoCommand
<1>2. CASE ~ Rest
  <2>1. /\ UNCHANGED <<cmd, start>> /\ failed \subseteq failed'
        /\ todo' \subseteq todo
        /\ pc' = "plan" => current' \in todo \/ (pc = "plan" /\ current' = current)
    BY <1>2, GoesOn DEF IdleInv, FixInv, DelInv
  <2> SUFFICES ASSUME cmd.op = "fix"
               PROVE  FixMovesNoZip' /\ NothingToFix'
    BY <2>1 DEF FixMovesNoZip, NothingToFix
  <2>2. FixMovesNoZip' /\ installed' = installed
    <3>1. PICK Z : Z = {}
      OBVIOUS
    <3>2. MovesZips(Z)' /\ installed' \subseteq installed /\ installed \ installed' \subseteq Z
      BY <3>1, RunMovesZips DEF IdleInv, FixInv, DelInv, FixMovesNoZip
    <3> QED
      BY <3>1, <3>2 DEF FixMovesNoZip
  <2>3. Asked' = Asked
    BY <2>1, <2>2 DEF Asked
  <2> SUFFICES ASSUME failed' = {}, start[Sysroot] = Directory,
                      \A p \in Asked : \A q \in Claimed(p) : OnDisk(start, p, q)
               PROVE  NothingToFix'
    BY <2>1, <2>2, <2>3 DEF NothingToFix
  <2>4. /\ disk = start /\ fsops = <<>> /\ pkfsops = <<>>
        /\ Settled(statuses, Paths)
        /\ todo \subseteq Asked /\ (pc = "plan" => current \in Asked)
        /\ TypeOK
    BY <2>1 DEF IdleInv, NothingToFix, FixInv, DelInv
  <2>5. todo' \subseteq Asked' /\ (pc' = "plan" => current' \in Asked')
    BY <2>1, <2>3, <2>4
  <2>6. ~ ReadFault
    BY DEF ReadFault
  <2>7. ASSUME disk' = disk, fsops' = <<>>, pkfsops' = <<>>, Settled(statuses', Paths)
        PROVE  NothingToFix'
    <3>1. Settled(statuses, Paths)'
      BY <2>7 DEF Settled
    <3> QED
      BY <2>1, <2>4, <2>5, <2>7, <3>1 DEF NothingToFix
  <2>8. CASE BuildIndex \/ Gate \/ FinishExecution
    <3>1. UNCHANGED <<disk, fsops, pkfsops, statuses>>
      BY <2>8 DEF BuildIndex, Gate, FinishExecution, planning
    <3> QED
      BY <2>4, <2>7, <3>1
  <2>9. CASE PrepareSysroot
    <3> DEFINE st == EnsureActual(statuses, disk, Sysroot, TRUE)
    <3>1. Sysroot \in Paths /\ st = Look(Sysroot, TRUE)
      BY PathsAssumption DEF Look
    <3>2. Look(Sysroot, TRUE)[Sysroot] = Observed(disk[Sysroot])
          /\ Settled(Look(Sysroot, TRUE), Paths)
      BY <2>4, <3>1, SettledLook
    <3>3. st[Sysroot].exists /\ st[Sysroot].isDir /\ Settled(st, Paths)
      <4>1. Observed(Directory).exists /\ Observed(Directory).isDir
        BY DEF Observed, Directory
      <4> QED
        BY <2>4, <3>1, <3>2, <4>1
    <3>4. statuses' = st /\ UNCHANGED <<disk, fsops, pkfsops>>
      BY <2>9, <3>3 DEF PrepareSysroot
    <3> QED
      BY <2>4, <2>7, <3>3, <3>4
  <2>10. ASSUME NEW p \in todo, RefusePackage(p) \/ BeginPackage(p) PROVE NothingToFix'
    <3>1. UNCHANGED <<disk, fsops, pkfsops, statuses>>
      BY <2>10 DEF RefusePackage, BeginPackage
    <3> QED
      BY <2>4, <2>7, <3>1
  <2>11. ASSUME NEW q \in remaining, NEW readable \in BOOLEAN,
                \/ InstallMissing(q, readable) \/ InstallKept(q) \/ InstallConflict(q)
                \/ InstallDivert(q) \/ InstallDivertFails(q)
         PROVE  NothingToFix'
    <3>1. UNCHANGED <<disk, fsops>> /\ pc = "plan"
      BY <2>11 DEF InstallMissing, InstallKept, InstallConflict, InstallDivert,
         InstallDivertFails, Visit
    <3>2. OnDisk(start, current, q)
      BY <2>4, <3>1, AtClaim
    <3>3. UNCHANGED pkfsops /\ Settled(statuses', Paths)
      BY <2>4, <2>11, <3>1, <3>2, OnDiskIsKept
    <3> QED
      BY <2>4, <2>7, <3>1, <3>3
  <2>12. ASSUME NEW q \in remaining, NEW readable \in BOOLEAN,
                Uninstall(q) \/ UninstallLeaves(q, readable)
         PROVE  FALSE
    BY <2>12 DEF Uninstall, UninstallLeaves, Visit
  <2>13. ~ FinishUninstall
    BY DEF FinishUninstall
  <2>14. CASE FinishInstall
    <3>1. <<>> \o <<>> = <<>>
      OBVIOUS
    <3>2. UNCHANGED <<disk, statuses>> /\ fsops' = <<>> /\ pkfsops' = <<>>
      BY <2>4, <2>14, <3>1 DEF FinishInstall
    <3> QED
      BY <2>4, <2>7, <3>2
  <2>15. ~ (ExecuteOp \/ OpFails \/ FreedPathFails)
    BY <2>4 DEF ExecuteOp, OpFails, FreedPathFails, NextOp
  <2>16. ~ (SysrootUnreadable \/ FreedPathAborts \/ Exit \/ Crash)
    BY <1>2 DEF SysrootUnreadable, FreedPathAborts, Exit, Crash
  <2> QED
    BY <2>8, <2>9, <2>10, <2>11, <2>12, <2>13, <2>14, <2>15, <2>16
       DEF Run, Plan, Execute
<1> QED
  BY <1>1, <1>2

LEMMA IdleNext == IdleInv /\ [Next]_vars => IdleInv'
<1> SUFFICES ASSUME IdleInv, [Next]_vars PROVE IdleInv'
  OBVIOUS
<1>1. FixInv'
  BY FixNext DEF IdleInv
<1>2. ASSUME Next PROVE FixMovesNoZip' /\ NothingToFix'
  BY <1>2, IdleStart, IdleRun DEF Next
<1>3. ASSUME UNCHANGED vars PROVE FixMovesNoZip' /\ NothingToFix'
  BY <1>3 DEF vars, IdleInv, FixMovesNoZip, MovesZips, NothingToFix, Asked, Settled
<1> QED
  BY <1>1, <1>2, <1>3 DEF IdleInv

\* A `fix` of packages that are whole on the disk plans nothing, whatever they
\* share and in whatever order they are planned.
THEOREM FixIsIdempotentCorrect == Spec => []FixIsIdempotent
<1>1. Init => IdleInv
  BY FixInit DEF Init, NoCommand, IdleInv, FixMovesNoZip, NothingToFix
<1>2. IdleInv => FixIsIdempotent
  BY DEF IdleInv, NothingToFix, FixIsIdempotent, Asked, Repaired, OnDisk
<1> QED
  BY <1>1, <1>2, IdleNext, PTL DEF Spec

(***************************************************************************)
(* A process that shares the disk with another.  Z are the packages that    *)
(* the commands given so far name, F those that a `fix` names, and t the    *)
(* disk before all of them.  As long as it can read what it looks at, the   *)
(* process minds what the packages outside Z have on t, and as long as both *)
(* do, it stays.                                                            *)
(***************************************************************************)
Minds(Z, F, t) ==
  /\ TypeOK /\ NothingPlanned
  /\ "read" \notin failed
  /\ todo \subseteq Z /\ (pc = "plan" => current \in Z)
  /\ cmd.op = "fix" => todo \subseteq F /\ (pc = "plan" => current \in F)
  /\ pc = "idle" => todo = {}
  /\ pc \notin {"idle", "index", "done"} => Packages \ Z \subseteq index
  /\ MovesZips(Z)
  /\ SparesHeld(Held(Packages \ Z, F, t))

StillThere(Z, F, t) ==
  /\ Packages \ Z \subseteq installed
  /\ \A q \in Held(Packages \ Z, F, t) : disk[q] = t[q]

LEMMA HeldShrinks ==
  ASSUME NEW Z \in SUBSET Packages, NEW F \in SUBSET Packages, NEW t,
         NEW Z2 \in SUBSET Packages, NEW F2 \in SUBSET Packages,
         Z \subseteq Z2, F \subseteq F2
  PROVE  Held(Packages \ Z2, F2, t) \subseteq Held(Packages \ Z, F, t)
BY DEF Held, IsSaved

LEMMA NothingPlannedNext ==
  ASSUME NothingPlanned, Run \/ Crash
  PROVE  NothingPlanned'
<1>1. ASSUME Rest PROVE NothingPlanned'
  BY <1>1 DEF Rest, NothingPlanned
<1>2. ASSUME UNCHANGED <<cmd, pkfsops>>, pc' \notin {"idle", "index"},
             pc' # "plan" => pc # "plan", pc' = "prepare" => cmd.op = "fix"
      PROVE  NothingPlanned'
  BY <1>2 DEF NothingPlanned
<1>3. CASE SysrootUnreadable \/ FreedPathAborts \/ Exit \/ Crash
  BY <1>1, <1>3 DEF SysrootUnreadable, FreedPathAborts, Exit, Crash
<1>4. CASE \/ BuildIndex \/ PrepareSysroot \/ Gate
           \/ ExecuteOp \/ OpFails \/ FreedPathFails \/ FinishExecution
  BY <1>2, <1>4 DEF BuildIndex, PrepareSysroot, Gate, ExecuteOp, OpFails,
     FreedPathFails, NextOp, FinishExecution, planning
<1>5. ASSUME NEW p \in todo, RefusePackage(p) \/ BeginPackage(p) PROVE NothingPlanned'
  BY <1>2, <1>5 DEF RefusePackage, BeginPackage
<1>6. ASSUME NEW q \in remaining, NEW readable \in BOOLEAN,
             \/ InstallMissing(q, readable) \/ UninstallLeaves(q, readable)
             \/ InstallKept(q) \/ InstallConflict(q)
             \/ InstallDivert(q) \/ InstallDivertFails(q) \/ Uninstall(q)
      PROVE  NothingPlanned'
  <2>1. pc' = "plan"
    BY <1>6 DEF InstallMissing, UninstallLeaves, InstallKept, InstallConflict,
       InstallDivert, InstallDivertFails, Uninstall, Visit
  <2> QED
    BY <2>1 DEF NothingPlanned
<1>7. CASE FinishInstall \/ FinishUninstall
  BY <1>7 DEF FinishInstall, FinishUninstall, NothingPlanned
<1> QED
  BY <1>3, <1>4, <1>5, <1>6, <1>7 DEF Run, Plan, Execute

\* The bound on failed reads is only spent, and a read that fails spends it.
LEMMA ReadsAreCounted ==
  ASSUME TypeOK, Run \/ Crash
  PROVE  /\ left'.reads <= left.reads
         /\ left'.reads = left.reads => failed' \subseteq failed \cup {"write"}
<1> DEFINE Goal == /\ left'.reads <= left.reads
                   /\ left'.reads = left.reads => failed' \subseteq failed \cup {"write"}
<1>0. left.reads \in Nat
  BY DEF TypeOK
<1>1. ASSUME Spend("reads") PROVE left'.reads \in Int /\ left'.reads < left.reads
  BY <1>0, <1>1 DEF Spend, TypeOK
<1>2. ASSUME Spend("writes") \/ Spend("crashes") \/ left' = left
      PROVE  left'.reads = left.reads
  BY <1>0, <1>2 DEF Spend, TypeOK
<1>3. ASSUME ReadFault \/ NoFault PROVE Goal
  BY <1>0, <1>1, <1>2, <1>3 DEF ReadFault, NoFault
<1>4. CASE BuildIndex
  BY <1>3, <1>4 DEF BuildIndex
<1>5. CASE PrepareSysroot \/ Gate \/ FinishExecution \/ FinishInstall \/ FinishUninstall
  <2>1. NoFault
    BY <1>5 DEF PrepareSysroot, Gate, FinishExecution, FinishInstall, FinishUninstall,
       NoFault
  <2> QED
    BY <1>3, <2>1
<1>6. ASSUME NEW p \in todo, RefusePackage(p) \/ BeginPackage(p) PROVE Goal
  <2>1. ReadFault \/ NoFault
    BY <1>6 DEF RefusePackage, BeginPackage, NoFault
  <2> QED
    BY <1>3, <2>1
<1>7. ASSUME NEW q \in remaining, NEW readable \in BOOLEAN,
             \/ InstallMissing(q, readable) \/ UninstallLeaves(q, readable)
             \/ InstallKept(q) \/ InstallConflict(q)
             \/ InstallDivert(q) \/ InstallDivertFails(q) \/ Uninstall(q)
      PROVE  Goal
  <2>1. ReadFault \/ NoFault
    BY <1>7 DEF InstallMissing, UninstallLeaves, InstallKept, InstallConflict,
       InstallDivert, InstallDivertFails, Uninstall, Visit
  <2> QED
    BY <1>3, <2>1
<1>8. CASE ExecuteOp \/ OpFails \/ FreedPathFails
  BY <1>0, <1>2, <1>8 DEF ExecuteOp, OpFails, FreedPathFails, NoFault
<1>9. CASE SysrootUnreadable
  BY <1>0, <1>1, <1>9 DEF SysrootUnreadable
<1>10. CASE FreedPathAborts \/ Exit \/ Crash
  BY <1>0, <1>2, <1>10 DEF FreedPathAborts, Exit, Crash, Rest
<1> QED
  BY <1>4, <1>5, <1>6, <1>7, <1>8, <1>9, <1>10 DEF Run, Plan, Execute

\* What the process does by itself.
LEMMA MindsStep ==
  ASSUME NEW Z \in SUBSET Packages, NEW F \in SUBSET Packages, NEW t \in Tree,
         WellFormed(t), Minds(Z, F, t), StillThere(Z, F, t),
         Run \/ Crash, left'.reads = left.reads
  PROVE  Minds(Z, F, t)' /\ StillThere(Z, F, t)'
<1>1. PICK Y \in SUBSET Packages : Y = Packages \ Z
  OBVIOUS
<1>2. PICK S : S = Held(Y, F, t)
  OBVIOUS
<1>3. /\ TypeOK /\ NothingPlanned /\ "read" \notin failed
      /\ todo \subseteq Z /\ (pc = "plan" => current \in Z)
      /\ cmd.op = "fix" => todo \subseteq F /\ (pc = "plan" => current \in F)
      /\ pc \notin {"idle", "index", "done"} => Y \subseteq index
      /\ MovesZips(Z) /\ SparesHeld(S)
      /\ Y \subseteq installed /\ \A q \in S : disk[q] = t[q]
  BY <1>1, <1>2 DEF Minds, StillThere
<1>4. TypeOK' /\ NothingPlanned'
  BY <1>3, TypeNext, NothingPlannedNext DEF Next
<1>5. "read" \notin failed'
  BY <1>3, ReadsAreCounted
<1>6. (\A q \in S : disk'[q] = t[q]) /\ SparesHeld(S)'
  BY <1>1, <1>2, <1>3, <1>5, RunSpares
<1>7. MovesZips(Z)' /\ Y \subseteq installed'
  BY <1>1, <1>3, RunMovesZips
<1>8. StillThere(Z, F, t)'
  BY <1>1, <1>2, <1>6, <1>7 DEF StillThere
<1>9. CASE Rest
  BY <1>1, <1>2, <1>4, <1>5, <1>6, <1>7, <1>8, <1>9 DEF Rest, NoCommand, Minds
<1>10. CASE ~ Rest
  <2>1. /\ UNCHANGED cmd /\ todo' \subseteq todo
        /\ pc' = "plan" => current' \in todo \/ (pc = "plan" /\ current' = current)
        /\ pc' \notin {"idle", "index"} /\ (pc' # "done" => pc \notin {"idle", "done"})
        /\ BuildIndex \/ (IndexStep /\ (pc' # "done" => pc # "index"))
    BY <1>3, <1>10, GoesOn
  <2>2. pc' \notin {"idle", "index", "done"} => Y \subseteq index'
    <3>1. CASE BuildIndex
      <4>1. ~ ReadFault
        BY <1>3, <1>5 DEF ReadFault
      <4>2. index' = installed
        BY <3>1, <4>1 DEF BuildIndex
      <4> QED
        BY <1>3, <4>2
    <3>2. CASE IndexStep /\ (pc' # "done" => pc # "index")
      BY <1>1, <1>3, <2>1, <3>2 DEF IndexStep
    <3> QED
      BY <2>1, <3>1, <3>2
  <2> QED
    BY <1>1, <1>2, <1>3, <1>4, <1>5, <1>6, <1>7, <1>8, <2>1, <2>2 DEF Minds
<1> QED
  BY <1>9, <1>10

\* What is minded of fewer packages, once a command names more.
LEMMA StillThereOfFewer ==
  ASSUME NEW Z \in SUBSET Packages, NEW F \in SUBSET Packages, NEW t,
         NEW Z2 \in SUBSET Packages, NEW F2 \in SUBSET Packages,
         Z \subseteq Z2, F \subseteq F2, StillThere(Z, F, t),
         UNCHANGED <<disk, installed>>
  PROVE  StillThere(Z2, F2, t) /\ StillThere(Z2, F2, t)'
<1>1. Held(Packages \ Z2, F2, t) \subseteq Held(Packages \ Z, F, t)
  BY HeldShrinks
<1> QED
  BY <1>1 DEF StillThere

AtEase ==
  /\ TypeOK /\ NothingPlanned
  /\ "read" \notin failed /\ (pc = "idle" => todo = {})

\* All that a command names is in Z, and in F what a `fix` names.
Named(op, targets, Z, F) ==
  /\ targets \subseteq Z /\ (targets = {} => installed \subseteq Z)
  /\ op = "fix" => targets \subseteq F /\ (targets = {} => installed \subseteq F)

\* A command names packages, and the process has planned nothing.
LEMMA MindsStart ==
  ASSUME NEW t, NEW Z2 \in SUBSET Packages, NEW F2 \in SUBSET Packages, AtEase,
         NEW op \in {"del", "fix"}, NEW targets \in SUBSET Packages,
         NEW dryRun \in BOOLEAN, Start(op, targets, dryRun),
         Named(op, targets, Z2, F2)
  PROVE  Minds(Z2, F2, t)'
<1>1. PICK S : S = Held(Packages \ Z2, F2, t)
  OBVIOUS
<1>2. /\ pc = "idle" /\ pc' \in {"index", "done"}
      /\ fsops' = <<>> /\ pkfsops' = <<>> /\ statuses' = NoStatuses
      /\ todo = {} /\ failed' = failed /\ "read" \notin failed
      /\ cmd'.op = op
      /\ todo' \subseteq IF targets = {} THEN installed ELSE targets
  BY DEF Start, AtEase, NothingPlanned
<1>3. TypeOK'
  BY TypeNext DEF AtEase, Next
<1>4. NothingPlanned'
  BY <1>2 DEF NothingPlanned
<1>5. MovesZips(Z2)'
  BY <1>2 DEF MovesZips
<1>6. SparesHeld(S)'
  <2>1. S \in SUBSET Paths
    BY <1>1 DEF Held
  <2> QED
    BY <1>2, <2>1 DEF SparesHeld, Settled, Spares, NoStatuses, Unseen
<1> QED
  BY <1>1, <1>2, <1>3, <1>4, <1>5, <1>6 DEF Minds, Named

\* Meanwhile the other process does something, or is given a command.
LEMMA MindsElsewhere ==
  ASSUME NEW Z \in SUBSET Packages, NEW F \in SUBSET Packages, NEW t,
         NEW Z2 \in SUBSET Packages, NEW F2 \in SUBSET Packages,
         Z \subseteq Z2, F \subseteq F2, Minds(Z, F, t),
         UNCHANGED <<pc, cmd, planning, start, failed, left>>,
         disk' \in Tree, installed' \in SUBSET Packages,
         StillThere(Z2, F2, t), StillThere(Z2, F2, t)'
  PROVE  Minds(Z2, F2, t)'
<1>1. PICK R : R = Held(Packages \ Z, F, t)
  OBVIOUS
<1>2. PICK S : S = Held(Packages \ Z2, F2, t)
  OBVIOUS
<1>3. S \subseteq R
  BY <1>1, <1>2, HeldShrinks
<1>4. \A q \in S : disk'[q] = t[q] /\ disk[q] = t[q]
  BY <1>2 DEF StillThere
<1>5. SparesHeld(R)
  BY <1>1 DEF Minds
<1>6. UNCHANGED <<statuses, fsops, pkfsops>>
  BY DEF planning
<1>7. SparesHeld(S)'
  BY <1>3, <1>4, <1>5, <1>6 DEF SparesHeld, Settled, Spares
<1>8. MovesZips(Z2)'
  <2>1. OpsMoving(Z) \subseteq OpsMoving(Z2)
    BY DEF OpsMoving
  <2> QED
    BY <1>6, <2>1 DEF Minds, MovesZips
<1>9. TypeOK' /\ NothingPlanned'
  BY DEF Minds, TypeOK, NothingPlanned, planning
<1> QED
  BY <1>2, <1>7, <1>8, <1>9 DEF Minds, planning

LEMMA MindsInit ==
  ASSUME Init, NEW t, t = disk
  PROVE  Minds({}, {}, t) /\ StillThere({}, {}, t)
<1>1. PICK S : S = Held(Packages \ {}, {}, t)
  OBVIOUS
<1>2. SparesHeld(S)
  <2>1. S \in SUBSET Paths
    BY <1>1 DEF Held
  <2> QED
    BY <2>1 DEF Init, SparesHeld, Settled, Spares, NoStatuses, Unseen
<1>3. TypeOK /\ NothingPlanned /\ MovesZips({})
  BY TypeInit DEF Init, NothingPlanned, MovesZips
<1> QED
  BY <1>1, <1>2, <1>3 DEF Init, NoCommand, Minds, StillThere
=============================================================================
