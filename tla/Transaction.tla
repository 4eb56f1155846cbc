----------------------------- MODULE Transaction -----------------------------
(***************************************************************************)
(* zpk processes that run `del` and `fix`, one after the other (main.c,     *)
(* fsops.c); TwoProcesses has two of them at a time.                        *)
(*                                                                          *)
(*   Start -> BuildIndex -> PrepareSysroot                                  *)
(*     -> for each target: Begin..., one action per claim, Finish...        *)
(*     -> Gate -> one action per planned file system operation -> Exit      *)
(*                                                                          *)
(* Planning reads the disk and the index and simulates what it plans in the *)
(* statuses of the index; nothing is written before Gate.  A process may    *)
(* die between any two steps, and leave the file it is extracting cut off.  *)
(* The next command then starts from the disk as it is.                     *)
(*                                                                          *)
(* `add` has no action that writes: its packages have no package_path, so   *)
(* do_add dies in basename_m before it executes anything.                   *)
(***************************************************************************)
EXTENDS PackageIndex

CONSTANTS
  NoPackage,       \* `current` while no package is being planned
  Rank,            \* the order of strcmp over the paths, the claims' order
  PartialCrc,      \* the checksum of a file whose extraction was cut off
  InitialTrees,    \* what the disk may be to begin with
  MaxCommands,     \* bounds of the instance: commands issued,
  MaxReadFaults,   \*   failed reads (stat, crc32, listing, opening a zip),
  MaxWriteFaults,  \*   failed file system operations,
  MaxCrashes       \*   and processes killed

ASSUME NoPackageAssumption == NoPackage \notin Packages

ASSUME RankAssumption ==
  /\ Rank \in [Paths -> Int]
  /\ \A q, r \in Paths : IsBelow(q, r) => Rank[r] < Rank[q]

ASSUME PartialCrcAssumption ==
  /\ PartialCrc \in Crcs
  /\ \A p \in Packages : \A q \in Claimed(p) : Claims[p][q].crc # PartialCrc

ASSUME InitialTreesAssumption ==
  \A t \in InitialTrees : t \in Tree /\ WellFormed(t)

ASSUME BoundsAssumption ==
  {MaxCommands, MaxReadFaults, MaxWriteFaults, MaxCrashes} \subseteq Nat

VARIABLES
  \* what outlives a process
  disk,              \* the tree
  installed,         \* packages whose zip is in the directory of installed ones
  \* the process
  pc, cmd,
  todo,              \* targets still to plan
  current,           \* the package being planned
  remaining,         \* its claims still to visit
  index,             \* packages merged into the FileIndex
  statuses,          \* FileIndex.statuses
  fsops, pkfsops,    \* operations planned: for the transaction, for `current`
  shouldNotInstall, shouldProceed,
  \* what the properties look back at
  start,             \* the disk when the command was issued
  failed,            \* what has failed during the command: reads, writes
  left               \* what the bounds leave

persistent == <<disk, installed>>
planning == <<todo, current, remaining, index, statuses, fsops, pkfsops,
              shouldNotInstall, shouldProceed>>
vars == <<disk, installed, pc, cmd, todo, current, remaining, index, statuses,
          fsops, pkfsops, shouldNotInstall, shouldProceed, start, failed, left>>

NoCommand == [op |-> "none", targets |-> {}, dryRun |-> FALSE]

Command == [op : {"none", "del", "fix"}, targets : SUBSET Packages,
            dryRun : BOOLEAN]

(***************************************************************************)
(* FsOp.  `crc` is the checksum of the zip entry a file is extracted from;  *)
(* an RMDIR of fsops_emit_rm_rf holds a path that rm_rf has already freed.  *)
(* RENAME_ZIP is do_del's RENAME of a zip out of the installed directory.   *)
(***************************************************************************)
Op(kind, q) == [kind |-> kind, path |-> q]
CreateFileOp(q, c) == [kind |-> "CREATEFILE", path |-> q, crc |-> c]
RenameOp(from, to) == [kind |-> "RENAME", from |-> from, to |-> to]
RenameZipOp(p) == [kind |-> "RENAME_ZIP", pkg |-> p]

FsOp ==
  [kind : {"MKDIR", "REMOVEFILE", "RMDIR", "RMDIR_FREED"}, path : Paths]
    \cup [kind : {"CREATEFILE"}, path : Paths, crc : Crcs]
    \cup [kind : {"RENAME"}, from : Paths, to : Paths]
    \cup [kind : {"RENAME_ZIP"}, pkg : Packages]

(***************************************************************************)
(* The fsops_emit_ functions: what each does to the simulated statuses.     *)
(***************************************************************************)
EmitMkdir(st, q) == [st EXCEPT ![q].seen = TRUE, ![q].exists = TRUE]

\* fsops_emit_rm and fsops_emit_rmdir
EmitGone(st, S) ==
  [q \in Paths |-> IF q \in S THEN [st[q] EXCEPT !.seen = TRUE, !.exists = FALSE]
                              ELSE st[q]]

EmitMv(st, from, to) ==
  [st EXCEPT ![to]   = [st[from] EXCEPT !.seen = TRUE, !.exists = TRUE],
             ![from] = [st[from] EXCEPT !.seen = TRUE, !.exists = FALSE]]

InstallOp(p, q) ==
  IF Claims[p][q].isDir THEN Op("MKDIR", q)
                        ELSE CreateFileOp(q, Claims[p][q].crc)

EmitInstall(st, p, q) ==
  IF Claims[p][q].isDir THEN EmitMkdir(st, q)
  ELSE [st EXCEPT ![q] = Observed(File(Claims[p][q].crc))]

(***************************************************************************)
(* fsops_emit_rm_rf, which looks at the disk, not at the statuses: all the  *)
(* files below q, then the directories, inner ones first.                   *)
(***************************************************************************)
Present(q) == {r \in Paths : (r = q \/ IsBelow(r, q)) /\ disk[r] # Missing}

RemovalOrders(q) ==
  {s \in SetToSeqs(Present(q)) : \A i, j \in DOMAIN s : i < j =>
     /\ disk[s[i]].kind = "dir" => disk[s[j]].kind = "dir"
     /\ ~ IsBelow(s[j], s[i])}

RmRf(q) ==
  {[i \in DOMAIN s |-> IF disk[s[i]].kind = "dir" THEN Op("RMDIR_FREED", s[i])
                                                  ELSE Op("REMOVEFILE", s[i])] :
     s \in RemovalOrders(q)}

(***************************************************************************)
(* Commands, up to the first package.                                       *)
(***************************************************************************)
Init ==
  /\ disk \in InitialTrees
  /\ installed = Packages
  /\ pc = "idle" /\ cmd = NoCommand
  /\ todo = {} /\ current = NoPackage /\ remaining = {} /\ index = {}
  /\ statuses = NoStatuses /\ fsops = <<>> /\ pkfsops = <<>>
  /\ shouldNotInstall = FALSE /\ shouldProceed = FALSE
  /\ start = disk /\ failed = {}
  /\ left = [commands |-> MaxCommands, reads |-> MaxReadFaults,
             writes |-> MaxWriteFaults, crashes |-> MaxCrashes]

\* The process is gone: its memory with it.
Rest ==
  /\ pc' = "idle" /\ cmd' = NoCommand
  /\ todo' = {} /\ current' = NoPackage /\ remaining' = {} /\ index' = {}
  /\ statuses' = NoStatuses /\ fsops' = <<>> /\ pkfsops' = <<>>
  /\ shouldNotInstall' = FALSE /\ shouldProceed' = FALSE
  /\ start' = disk' /\ failed' = {}

Spend(what) == left[what] > 0 /\ left' = [left EXCEPT ![what] = @ - 1]

ReadFault == Spend("reads") /\ failed' = failed \cup {"read"}
NoFault == UNCHANGED <<failed, left>>

\* parse_args: `del` names at least one package, `fix` may name none
Start(op, targets, dryRun) ==
  /\ pc = "idle" /\ Spend("commands")
  /\ op = "del" => targets # {}
  /\ cmd' = [op |-> op, targets |-> targets, dryRun |-> dryRun]
  /\ IF targets \subseteq installed
       THEN /\ pc' = "index" /\ shouldProceed' = TRUE
            /\ todo' = IF targets = {} THEN installed ELSE targets
       ELSE pc' = "done" /\ UNCHANGED <<shouldProceed, todo>>
  /\ start' = disk
  /\ UNCHANGED <<disk, installed, current, remaining, index, statuses, fsops,
                 pkfsops, shouldNotInstall, failed>>

\* fileindex_build.  A zip it cannot open is left out, a directory it cannot
\* list leaves the index empty; its callers ignore what it returns.
BuildIndex ==
  /\ pc = "index"
  /\ \/ index' = installed /\ NoFault
     \/ /\ ReadFault
        /\ \E p \in installed : index' \in {{}, installed \ {p}}
  /\ pc' = IF cmd.op = "fix" THEN "prepare" ELSE "choose"
  /\ UNCHANGED <<disk, installed, cmd, todo, current, remaining, statuses, fsops,
                 pkfsops, shouldNotInstall, shouldProceed, start>>

\* fsops_emit_mkdir_p of the sysroot
PrepareSysroot ==
  /\ pc = "prepare" /\ pc' = "choose"
  /\ LET st == EnsureActual(statuses, disk, Sysroot, TRUE) IN
       IF st[Sysroot].exists /\ st[Sysroot].isDir
         THEN statuses' = st /\ UNCHANGED fsops
         ELSE /\ statuses' = EmitMkdir(st, Sysroot)
              /\ fsops' = Append(fsops, Op("MKDIR", Sysroot))
  /\ NoFault
  /\ UNCHANGED <<disk, installed, cmd, todo, current, remaining, index, pkfsops,
                 shouldNotInstall, shouldProceed, start>>

\* It does not look at the NULL that fileindex_ensure_actual returns when it
\* cannot read the path, and dereferences it.
SysrootUnreadable ==
  /\ pc = "prepare" /\ Spend("reads")
  /\ UNCHANGED persistent
  /\ Rest

(***************************************************************************)
(* Planning a package: fsops_emit_install_package (fix), and                *)
(* fsops_emit_uninstall_package with what do_del adds to it (del).          *)
(***************************************************************************)
\* del: the package is not in the index.  Both: its zip does not open, or
\* another process has moved it since it was resolved.
RefusePackage(p) ==
  /\ pc = "choose" /\ p \in todo /\ todo' = todo \ {p}
  /\ \/ cmd.op = "del" /\ ~ ContainsPackage(index, p) /\ NoFault
     \/ (cmd.op = "del" => ContainsPackage(index, p)) /\ ReadFault
     \/ p \notin installed /\ NoFault
  /\ shouldProceed' = FALSE
  /\ UNCHANGED <<disk, installed, pc, cmd, current, remaining, index, statuses,
                 fsops, pkfsops, shouldNotInstall, start>>

\* Mutant: the package being planned is not recorded.
BeginUnnamed(p) ==
  /\ pc = "choose" /\ p \in todo /\ todo' = todo \ {p}
  /\ p \in installed
  /\ cmd.op = "del" => ContainsPackage(index, p)
  /\ pc' = "plan" /\ current' = NoPackage /\ remaining' = Claimed(p)
  /\ UNCHANGED <<disk, installed, cmd, index, statuses, fsops, pkfsops,
                 shouldNotInstall, shouldProceed, start, failed, left>>

BeginPackage(p) ==
  /\ pc = "choose" /\ p \in todo /\ todo' = todo \ {p}
  /\ p \in installed
  /\ cmd.op = "del" => ContainsPackage(index, p)
  /\ pc' = "plan" /\ current' = p /\ remaining' = Claimed(p)
  /\ UNCHANGED <<disk, installed, cmd, index, statuses, fsops, pkfsops,
                 shouldNotInstall, shouldProceed, start, failed, left>>

\* Mutant: claims are removed in the order they are installed.
IsNextForward(q) == q \in remaining /\ \A r \in remaining : Rank[q] <= Rank[r]

\* The claim the iterator is at: parents first to install, last to remove.
IsNext(q) ==
  /\ q \in remaining
  /\ \A r \in remaining :
       IF cmd.op = "del" THEN Rank[r] <= Rank[q] ELSE Rank[q] <= Rank[r]

\* The call of compute_match_status for claim q.  Its error is ignored: a
\* path that cannot be read goes on as one that does not exist.
Visit(op, q, readable) ==
  /\ pc = "plan" /\ cmd.op = op /\ IsNext(q)
  /\ remaining' = remaining \ {q}
  /\ IF readable THEN NoFault ELSE ~ statuses[q].seen /\ ReadFault
  /\ UNCHANGED <<disk, installed, pc, cmd, todo, current, index, fsops,
                 shouldProceed, start>>

Look(q, readable) == EnsureActual(statuses, disk, q, readable)

InstallMissing(q, readable) ==
  LET st == Look(q, readable) IN
  /\ Visit("fix", q, readable)
  /\ ~ st[q].exists
  /\ pkfsops' = Append(pkfsops, InstallOp(current, q))
  /\ statuses' = EmitInstall(st, current, q)
  /\ UNCHANGED shouldNotInstall

InstallKept(q) ==
  LET st == Look(q, TRUE) IN
  /\ Visit("fix", q, TRUE)
  /\ MatchesUs(st, current, q)
  /\ statuses' = st
  /\ UNCHANGED <<pkfsops, shouldNotInstall>>

InstallConflict(q) ==
  LET st == Look(q, TRUE) IN
  /\ Visit("fix", q, TRUE)
  /\ ~ MatchesUs(st, current, q) /\ MatchesOther(st, index, current, q)
  /\ shouldNotInstall' = TRUE
  /\ statuses' = st
  /\ UNCHANGED pkfsops

\* Something is there that is nobody's: it goes to .zpksave.
Diverted(st, q) ==
  st[q].exists /\ ~ MatchesUs(st, current, q) /\ ~ MatchesOther(st, index, current, q)

\* Mutant: the new file is made before the old one is saved.
DivertLate(q) == <<InstallOp(current, q), RenameOp(q, Save(q))>>

\* maybe_divert_path, once .zpksave is free, and the installation
DivertOps(q) == <<RenameOp(q, Save(q)), InstallOp(current, q)>>

InstallDivert(q) ==
  LET st == Look(q, TRUE)
      cleared == EmitGone(st, Present(Save(q)))
  IN
  /\ Visit("fix", q, TRUE)
  /\ Diverted(st, q)
  /\ \E removals \in RmRf(Save(q)) :
       pkfsops' = pkfsops \o removals \o DivertOps(q)
  /\ statuses' = EmitInstall(EmitMv(cleared, q, Save(q)), current, q)
  /\ UNCHANGED shouldNotInstall

\* fsops_emit_rm_rf cannot stat or list what is in the way.
InstallDivertFails(q) ==
  LET st == Look(q, TRUE) IN
  /\ pc = "plan" /\ cmd.op = "fix" /\ IsNext(q) /\ Diverted(st, q)
  /\ remaining' = remaining \ {q}
  /\ ReadFault
  /\ shouldNotInstall' = TRUE
  /\ statuses' = st
  /\ UNCHANGED <<disk, installed, pc, cmd, todo, current, index, fsops, pkfsops,
                 shouldProceed, start>>

\* Mutant: what other packages match is not looked at.
UninstallShared(q) ==
  LET st == Look(q, TRUE) IN
  /\ Visit("del", q, TRUE)
  /\ MatchesUs(st, current, q)
  /\ pkfsops' = Append(pkfsops,
       Op(IF Claims[current][q].isDir THEN "RMDIR" ELSE "REMOVEFILE", q))
  /\ statuses' = EmitGone(st, {q})
  /\ UNCHANGED shouldNotInstall

\* Ours and nobody else's: removed.
Uninstall(q) ==
  LET st == Look(q, TRUE) IN
  /\ Visit("del", q, TRUE)
  /\ MatchesUs(st, current, q) /\ ~ MatchesOther(st, index, current, q)
  /\ pkfsops' = Append(pkfsops,
       Op(IF Claims[current][q].isDir THEN "RMDIR" ELSE "REMOVEFILE", q))
  /\ statuses' = EmitGone(st, {q})
  /\ UNCHANGED shouldNotInstall

\* Missing, shared, or changed since it was installed.
UninstallLeaves(q, readable) ==
  LET st == Look(q, readable) IN
  /\ Visit("del", q, readable)
  /\ MatchesUs(st, current, q) => MatchesOther(st, index, current, q)
  /\ statuses' = st
  /\ UNCHANGED <<pkfsops, shouldNotInstall>>

\* A refused plan is dropped, though not what it simulated in the statuses.
FinishInstall ==
  /\ pc = "plan" /\ cmd.op = "fix" /\ remaining = {}
  /\ IF shouldNotInstall
       THEN shouldProceed' = FALSE /\ UNCHANGED <<fsops, index>>
       ELSE /\ fsops' = fsops \o pkfsops
            /\ index' = MergeClaims(index, current)
            /\ UNCHANGED shouldProceed
  /\ pc' = "choose" /\ current' = NoPackage /\ pkfsops' = <<>>
  /\ shouldNotInstall' = FALSE
  /\ UNCHANGED <<disk, installed, cmd, todo, remaining, statuses, start, failed, left>>

FinishUninstall ==
  /\ pc = "plan" /\ cmd.op = "del" /\ remaining = {}
  /\ index' = RemoveClaims(index, current)
  /\ fsops' = fsops \o pkfsops \o <<RenameZipOp(current)>>
  /\ pc' = "choose" /\ current' = NoPackage /\ pkfsops' = <<>>
  /\ UNCHANGED <<disk, installed, cmd, todo, remaining, statuses,
                 shouldNotInstall, shouldProceed, start, failed, left>>

\* Mutant: the plan is executed whatever was refused.
GateOpen ==
  /\ pc = "choose" /\ todo = {} /\ pc' = "execute"
  /\ UNCHANGED <<disk, installed, cmd, planning, start, failed, left>>

\* One refused package stops the transaction.
Gate ==
  /\ pc = "choose" /\ todo = {}
  /\ pc' = IF shouldProceed THEN "execute" ELSE "done"
  /\ UNCHANGED <<disk, installed, cmd, planning, start, failed, left>>

(***************************************************************************)
(* execute_fsops.                                                           *)
(***************************************************************************)
Effect(t, op) ==
  CASE op.kind = "MKDIR"      -> MakeDir(t, op.path)
    [] op.kind = "CREATEFILE" -> WriteFile(t, op.path, op.crc)
    [] op.kind = "REMOVEFILE" -> RemovePath(t, op.path)
    [] op.kind \in {"RMDIR", "RMDIR_FREED"} -> RemoveDir(t, op.path)
    [] op.kind = "RENAME"     -> Rename(t, op.from, op.to)
    [] op.kind = "RENAME_ZIP" -> t

\* What an extraction that does not finish can leave.
CutOff(op) ==
  IF op.kind = "CREATEFILE" THEN {disk, WriteFile(disk, op.path, PartialCrc)}
                            ELSE {disk}

\* Mutant: the loop does not advance.
NextOpStays ==
  /\ pc = "execute" /\ fsops # <<>>
  /\ UNCHANGED <<fsops, pc, cmd, todo, current, remaining, index, statuses,
                 pkfsops, shouldNotInstall, shouldProceed, start>>

NextOp ==
  /\ pc = "execute" /\ fsops # <<>>
  /\ fsops' = Tail(fsops)
  /\ UNCHANGED <<pc, cmd, todo, current, remaining, index, statuses, pkfsops,
                 shouldNotInstall, shouldProceed, start>>

ExecuteOp ==
  LET op == Head(fsops) IN
  /\ NextOp /\ NoFault
  /\ IF cmd.dryRun THEN UNCHANGED persistent
     ELSE /\ disk' = Effect(disk, op)
          /\ installed' = IF op.kind = "RENAME_ZIP" THEN installed \ {op.pkg}
                                                    ELSE installed

\* The failure is logged and the next operation executed.
OpFails ==
  /\ NextOp /\ ~ cmd.dryRun
  /\ Spend("writes") /\ failed' = failed \cup {"write"}
  /\ disk' \in CutOff(Head(fsops))
  /\ UNCHANGED installed

\* What a RMDIR of rm_rf holds has been freed.  Where the path is still there
\* ExecuteOp removes the directory; where the allocator has written over it
\* rmdir finds nothing by that name, which is logged like any failure.
FreedPathFails ==
  /\ NextOp /\ NoFault
  /\ ~ cmd.dryRun /\ Head(fsops).kind = "RMDIR_FREED"
  /\ UNCHANGED persistent

\* The address sanitizer (Makefile:37-40) ends the process when the freed path
\* is logged: before the call with -v, and in any case when the call failed.
FreedPathAborts ==
  /\ pc = "execute" /\ fsops # <<>> /\ Head(fsops).kind = "RMDIR_FREED"
  /\ UNCHANGED <<disk, installed, left>>
  /\ Rest

FinishExecution ==
  /\ pc = "execute" /\ fsops = <<>> /\ pc' = "done"
  /\ UNCHANGED <<disk, installed, cmd, planning, start, failed, left>>

Exit == pc = "done" /\ UNCHANGED <<disk, installed, left>> /\ Rest

Crash ==
  /\ pc # "idle" /\ Spend("crashes")
  /\ disk' \in IF pc = "execute" /\ fsops # <<>> /\ ~ cmd.dryRun
                 THEN CutOff(Head(fsops)) ELSE {disk}
  /\ UNCHANGED installed
  /\ Rest

(***************************************************************************)
(* The specification.  Run is what the process does by itself.              *)
(***************************************************************************)
Plan ==
  \/ BuildIndex \/ PrepareSysroot \/ SysrootUnreadable
  \/ \E p \in todo : RefusePackage(p) \/ BeginPackage(p)
  \/ \E q \in remaining :
       \/ \E readable \in BOOLEAN :
            InstallMissing(q, readable) \/ UninstallLeaves(q, readable)
       \/ InstallKept(q) \/ InstallConflict(q)
       \/ InstallDivert(q) \/ InstallDivertFails(q) \/ Uninstall(q)
  \/ FinishInstall \/ FinishUninstall \/ Gate

Execute ==
  \/ ExecuteOp \/ OpFails \/ FreedPathFails \/ FreedPathAborts
  \/ FinishExecution \/ Exit

Run == Plan \/ Execute

Next ==
  \/ \E op \in {"del", "fix"}, targets \in SUBSET Packages, dryRun \in BOOLEAN :
       Start(op, targets, dryRun)
  \/ Run
  \/ Crash

Spec == Init /\ [][Next]_vars

\* A started process is sequential code that the system keeps running.
FairSpec == Spec /\ WF_vars(Run)

(***************************************************************************)
(* Properties.                                                              *)
(***************************************************************************)
\* Every variable keeps its type; nothing is planned outside a command.
TypeOK ==
  /\ disk \in Tree /\ start \in Tree
  /\ installed \subseteq Packages
  /\ pc \in {"idle", "index", "prepare", "choose", "plan", "execute", "done"}
  /\ cmd \in Command
  /\ todo \subseteq Packages /\ index \subseteq Packages
  /\ current \in Packages \cup {NoPackage}
  /\ pc = "plan" => current \in Packages /\ remaining \subseteq Claimed(current)
  /\ pc # "plan" => remaining = {}
  /\ statuses \in [Paths -> Status]
  /\ fsops \in Seq(FsOp) /\ pkfsops \in Seq(FsOp)
  /\ shouldNotInstall \in BOOLEAN /\ shouldProceed \in BOOLEAN
  /\ failed \subseteq {"read", "write"}
  /\ left \in [{"commands", "reads", "writes", "crashes"} -> Nat]

\* `del` never takes from a package that stays in the index what that package
\* has on disk, whatever fails or crashes on the way: what another installed
\* package matches is left in place (fsops.c:771-775).
DelSparesOthers ==
  cmd.op = "del" =>
    \A p \in index, q \in Paths : OnDisk(start, p, q) => OnDisk(disk, p, q)

\* Where a fix of the packages in S saves what is in its way, or below it.  It
\* clears these paths without a look at the index (fsops.c:662-664).
IsSaved(S, q) ==
  \E p \in S : \E r \in Claimed(p) : q = Save(r) \/ IsBelow(q, Save(r))

\* Nor does `fix` take from the packages it was not asked to fix: a file that
\* matches another package is a conflict and refuses the install
\* (fsops.c:620-629).  What another package has under a .zpksave name of the
\* targets is not spared.
FixTakesFromNoOther ==
  cmd.op = "fix" /\ cmd.targets # {} =>
    \A p \in installed \ cmd.targets, q \in Paths :
      OnDisk(start, p, q) /\ ~ IsSaved(cmd.targets, q) => OnDisk(disk, p, q)

\* It holds of a `fix` that could read all it looked at, even if it crashes or
\* its writes fail.
FixSparesOthers == "read" \notin failed => FixTakesFromNoOther

\* A package whose zip has left the installed directory has left nothing that
\* only it owns, but directories that hold something else ("if good to proceed
\* remove the file from installed", main.c:176), and what a later fix may have
\* saved there.
RemovedLeavesNothing ==
  \A p \in Packages \ installed : \A q \in Claimed(p) :
    OnDisk(disk, p, q) =>
      \/ \E o \in installed : OnDisk(disk, o, q)
      \/ Claims[p][q].isDir /\ ~ IsEmpty(disk, q)
      \/ IsSaved(Packages, q)

\* The zip moves after the removals (main.c:176-181), so as long as no read and
\* no write fails it holds at every step and every crash: a package with files
\* to remove can still be named in a new `del`.
NoOrphans ==
  left.reads = MaxReadFaults /\ left.writes = MaxWriteFaults =>
    RemovedLeavesNothing

Undisturbed == pc = "done" /\ shouldProceed /\ ~ cmd.dryRun /\ failed = {}

Repaired(p) == \A q \in Claimed(p) : OnDisk(disk, p, q)

\* A package that claims the name under which one of its own files is saved, or
\* something below it, has what it installs there cleared or replaced later on.
SavesApart(p) == \A q \in Claimed(p) : ~ IsSaved({p}, q)

\* A directory under the name where something is to be saved is cleared by way
\* of freed paths (fsops.c:488), and may stay.
SavesClear(p) == \A q \in Claimed(p) : start[Save(q)].kind # "dir"

\* `fix` of one package that is not refused leaves every file of it as in the
\* zip, whatever was in the way, unless that was a file in place of the sysroot
\* or a directory where it saves, and whatever an earlier crash left behind
\* (main.c:197).
FixRepairsOne ==
  Undisturbed /\ cmd.op = "fix" /\ start[Sysroot].kind # "file" =>
    \A p \in Packages :
      cmd.targets = {p} /\ SavesApart(p) /\ SavesClear(p) => Repaired(p)

\* "reinstall packages whose files are missing or corrupt" (main.c:197), for
\* any number of packages.
FixRepairs ==
  Undisturbed /\ cmd.op = "fix" =>
    \A p \in IF cmd.targets = {} THEN installed ELSE cmd.targets : Repaired(p)

\* A file of the user that is neither a package's nor a saved copy is, at every
\* step of a `fix` of one package, where it was or under the .zpksave name it
\* was diverted to, by itself or with the directory it lies in ("renaming old
\* %s to %s.zpksave", fsops.c:653-669).
IsUsers(q) ==
  /\ start[q].kind = "file"
  /\ \A p \in Packages : ~ OnDisk(start, p, q)
  /\ ~ IsSaved(Packages, q)

KeptOrSaved(q) ==
  \/ disk[q] = start[q]
  \/ \E p \in cmd.targets : \E r \in Claimed(p) :
       (q = r \/ IsBelow(q, r)) /\ disk[Source(q, Save(r), r)] = start[q]

UserFilesSaved ==
  cmd.op = "fix" /\ failed = {}
    /\ (\E p \in Packages : cmd.targets = {p} /\ SavesApart(p)) =>
    \A q \in Paths : IsUsers(q) => KeptOrSaved(q)

\* It holds as long as no directory is in the way where the package saves.
UserFilesKept == (\A p \in cmd.targets : SavesClear(p)) => UserFilesSaved

\* If one target of a `fix` finds another installed package's file where it has
\* to install its own, no target is touched (main.c:255-257).
ConflictRefusesAll ==
  cmd.op = "fix" /\ failed = {}
    /\ (\E p \in cmd.targets, o \in installed \ cmd.targets : \E q \in Claimed(p) :
          /\ OnDisk(start, o, q) /\ ~ OnDisk(start, p, q)
          /\ ~ IsSaved(cmd.targets, q))
  => disk = start

\* Once every claim of its targets is on disk, `fix` has nothing to execute:
\* it does not divert what it installed itself.
FixIsIdempotent ==
  pc = "execute" /\ cmd.op = "fix" /\ failed = {}
    /\ disk = start /\ disk[Sysroot] = Directory
    /\ (\A p \in IF cmd.targets = {} THEN installed ELSE cmd.targets : Repaired(p))
  => fsops = <<>>

\* Every command ends.
Termination == pc # "idle" ~> pc = "idle"
=============================================================================
