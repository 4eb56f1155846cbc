---------------------------- MODULE TwoProcesses ----------------------------
(***************************************************************************)
(* Two zpk processes on one tree: that of Transaction, and another one with *)
(* a memory of its own.  Nothing in the code locks: what either has read,   *)
(* and all that it has planned, may be stale when it is executed.           *)
(***************************************************************************)
EXTENDS Transaction

CONSTANT
  MaxNamed            \* bound of the instance: packages the commands name

VARIABLES
  \* the memory of the other process
  pc2, cmd2, todo2, current2, remaining2, index2, statuses2, fsops2, pkfsops2,
  shouldNotInstall2, shouldProceed2, start2, failed2, left2,
  \* what the properties look back at
  first,              \* the tree to begin with
  named,              \* packages that were to be changed, by kind of command
  overlapped          \* the two have run at the same time

memory == <<pc, cmd, planning, start, failed, left>>

memory2 == <<pc2, cmd2, todo2, current2, remaining2, index2, statuses2, fsops2,
             pkfsops2, shouldNotInstall2, shouldProceed2, start2, failed2, left2>>

pairVars == <<vars, memory2, first, named, overlapped>>

Other == INSTANCE Transaction WITH
  pc <- pc2, cmd <- cmd2, todo <- todo2, current <- current2,
  remaining <- remaining2, index <- index2, statuses <- statuses2,
  fsops <- fsops2, pkfsops <- pkfsops2, shouldNotInstall <- shouldNotInstall2,
  shouldProceed <- shouldProceed2, start <- start2, failed <- failed2,
  left <- left2

PairInit ==
  /\ Init /\ Other!Init
  /\ first = disk /\ overlapped = FALSE
  /\ named = [del |-> {}, fix |-> {}]

\* `fix` without targets names all there is.
Issue(op, targets) ==
  /\ named' = [named EXCEPT ![op] = @ \cup IF targets = {} THEN installed ELSE targets]
  /\ Cardinality(named'.del) + Cardinality(named'.fix) <= MaxNamed

\* The two are alike, so the first command is this one's.
StartOne ==
  \E op \in {"del", "fix"}, targets \in SUBSET Packages :
    /\ Issue(op, targets)
    /\ \/ Start(op, targets, FALSE) /\ UNCHANGED memory2
       \/ left.commands < MaxCommands /\ Other!Start(op, targets, FALSE) /\ UNCHANGED memory

\* MaxCrashes bounds the two together.
StepThis ==
  /\ Run \/ (left2.crashes = MaxCrashes /\ Crash)
  /\ UNCHANGED <<memory2, named>>

StepOther ==
  /\ Other!Run \/ (left.crashes = MaxCrashes /\ Other!Crash)
  /\ UNCHANGED <<memory, named>>

Overlap ==
  /\ overlapped' = (overlapped \/ (pc' # "idle" /\ pc2' # "idle"))
  /\ UNCHANGED first

PairNext == (StartOne \/ StepThis \/ StepOther) /\ Overlap

\* Each is scheduled whatever the other does.
PairSpec ==
  /\ PairInit /\ [][PairNext]_pairVars
  /\ WF_pairVars(Run /\ UNCHANGED <<memory2, named>> /\ Overlap)
  /\ WF_pairVars(Other!Run /\ UNCHANGED <<memory, named>> /\ Overlap)

Taken == named.del \cup named.fix

(***************************************************************************)
(* Properties.                                                              *)
(***************************************************************************)
NoReadFailed == left.reads = MaxReadFaults /\ left2.reads = MaxReadFaults
NoWriteFailed == left.writes = MaxWriteFaults /\ left2.writes = MaxWriteFaults

\* Two processes together take from no package that neither of them was asked
\* to change, however they interleave, whatever write fails and whichever of
\* them dies: every claim of it that was on disk to begin with stays, as long
\* as each can read what it looks at (fsops.c:620-629, 771-775).
BystandersKept ==
  NoReadFailed =>
    \A p \in Packages \ Taken, q \in Paths :
      OnDisk(first, p, q) /\ ~ IsSaved(named.fix, q) => OnDisk(disk, p, q)

\* What packages that are gone have left on disk and only they own, after any
\* number of `del`s, none of which meets a failure, whichever of the two dies:
\* directories that hold something else (main.c:176-181).  Of two that run at
\* the same time each takes the other's package for one that stays, so what
\* both claim may be left behind, and nothing else.
OrphansAreShared ==
  named.fix = {} /\ NoReadFailed /\ NoWriteFailed =>
    \A p \in Packages \ installed : \A q \in Claimed(p) :
      OnDisk(disk, p, q) =>
        \/ \E o \in installed : OnDisk(disk, o, q)
        \/ Claims[p][q].isDir /\ ~ IsEmpty(disk, q)
        \/ overlapped /\ \E o \in Packages \ (installed \cup {p}) : OnDisk(disk, o, q)
=============================================================================
