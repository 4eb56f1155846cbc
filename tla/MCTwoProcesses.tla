--------------------------- MODULE MCTwoProcesses ---------------------------
(***************************************************************************)
(* A small instance of TwoProcesses: trees as `del` finds them.             *)
(***************************************************************************)
EXTENDS TwoProcesses, MCTransaction

PairTrees ==
  {t \in DelTrees : t[dg] = File("two") /\ t[dfs] = Missing}
    \cup {t \in DelTrees : t[df] = File("one") /\ t[dg] # File("two") /\ t[dfs] # Missing}
=============================================================================
