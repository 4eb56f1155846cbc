---------------------------- MODULE MCPathNames ----------------------------
(***************************************************************************)
(* The functions of PathNames against definitions by components, for every  *)
(* name of up to MaxSymbols symbols.                                        *)
(***************************************************************************)
EXTENDS PathNames

MaxSymbols == 6

Spelled == BoundedSeq({Slash, Dot, Backslash, "f"}, MaxSymbols)

NamesIn(name) == SelectSeq(Components(name), LAMBDA c : c # CurrentDir)

NormalizedName(name) ==
  IF Backslash \in Range(name) \/ ParentDir \in Range(Components(name)) THEN Null
  ELSE Joined(NamesIn(name))

\* The components left over: a ".." stands only before all the names.
RECURSIVE Cancelled(_)
Cancelled(components) ==
  LET Here == {i \in 1..(Len(components) - 1) :
                 components[i] # ParentDir /\ components[i + 1] = ParentDir}
  IN IF Here = {} THEN components
     ELSE LET i == CHOOSE i \in Here : TRUE IN
          Cancelled(SubSeq(components, 1, i - 1)
                      \o SubSeq(components, i + 2, Len(components)))

CleanName(name) ==
  LET left == Cancelled(NamesIn(name)) IN
  IF IsAbsolute(name)
    THEN <<Slash>> \o Joined(SelectSeq(left, LAMBDA c : c # ParentDir))
    ELSE IF left = <<>> THEN CurrentDir ELSE Joined(left)
=============================================================================
