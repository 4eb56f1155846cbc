----------------------------- MODULE PathNames -----------------------------
(***************************************************************************)
(* The functions on path names of pathutils.c and oscompatlayer.c.  A name  *)
(* is a sequence of symbols: the characters that mean something in a path,  *)
(* and one symbol for a run of others.                                      *)
(***************************************************************************)
EXTENDS Integers, SequencesExt

Slash == "/"
Dot == "."
Backslash == "\\"

Null == <<>>            \* no name: none of these functions returns an empty one

CurrentDir == <<Dot>>
ParentDir == <<Dot, Dot>>

(***************************************************************************)
(* normalize: the loop over the characters, the end of the name included.   *)
(* `start` is the length of `out` where the component begins.               *)
(***************************************************************************)
NormalizeStart == [out |-> <<>>, start |-> 0, state |-> "start", bad |-> FALSE]

\* Mutant: ".." is an ordinary component.
EndComponentUp(m, atEnd) ==
  IF m.state \in {"start", "onedot"}
    THEN [m EXCEPT !.out = SubSeq(m.out, 1, m.start), !.state = "start"]
  ELSE IF atEnd THEN [m EXCEPT !.state = "start"]
  ELSE [m EXCEPT !.out = Append(m.out, Slash), !.start = Len(m.out) + 1,
                 !.state = "start"]

EndComponent(m, atEnd) ==
  IF m.state = "twodots" THEN [m EXCEPT !.bad = TRUE]
  ELSE IF m.state \in {"start", "onedot"}
    THEN [m EXCEPT !.out = SubSeq(m.out, 1, m.start), !.state = "start"]
  ELSE IF atEnd THEN [m EXCEPT !.state = "start"]
  ELSE [m EXCEPT !.out = Append(m.out, Slash), !.start = Len(m.out) + 1,
                 !.state = "start"]

NextDots(state, c) ==
  CASE c = Dot /\ state = "start"  -> "onedot"
    [] c = Dot /\ state = "onedot" -> "twodots"
    [] OTHER                       -> "other"

NormalizeSymbol(m, c) ==
  CASE m.bad         -> m
    [] c = Slash     -> EndComponent(m, FALSE)
    [] c = Backslash -> [m EXCEPT !.bad = TRUE]
    [] OTHER         -> [m EXCEPT !.out = Append(m.out, c),
                                  !.state = NextDots(m.state, c)]

Normalize(name) ==
  LET m == FoldLeft(NormalizeSymbol, NormalizeStart, name)
      e == IF m.bad THEN m ELSE EndComponent(m, TRUE)
  IN IF e.bad \/ e.out = <<>> THEN Null
     ELSE IF Last(e.out) = Slash THEN Front(e.out) ELSE e.out

(***************************************************************************)
(* joinpath, and basename_m's and getconfig_dir's last slash                *)
(***************************************************************************)
JoinPath(dir, name) ==
  IF dir # <<>> /\ Last(dir) = Slash THEN dir \o name ELSE dir \o <<Slash>> \o name

\* joinpath_slice and joinpath_slice_str, which the configuration uses, are
\* declared (pathutils.h:13-14) and defined nowhere: taken to join as joinpath.
JoinPathSlice(dir, name) == JoinPath(dir, name)

LastSlash(name) == SelectLastInSeq(name, LAMBDA c : c = Slash)

IsAbsolute(name) == name # <<>> /\ name[1] = Slash

(***************************************************************************)
(* The components of a name: its runs of symbols between slashes.           *)
(***************************************************************************)
AddSymbol(components, c) ==
  IF c = Slash THEN Append(components, <<>>)
  ELSE Front(components) \o <<Append(Last(components), c)>>

Components(name) ==
  SelectSeq(FoldLeft(AddSymbol, <<<<>>>>, name), LAMBDA component : component # <<>>)

Joined(components) ==
  FoldLeft(LAMBDA name, component : IF name = <<>> THEN component
                                    ELSE name \o <<Slash>> \o component,
           <<>>, components)

(***************************************************************************)
(* cleanpath, component by component.  `poppable` counts the components     *)
(* that ".." may take away again; `base` is the length of the leading "/".  *)
(***************************************************************************)
\* Mutant: the separator stays when its component is popped.
PopKeepingSlash(out, base) ==
  SubSeq(out, 1, LET k == LastSlash(out) IN IF k > base THEN k ELSE base)

Pop(out, base) ==
  SubSeq(out, 1, LET k == LastSlash(out) IN IF k > base THEN k - 1 ELSE base)

Push(out, base, component) ==
  (IF Len(out) > base THEN Append(out, Slash) ELSE out) \o component

CleanComponent(m, component) ==
  CASE component = CurrentDir -> m
    [] component = ParentDir /\ m.poppable > 0 ->
         [m EXCEPT !.out = Pop(m.out, m.base), !.poppable = @ - 1]
    [] component = ParentDir /\ m.poppable = 0 ->
         IF m.base = 1 THEN m ELSE [m EXCEPT !.out = Push(m.out, 0, ParentDir)]
    [] OTHER -> [m EXCEPT !.out = Push(m.out, m.base, component), !.poppable = @ + 1]

CleanPath(name) ==
  LET base == IF IsAbsolute(name) THEN 1 ELSE 0
      m == FoldLeft(CleanComponent,
                    [out |-> SubSeq(name, 1, base), base |-> base, poppable |-> 0],
                    Components(name))
  IN IF m.out = <<>> THEN CurrentDir ELSE m.out
=============================================================================
