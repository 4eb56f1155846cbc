---------------------------- MODULE MCTransaction ----------------------------
(***************************************************************************)
(* Small instances of Transaction.  Packages a and b share directory d and  *)
(* file d/f; c claims another content for d/f, and e claims d as a file.    *)
(***************************************************************************)
EXTENDS Transaction

d == <<"d">>        ds == <<"d.zpksave">>
df == <<"d", "f">>  dfs == <<"d", "f.zpksave">>
dg == <<"d", "g">>  dgs == <<"d", "g.zpksave">>
dsf == <<"d.zpksave", "f">>   dsfs == <<"d.zpksave", "f.zpksave">>
dsg == <<"d.zpksave", "g">>   dsgs == <<"d.zpksave", "g.zpksave">>

MCSaveName == [d |-> "d.zpksave", f |-> "f.zpksave", g |-> "g.zpksave"]

\* strcmp: '.' sorts before '/'
PathOrder == <<Sysroot, d, ds, dsf, dsfs, dsg, dsgs, df, dfs, dg, dgs>>

MCPaths == Range(PathOrder)
MCRank == [q \in MCPaths |-> CHOOSE i \in DOMAIN PathOrder : PathOrder[i] = q]

MCCrcs == {"zero", "one", "two", "user", "partial"}

AllClaims ==
  [a |-> (d :> DirClaim @@ df :> FileClaim("one")),
   b |-> (d :> DirClaim @@ df :> FileClaim("one") @@ dg :> FileClaim("two")),
   c |-> (d :> DirClaim @@ df :> FileClaim("two") @@ dg :> FileClaim("one")),
   b2 |-> (d :> DirClaim @@ df :> FileClaim("one")),
   e |-> (d :> FileClaim("two"))]

MCClaims == [p \in Packages |-> AllClaims[p]]

TreeOf(paths, nodes) ==
  [q \in paths |-> IF q \in DOMAIN nodes THEN nodes[q] ELSE Missing]

\* `del` finds d as it was installed, its files missing, changed or not, and a
\* file of the user beside them.
DelTrees ==
  {TreeOf(MCPaths, Sysroot :> Directory @@ d :> Directory
                       @@ df :> f @@ dg :> g @@ dfs :> fs) :
     f \in {Missing, File("one"), File("two"), File("user")},
     g \in {Missing, File("two"), File("user")},
     fs \in {Missing, File("user")}}

\* `fix` finds anything where it installs and where it saves.
FixTrees ==
  LET Trees ==
        {TreeOf(MCPaths, Sysroot :> root @@ d :> n @@ df :> f @@ dfs :> fs
                             @@ ds :> s @@ dsf :> sf) :
           root \in {Directory, Missing},
           n \in {Missing, Directory, File("user"), File("two")},
           f \in {Missing, File("one"), File("user"), Directory},
           fs \in {Missing, File("user")},
           s \in {Missing, Directory},
           sf \in {Missing, File("user")}}
  IN {t \in Trees : WellFormed(t)}

\* No directory where it saves.
UnsavedTrees == {t \in FixTrees : t[ds] = Missing}
=============================================================================
