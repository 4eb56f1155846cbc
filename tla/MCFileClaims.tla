---------------------------- MODULE MCFileClaims ----------------------------
(***************************************************************************)
(* Zips of up to four entries over a directory with a file, a directory    *)
(* within it, and a file inside that; and the names of entries.             *)
(***************************************************************************)
EXTENDS FileClaims, MCPathNames

MCPaths == {<<>>, <<"d">>, <<"d", "f">>, <<"d", "e">>, <<"d", "e", "f">>, <<"f">>}

(***************************************************************************)
(* The names of entries and of configured paths, looked at once, before the *)
(* first entry is read.                                                     *)
(***************************************************************************)
\* The name an entry of a zip gets holds its components in their order, and no
\* "." or empty one; a name with ".." or a backslash is no name at all, so no
\* entry can lie outside the sysroot (pathutils.c:35-95).
NormalizesByComponents ==
  zip = <<>> => \A s \in Spelled : Normalize(s) = NormalizedName(s)

\* A configured path is cleaned of "." and of each ".." with the name before it,
\* and stays at the root where there is none (oscompatlayer.c:129-196).
CleansByComponents ==
  zip = <<>> => \A s \in Spelled : CleanPath(s) = CleanName(s)
=============================================================================
