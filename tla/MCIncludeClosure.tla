--------------------------- MODULE MCIncludeClosure ---------------------------
(***************************************************************************)
(* Instances of IncludeClosure for TLC: a map directory, a library that    *)
(* can be configured as a root and an outer directory that is neither.     *)
(* An argument is a plain name, or one in another directory ("../lib/n").  *)
(***************************************************************************)
EXTENDS IncludeClosure

CONSTANTS AltSpelling, \* a second URI of map/n
          Untitled     \* a document that is no file

MCDirs == {"map", "lib", "out"}
MCPaths == MCDirs \X {"m", "n", "s"}
MCCreatable == {<<"map", "m">>, <<"map", "n">>, <<"map", "s">>,
                <<"lib", "n">>, <<"lib", "s">>, <<"out", "s">>}
MCUris == MCPaths \cup {AltSpelling, Untitled}
MCArgs == {<<"", "m">>, <<"", "n">>, <<"", "s">>, <<"lib", "n">>, <<"out", "s">>}
MCPathOf == [u \in MCUris |-> CASE u = AltSpelling -> <<"map", "n">>
                                [] u = Untitled -> NoPath
                                [] OTHER -> u]
MCUriOf == [p \in MCPaths |-> p]
MCDirOf == [p \in MCPaths |-> p[1]]
MCJoin == [x \in MCDirs \X MCArgs |->
             <<IF x[2][1] = "" THEN x[1] ELSE x[2][1], x[2][2]>>]
MCWithin == {<<p[1], p>> : p \in MCPaths}
MCScripts == {p \in MCPaths : p[2] = "s"}

MCRich == {<<"map", "m">>}
MapM == <<"map", "m">>
OneRoot == <<"lib">>
NoRoots == <<>>
MapS == {<<"map", "s">>}
==============================================================================
