---------------------------- MODULE MCExtraction ----------------------------
(***************************************************************************)
(* Extraction of archives that share directories, replace each other's     *)
(* files, want the same path to be different things, or are no good.       *)
(***************************************************************************)
EXTENDS Extraction

CONSTANT MaxSymlinkDepth

R == INSTANCE SymlinkResolver

lib     == <<"lib">>
cur     == <<"cur">>
libCore == <<"lib", "core">>
libCur  == <<"lib", "cur">>
curCore == <<"cur", "core">>

MCPaths == {lib, cur, libCore, libCur, curCore}

MCAbove == [p \in MCPaths |-> IF Len(p) = 1 THEN {} ELSE {SubSeq(p, 1, 1)}]

v1 == <<"v1">>
v2 == <<"v2">>
toLib   == <<"lib">>
toCore  == <<"lib", "core">>
toCur   == <<"..", "cur">>
toSelf  == <<"lib", ".", "cur">>

MCContents == {v1, v2}
MCTargets  == {toLib, toCore, toCur, toSelf}
MCEmpty    == <<>>

Dir(p)     == [path |-> p, kind |-> "dir", of |-> <<>>]
File(p, c) == [path |-> p, kind |-> "file", of |-> c]
Link(p, t) == [path |-> p, kind |-> "link", of |-> t]

MCArchives ==
  { <<Link(cur, toLib), File(libCore, v1)>>,
    <<Dir(lib), File(libCore, v2), Link(libCur, toCur)>>,
    <<File(lib, v1)>>,
    <<Link(cur, toCore)>>,
    <<File(curCore, v1), Dir(cur)>>,
    <<File(libCore, v1), File(lib, v1)>>,
    <<Dir(lib), Dir(lib)>>,
    <<Link(cur, toSelf)>>,
    <<Link(cur, toSelf), Link(libCur, toCur)>> }

MCLinksResolve(paths, Links) == R!AllResolve(paths, Links)
=============================================================================
