-------------------------- MODULE SymlinkResolver --------------------------
(***************************************************************************)
(* How the extractor follows the target of a symbolic link, component by   *)
(* component (internal/qtinstall/archive_extractor.go).  A path is a       *)
(* sequence of names; Links[p] is the target of the link at p, or Empty.   *)
(***************************************************************************)
EXTENDS Naturals, Sequences, SequencesExt, FiniteSets

CONSTANTS Empty, MaxSymlinkDepth

Unresolved == [ok |-> FALSE, at |-> <<>>]

RECURSIVE Resolve(_, _, _, _)

\* resolveSymlinkComponents: from where, along components, inside the links of
\* active; it leaves the destination, enters a link twice, goes too deep, or
\* ends somewhere below the destination.
Resolve(where, components, Links, active) ==
  IF components = <<>> THEN [ok |-> TRUE, at |-> where]
  ELSE LET name == Head(components)
           rest == Tail(components)
           here == Append(where, name)
       IN  CASE name \in {"", "."} -> Resolve(where, rest, Links, active)
             [] name = ".." ->
                  IF where = <<>> THEN Unresolved ELSE Resolve(Front(where), rest, Links, active)
             [] name \notin {"", ".", ".."} /\ (here \notin DOMAIN Links \/ Links[here] = Empty) ->
                  Resolve(here, rest, Links, active)
             [] OTHER ->
                  IF here \in active \/ Cardinality(active) >= MaxSymlinkDepth THEN Unresolved
                  ELSE LET through == Resolve(where, Links[here], Links, active \cup {here})
                       IN  IF through.ok THEN Resolve(through.at, rest, Links, active) ELSE through

\* validateSymlinkTargets, over every link at one of paths.
AllResolve(paths, Links) ==
  \A p \in paths : Resolve(Front(p), Links[p], Links, {}).ok
=============================================================================
