----------------------------- MODULE Extraction -----------------------------
(***************************************************************************)
(* SevenZipExtractor.Extract (internal/qtinstall/archive_extractor.go) on  *)
(* one destination, archive after archive: the archive is validated alone  *)
(* and against what is there, then directories and files are written in    *)
(* the archive's order, and its symbolic links last.  A call may fail or   *)
(* be killed anywhere, and what it wrote stays.                            *)
(*                                                                         *)
(* The destination is a map from paths to nodes [kind, of]: of is the      *)
(* content of a file, the target of a link, and nothing for the others.    *)
(***************************************************************************)
EXTENDS Naturals, Sequences

CONSTANTS
  Paths,            \* paths below the destination
  Above,            \* Above[p]: the directories above p, the destination left out
  Contents,         \* contents of files
  Targets,          \* targets of symbolic links
  Empty,            \* what a directory, or a path without a node, holds
  Archives,         \* archives that are extracted: sequences of entries
  LinksResolve(_, _)  \* whether links resolve below the destination, among links

Nodes ==
  [kind : {"dir", "none"}, of : {Empty}]
    \cup [kind : {"file"}, of : Contents] \cup [kind : {"link"}, of : Targets]

Entries ==
  [path : Paths, kind : {"dir"}, of : {Empty}]
    \cup [path : Paths, kind : {"file"}, of : Contents]
    \cup [path : Paths, kind : {"link"}, of : Targets]

ASSUME ExtractionAssumption ==
  /\ Above \in [Paths -> SUBSET Paths]
  /\ \A p \in Paths : p \notin Above[p] /\ \A q \in Above[p] : Above[q] \subseteq Above[p]
  /\ Empty \notin Targets
  /\ Archives \subseteq Seq(Entries)

Nothing   == [kind |-> "none", of |-> Empty]
Directory == [kind |-> "dir", of |-> Empty]
NodeOf(e) == [kind |-> e.kind, of |-> e.of]

Phases == {"idle", "archive", "destination", "write", "copy", "replace", "parents", "links",
           "done", "failed"}

VARIABLES
  tree,      \* tree[p]: the node at p
  archive,   \* the entries of the archive
  before,    \* the tree when this call began (history)
  pc,        \* phase of the extraction
  next,      \* position in archive
  lost       \* files removed to be replaced, and not replaced since

vars == <<tree, archive, before, pc, next, lost>>

Init ==
  /\ tree = [p \in Paths |-> Nothing]
  /\ archive = <<>>
  /\ before = tree
  /\ pc = "idle"
  /\ next = 1
  /\ lost = {}

-----------------------------------------------------------------------------
(* What is validated before anything is written.                           *)

\* Where each symbolic link leads once the archive is extracted over t.
LinksOver(t, a) ==
  [p \in Paths |->
     IF \E i \in DOMAIN a : a[i].path = p
     THEN LET e == a[CHOOSE i \in DOMAIN a : a[i].path = p]
          IN  IF e.kind = "link" THEN e.of ELSE Empty
     ELSE IF t[p].kind = "link" THEN t[p].of ELSE Empty]

LinkPaths(a) == {a[i].path : i \in {j \in DOMAIN a : a[j].kind = "link"}}

\* preflightArchive: no path twice, and nothing below what is no directory.
WellFormed(a) ==
  /\ \A i, j \in DOMAIN a : a[i].path = a[j].path => i = j
  /\ \A i, j \in DOMAIN a : a[j].path \in Above[a[i].path] => a[j].kind = "dir"
  /\ LinksResolve(LinkPaths(a), LinksOver([p \in Paths |-> Nothing], a))

\* validateExistingParents: what there is above a path is a directory.
ParentsFit(t, p) == \A q \in Above[p] : t[q].kind \in {"none", "dir"}

\* Mutated form: whatever is there is overwritten.
NodeFitsAny(node, e) == TRUE

\* Mutated form: every symbolic link that is there is in the way.
NodeFitsOnce(node, e) ==
  node.kind = "none" \/ (node.kind \in {"dir", "file"} /\ e.kind = node.kind)

\* An entry replaces a file by a file, and keeps a directory or the same link.
NodeFits(node, e) ==
  \/ node.kind = "none"
  \/ node.kind = "link" /\ node = NodeOf(e)
  \/ node.kind \in {"dir", "file"} /\ e.kind = node.kind

\* Mutated form: the parents of an entry are not looked at.
FitsAtPath(t, a) ==
  /\ \A i \in DOMAIN a : NodeFits(t[a[i].path], a[i])
  /\ LinksResolve(LinkPaths(a), LinksOver(t, a))

\* preflightDestination.
Fits(t, a) ==
  /\ \A i \in DOMAIN a : ParentsFit(t, a[i].path) /\ NodeFits(t[a[i].path], a[i])
  /\ LinksResolve(LinkPaths(a), LinksOver(t, a))

-----------------------------------------------------------------------------
Begin(a) ==
  /\ pc \in {"idle", "done", "failed"}
  /\ archive' = a
  /\ before' = tree
  /\ pc' = "archive"
  /\ next' = 1
  /\ UNCHANGED <<tree, lost>>

CheckArchive ==
  /\ pc = "archive"
  /\ pc' = IF WellFormed(archive) THEN "destination" ELSE "failed"
  /\ UNCHANGED <<tree, archive, before, next, lost>>

CheckDestination ==
  /\ pc = "destination"
  /\ pc' = IF Fits(tree, archive) THEN "write" ELSE "failed"
  /\ UNCHANGED <<tree, archive, before, next, lost>>

AtEntry(phase, kind) == pc = phase /\ next \in DOMAIN archive /\ archive[next].kind = kind

Entry == archive[next]

\* MkdirAll: the directories of ps that are missing are made.
WithDirectories(ps) ==
  [p \in Paths |-> IF p \in ps /\ tree[p].kind = "none" THEN Directory ELSE tree[p]]

MakeDirectory ==
  /\ AtEntry("write", "dir")
  /\ tree' = WithDirectories(Above[Entry.path] \cup {Entry.path})
  /\ next' = next + 1
  /\ UNCHANGED <<archive, before, pc, lost>>

\* Links are put aside for later.
PassLink ==
  /\ AtEntry("write", "link")
  /\ next' = next + 1
  /\ UNCHANGED <<tree, archive, before, pc, lost>>

\* extractRegularFile: the directories above the file, then its partial file,
\* which has a random name of its own and is not a node of the tree.
OpenPartial ==
  /\ AtEntry("write", "file")
  /\ tree' = WithDirectories(Above[Entry.path])
  /\ pc' = "copy"
  /\ UNCHANGED <<archive, before, next, lost>>

PutInPlace ==
  /\ tree' = [tree EXCEPT ![Entry.path] = NodeOf(Entry)]
  /\ lost' = lost \ {Entry.path}
  /\ pc' = "write"
  /\ next' = next + 1
  /\ UNCHANGED <<archive, before>>

\* publishRegularFile: the partial file, complete by now, is renamed.
Publish ==
  /\ AtEntry("copy", "file")
  /\ PutInPlace

\* The rename is refused: a regular file is removed to make way for it.
RemoveTarget ==
  /\ AtEntry("copy", "file")
  /\ tree[Entry.path].kind = "file"
  /\ tree' = [tree EXCEPT ![Entry.path] = Nothing]
  /\ lost' = lost \cup {Entry.path}
  /\ pc' = "replace"
  /\ UNCHANGED <<archive, before, next>>

PublishAgain ==
  /\ AtEntry("replace", "file")
  /\ PutInPlace

Written ==
  /\ pc = "write" /\ next > Len(archive)
  /\ pc' = "parents"
  /\ next' = 1
  /\ UNCHANGED <<tree, archive, before, lost>>

PassNonLink ==
  /\ pc \in {"parents", "links"} /\ next \in DOMAIN archive /\ Entry.kind # "link"
  /\ next' = next + 1
  /\ UNCHANGED <<tree, archive, before, pc, lost>>

MakeLinkParents ==
  /\ AtEntry("parents", "link")
  /\ tree' = WithDirectories(Above[Entry.path])
  /\ next' = next + 1
  /\ UNCHANGED <<archive, before, pc, lost>>

\* The modes of the directories are set, which changes no node.
ParentsMade ==
  /\ pc = "parents" /\ next > Len(archive)
  /\ pc' = "links"
  /\ next' = 1
  /\ UNCHANGED <<tree, archive, before, lost>>

\* Mutated form: a link that cannot be made is passed over.
MakeLinkIfFree ==
  /\ AtEntry("links", "link")
  /\ next' = next + 1
  /\ UNCHANGED <<tree, archive, before, pc, lost>>

\* extractSymlink; a link that is there already has the same target.
MakeLink ==
  /\ AtEntry("links", "link")
  /\ \/ tree[Entry.path].kind = "none" /\ tree' = [tree EXCEPT ![Entry.path] = NodeOf(Entry)]
     \/ tree[Entry.path] = NodeOf(Entry) /\ UNCHANGED tree
  /\ next' = next + 1
  /\ UNCHANGED <<archive, before, pc, lost>>

\* The destination and the archive are closed, which may fail.
Finish ==
  /\ pc = "links" /\ next > Len(archive)
  /\ pc' \in {"done", "failed"}
  /\ UNCHANGED <<tree, archive, before, next, lost>>

Working == {"archive", "destination", "write", "copy", "replace", "parents", "links"}

\* An unreadable archive, an entry with an unusable name, I/O errors, and a
\* cancelled context.
Fail ==
  /\ pc \in Working
  /\ pc' = "failed"
  /\ UNCHANGED <<tree, archive, before, next, lost>>

Crash ==
  /\ pc \in Working
  /\ pc' = "idle"
  /\ UNCHANGED <<tree, archive, before, next, lost>>

Next ==
  \/ \E a \in Archives : Begin(a)
  \/ CheckArchive \/ CheckDestination
  \/ MakeDirectory \/ PassLink \/ OpenPartial \/ Publish \/ RemoveTarget \/ PublishAgain
  \/ Written \/ PassNonLink \/ MakeLinkParents \/ ParentsMade \/ MakeLink \/ Finish
  \/ Fail \/ Crash

Spec == Init /\ [][Next]_vars

-----------------------------------------------------------------------------
\* Every variable has its type.
TypeOK ==
  /\ tree \in [Paths -> Nodes] /\ before \in [Paths -> Nodes]
  /\ archive \in Archives \cup {<<>>}
  /\ pc \in Phases
  /\ next \in 1..Len(archive) + 1
  /\ lost \in SUBSET Paths

\* What there is above a node is a directory, whatever archives were extracted
\* over one another and wherever an extraction was cut short.
TreeIsClosed ==
  \A p \in Paths : tree[p] # Nothing => \A q \in Above[p] : tree[q] = Directory

\* Nothing is written before the archive and everything in its way were
\* validated (archive_extractor.go:41: before the first file is written).
ValidatedFirst ==
  [][tree' # tree => WellFormed(archive) /\ Fits(before, archive)]_vars

\* An archive that was accepted is not stopped by a conflict half way, and is
\* accepted again after a call that was cut short (extractSymlink, MkdirAll).
AcceptedStaysAcceptable ==
  WellFormed(archive) /\ Fits(before, archive) => Fits(tree, archive)

\* A call that succeeds leaves every entry of its archive in the tree, over what
\* earlier calls left, and its links resolve in the tree as it is.
SuccessMeansExtracted ==
  pc = "done" =>
    /\ \A i \in DOMAIN archive : tree[archive[i].path] = NodeOf(archive[i])
    /\ LinksResolve(LinkPaths(archive), LinksOver(tree, <<>>))

\* An extraction lays an archive over the tree and takes nothing away: only an
\* entry's file replaces a file, and a file vanishes only when its replacement
\* fails after its removal (README.md:190).
OnlyOverlays ==
  [][\A p \in Paths :
       \/ tree[p] \in {Nothing, tree'[p]}
       \/ tree[p].kind = "file" /\ p \in lost'
       \/ /\ tree[p].kind = "file"
          /\ \E i \in DOMAIN archive : archive[i].path = p /\ tree'[p] = NodeOf(archive[i])]_vars
=============================================================================
