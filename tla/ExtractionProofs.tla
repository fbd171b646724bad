-------------------------- MODULE ExtractionProofs --------------------------
(***************************************************************************)
(* Proofs about Extraction, for any paths, archives and resolution of      *)
(* symbolic links.                                                         *)
(***************************************************************************)
EXTENDS Extraction, SequenceTheorems, TLAPS

Accepted == WellFormed(archive) /\ Fits(before, archive)

Writing == {"write", "copy", "replace", "parents", "links", "done"}

AcceptedBeforeWriting ==
  /\ pc \in {"archive", "destination"} => tree = before /\ next = 1
  /\ pc = "destination" => WellFormed(archive)
  /\ pc \in Writing => Accepted

Put(i) == tree[archive[i].path] = NodeOf(archive[i])

InDirectories(i) == \A q \in Above[archive[i].path] : tree[q] = Directory

\* What is in place when the entries before next were handled in this phase.
FilesPut ==
  /\ pc \in {"write", "copy", "replace"} =>
       \A i \in DOMAIN archive : i < next /\ archive[i].kind # "link" => Put(i)
  /\ pc \in {"parents", "links", "done"} =>
       \A i \in DOMAIN archive : archive[i].kind # "link" => Put(i)

LinksPut ==
  /\ pc = "parents" =>
       \A i \in DOMAIN archive : i < next /\ archive[i].kind = "link" => InDirectories(i)
  /\ pc = "links" =>
       \A i \in DOMAIN archive : archive[i].kind = "link" =>
         InDirectories(i) /\ (i < next => Put(i))
  /\ pc = "done" => \A i \in DOMAIN archive : archive[i].kind = "link" => Put(i)

ParentsReady ==
  pc \in {"copy", "replace"} => next \in DOMAIN archive /\ InDirectories(next)

EInv ==
  /\ TypeOK
  /\ TreeIsClosed
  /\ AcceptedBeforeWriting
  /\ AcceptedStaysAcceptable
  /\ FilesPut
  /\ LinksPut
  /\ ParentsReady

-----------------------------------------------------------------------------
(* Entries and nodes.                                                      *)

LEMMA ArchiveEntries ==
  ASSUME TypeOK
  PROVE  /\ Len(archive) \in Nat /\ DOMAIN archive = 1..Len(archive)
         /\ \A i \in DOMAIN archive : archive[i] \in Entries
<1>1. archive \in Seq(Entries)
  BY ExtractionAssumption, EmptySeq DEF TypeOK
<1> QED BY <1>1, LenProperties, ElementOfSeq

LEMMA EntryNode ==
  ASSUME NEW e \in Entries
  PROVE  /\ e.path \in Paths /\ e.kind \in {"dir", "file", "link"}
         /\ NodeOf(e) \in Nodes /\ NodeOf(e).kind = e.kind /\ NodeOf(e).of = e.of
         /\ NodeOf(e) # Nothing
         /\ e.kind = "dir" => NodeOf(e) = Directory
BY DEF Entries, Nodes, NodeOf, Nothing, Directory

LEMMA NodeKinds ==
  ASSUME NEW n \in Nodes
  PROVE  /\ n.kind \in {"none", "dir", "file", "link"}
         /\ n.kind = "none" <=> n = Nothing
         /\ n.kind = "dir" <=> n = Directory
BY DEF Nodes, Nothing, Directory

\* A step of an entry that writes in the tree: the directories above it, the
\* entry itself, or the removal of the file it replaces.
EntryStep(i) ==
  \/ \E ps \in SUBSET Paths :
       /\ \A q \in ps : Above[q] \subseteq ps
       /\ ps \subseteq Above[archive[i].path]
            \cup (IF archive[i].kind = "dir" THEN {archive[i].path} ELSE {})
       /\ tree' = WithDirectories(ps)
  \/ /\ archive[i].kind # "dir" /\ InDirectories(i)
     /\ tree' = [tree EXCEPT ![archive[i].path] = NodeOf(archive[i])]
  \/ /\ tree[archive[i].path].kind = "file"
     /\ tree' = [tree EXCEPT ![archive[i].path] = Nothing]

LEMMA EntryStepTree ==
  ASSUME EInv, Accepted, NEW i \in DOMAIN archive, EntryStep(i),
         archive' = archive, before' = before
  PROVE  /\ tree' \in [Paths -> Nodes]
         /\ TreeIsClosed'
         /\ AcceptedStaysAcceptable'
         /\ \A q \in Paths : tree[q] = Directory => tree'[q] = Directory
         /\ \A j \in DOMAIN archive : j # i /\ Put(j) => Put(j)'
<1> DEFINE e == archive[i]
           x == e.path
<1> USE DEF EInv
<1>1. /\ e \in Entries /\ x \in Paths
      /\ Above \in [Paths -> SUBSET Paths] /\ x \notin Above[x]
      /\ \A p \in Paths : \A q \in Above[p] : q \in Paths /\ Above[q] \subseteq Above[p]
      /\ \A p \in Paths : p \notin Above[p]
  BY ArchiveEntries, EntryNode, ExtractionAssumption
<1>2. /\ \A j \in DOMAIN archive : archive[j] \in Entries
      /\ \A j, k \in DOMAIN archive : archive[j].path = archive[k].path => j = k
      /\ \A j, k \in DOMAIN archive : archive[k].path \in Above[archive[j].path] =>
           archive[k].kind = "dir"
  BY ArchiveEntries DEF Accepted, WellFormed
<1>3. Fits(tree, archive)
  BY DEF AcceptedStaysAcceptable, Accepted
<1>4. /\ \A j \in DOMAIN archive : NodeFits(tree[archive[j].path], archive[j])
      /\ \A j \in DOMAIN archive : ParentsFit(tree, archive[j].path)
  BY <1>3, Zenon DEF Fits
<1>5. tree \in [Paths -> Nodes]
  BY DEF TypeOK
<1>6. /\ \A q \in Paths : tree[q].kind = "none" <=> tree[q] = Nothing
      /\ \A q \in Paths : tree[q].kind = "dir" <=> tree[q] = Directory
      /\ Nothing \in Nodes /\ Directory \in Nodes /\ Nothing # Directory
      /\ Nothing.kind = "none" /\ Directory.kind = "dir"
      /\ Nothing.of = Empty /\ Directory.of = Empty
  BY <1>5, NodeKinds DEF Nothing, Directory, Nodes
<1>7. /\ NodeOf(e) \in Nodes /\ NodeOf(e).kind = e.kind /\ NodeOf(e) # Nothing
      /\ e.kind \in {"dir", "file", "link"}
  BY <1>1, EntryNode
\* Nothing lies below an entry that is no directory.
<1>8. ASSUME e.kind # "dir", NEW p \in Paths, x \in Above[p] PROVE tree[p] = Nothing
  <2>1. NodeFits(tree[x], e)
    BY <1>4
  <2>2. tree[x] # Directory
    BY <1>1, <1>6, <1>7, <1>8, <2>1 DEF NodeFits
  <2> QED BY <1>8, <2>2 DEF TreeIsClosed
<1>9. CASE \E ps \in SUBSET Paths :
             /\ \A q \in ps : Above[q] \subseteq ps
             /\ ps \subseteq Above[x] \cup (IF e.kind = "dir" THEN {x} ELSE {})
             /\ tree' = WithDirectories(ps)
  <2>1. PICK ps \in SUBSET Paths :
             /\ \A q \in ps : Above[q] \subseteq ps
             /\ ps \subseteq Above[x] \cup (IF e.kind = "dir" THEN {x} ELSE {})
             /\ tree' = WithDirectories(ps)
    BY <1>9
  <2>2. \A q \in Paths : tree'[q] = IF q \in ps /\ tree[q].kind = "none" THEN Directory ELSE tree[q]
    BY <2>1 DEF WithDirectories
  <2>3. tree' \in [Paths -> Nodes]
    BY <1>5, <1>6, <2>1 DEF WithDirectories
  <2>4. \A q \in Paths : tree[q] = Directory => tree'[q] = Directory
    BY <1>6, <2>2
  <2>5. \A q \in ps : tree'[q] = Directory
    <3> SUFFICES ASSUME NEW q \in ps PROVE tree'[q] = Directory
      OBVIOUS
    <3>1. CASE q = x
      BY <1>1, <1>4, <1>6, <1>7, <2>1, <2>2, <3>1 DEF NodeFits
    <3>2. CASE q \in Above[x]
      BY <1>1, <1>4, <1>6, <2>2, <3>2 DEF ParentsFit
    <3> QED BY <2>1, <3>1, <3>2
  <2>6. TreeIsClosed'
    <3> SUFFICES ASSUME NEW p \in Paths, tree'[p] # Nothing, NEW q \in Above[p]
                 PROVE  tree'[q] = Directory
      BY DEF TreeIsClosed
    <3>1. CASE p \in ps
      BY <2>1, <2>5, <3>1
    <3>2. CASE p \notin ps
      BY <1>1, <2>2, <2>4, <3>2 DEF TreeIsClosed
    <3> QED BY <3>1, <3>2
  <2>7. ASSUME NEW j \in DOMAIN archive
        PROVE  ParentsFit(tree', archive[j].path) /\ NodeFits(tree'[archive[j].path], archive[j])
    <3> DEFINE y == archive[j].path
    <3>1. y \in Paths
      BY <1>2, EntryNode
    <3>2. ParentsFit(tree', y)
      BY <1>1, <1>4, <1>6, <2>2, <3>1 DEF ParentsFit
    <3>3. CASE y \in ps
      <4>1. archive[j].kind = "dir"
        BY <1>2, <2>1, <3>3
      <4> QED BY <1>6, <2>5, <3>2, <3>3, <4>1 DEF NodeFits
    <3>4. CASE y \notin ps
      BY <1>4, <2>2, <3>1, <3>2, <3>4
    <3> QED BY <3>3, <3>4
  <2>8. LinksOver(tree', archive) = LinksOver(tree, archive)
    <3>1. \A p \in Paths : (IF tree'[p].kind = "link" THEN tree'[p].of ELSE Empty)
                           = (IF tree[p].kind = "link" THEN tree[p].of ELSE Empty)
      BY <1>6, <2>2
    <3> QED BY <3>1, Zenon DEF LinksOver
  <2>9. Fits(tree', archive)
    BY <1>3, <2>7, <2>8 DEF Fits
  <2>10. ASSUME NEW j \in DOMAIN archive, Put(j) PROVE Put(j)'
    BY <1>2, <1>6, <2>2, <2>10, EntryNode DEF Put
  <2> QED BY <2>3, <2>4, <2>6, <2>9, <2>10 DEF AcceptedStaysAcceptable
<1>10. CASE \/ /\ e.kind # "dir" /\ InDirectories(i)
               /\ tree' = [tree EXCEPT ![x] = NodeOf(e)]
            \/ /\ tree[x].kind = "file"
               /\ tree' = [tree EXCEPT ![x] = Nothing]
  <2> DEFINE n == tree'[x]
  <2>1. /\ e.kind # "dir"
        /\ n = Nothing \/ (n = NodeOf(e) /\ InDirectories(i))
        /\ \A q \in Paths : q # x => tree'[q] = tree[q]
    BY <1>1, <1>4, <1>5, <1>10 DEF NodeFits
  <2>2. tree' \in [Paths -> Nodes]
    BY <1>5, <1>6, <1>7, <1>10
  <2>3. tree[x] # Directory
    BY <1>4, <1>6, <2>1 DEF NodeFits
  <2>4. \A q \in Paths : tree[q] = Directory => tree'[q] = Directory
    BY <2>1, <2>3
  <2>5. TreeIsClosed'
    <3> SUFFICES ASSUME NEW p \in Paths, tree'[p] # Nothing, NEW q \in Above[p]
                 PROVE  tree'[q] = Directory
      BY DEF TreeIsClosed
    <3>1. q \in Paths
      BY <1>1
    <3>2. CASE p = x
      BY <2>1, <2>4, <3>1, <3>2 DEF InDirectories
    <3>3. CASE p # x
      BY <2>1, <2>4, <3>1, <3>3 DEF TreeIsClosed
    <3> QED BY <3>2, <3>3
  <2>6. ASSUME NEW j \in DOMAIN archive
        PROVE  ParentsFit(tree', archive[j].path) /\ NodeFits(tree'[archive[j].path], archive[j])
    <3> DEFINE y == archive[j].path
    <3>1. y \in Paths
      BY <1>2, EntryNode
    <3>2. x \notin Above[y]
      BY <1>2, <2>1
    <3>3. ParentsFit(tree', y)
      BY <1>1, <1>4, <2>1, <3>1, <3>2 DEF ParentsFit
    <3>4. CASE y = x
      <4>1. j = i
        BY <1>2, <3>4
      <4> QED BY <1>6, <1>7, <2>1, <3>3, <3>4, <4>1 DEF NodeFits
    <3>5. CASE y # x
      BY <1>4, <2>1, <3>1, <3>3, <3>5
    <3> QED BY <3>4, <3>5
  <2>7. LinksOver(tree', archive) = LinksOver(tree, archive)
    <3>1. \A p \in Paths : (\E k \in DOMAIN archive : archive[k].path = p) \/ tree'[p] = tree[p]
      BY <2>1
    <3> QED BY <3>1, Zenon DEF LinksOver
  <2>8. Fits(tree', archive)
    BY <1>3, <2>6, <2>7 DEF Fits
  <2>9. ASSUME NEW j \in DOMAIN archive, j # i, Put(j) PROVE Put(j)'
    BY <1>2, <2>1, <2>9, EntryNode DEF Put
  <2> QED BY <2>2, <2>4, <2>5, <2>8, <2>9 DEF AcceptedStaysAcceptable
<1> QED BY <1>9, <1>10 DEF EntryStep

LEMMA DirectoriesMade ==
  ASSUME EInv, Accepted, NEW i \in DOMAIN archive, NEW ps \in SUBSET Paths,
         ps \subseteq Above[archive[i].path]
            \cup (IF archive[i].kind = "dir" THEN {archive[i].path} ELSE {}),
         tree' = WithDirectories(ps)
  PROVE  \A q \in ps : tree'[q] = Directory
<1> DEFINE x == archive[i].path
<1> USE DEF EInv
<1>1. archive[i] \in Entries /\ x \in Paths
  BY ArchiveEntries, EntryNode
<1>2. ParentsFit(tree, x) /\ NodeFits(tree[x], archive[i])
  BY Zenon DEF AcceptedStaysAcceptable, Accepted, Fits
<1>3. \A q \in Paths : tree[q] \in Nodes
  BY DEF TypeOK
<1>4. \A q \in Paths : tree'[q] = IF q \in ps /\ tree[q].kind = "none" THEN Directory ELSE tree[q]
  BY DEF WithDirectories
<1> SUFFICES ASSUME NEW q \in ps PROVE tree'[q] = Directory
  OBVIOUS
<1>5. tree[q].kind = "none" \/ tree[q].kind = "dir"
  <2>1. CASE q \in Above[x]
    BY <1>2, <2>1 DEF ParentsFit
  <2>2. CASE q = x /\ archive[i].kind = "dir"
    BY <1>2, <2>2, EntryNode, <1>1 DEF NodeFits
  <2> QED BY <2>1, <2>2
<1> QED BY <1>3, <1>4, <1>5, NodeKinds

-----------------------------------------------------------------------------
(* Every step preserves the invariant.                                     *)

LEMMA InitEInv == Init => EInv
<1> SUFFICES ASSUME Init PROVE EInv
  OBVIOUS
<1>1. TypeOK
  BY DEF Init, TypeOK, Phases, Nodes, Nothing
<1>2. TreeIsClosed
  BY DEF Init, TreeIsClosed
<1>3. AcceptedStaysAcceptable
  BY DEF Init, AcceptedStaysAcceptable
<1> QED
  BY <1>1, <1>2, <1>3
  DEF Init, EInv, AcceptedBeforeWriting, Writing, FilesPut, LinksPut, ParentsReady

LEMMA BeginEInv ==
  ASSUME EInv, NEW a \in Archives, Begin(a)
  PROVE  EInv'
<1> USE DEF EInv, Begin
<1>1. a \in Seq(Entries) /\ Len(a) \in Nat
  BY ExtractionAssumption, LenProperties
<1>2. TypeOK'
  BY <1>1 DEF TypeOK, Phases
<1>3. TreeIsClosed'
  BY DEF TreeIsClosed
<1>4. AcceptedStaysAcceptable'
  BY DEF AcceptedStaysAcceptable
<1> QED
  BY <1>2, <1>3, <1>4 DEF AcceptedBeforeWriting, Writing, FilesPut, LinksPut, ParentsReady

\* Steps that leave the tree as it is.
LEMMA SameTreeEInv ==
  ASSUME EInv, UNCHANGED <<tree, archive, before, lost>>,
         \/ CheckArchive \/ CheckDestination \/ PassLink \/ Written \/ PassNonLink
         \/ ParentsMade \/ Finish \/ Fail \/ Crash \/ UNCHANGED vars
  PROVE  EInv'
<1> USE DEF EInv
<1>1. /\ Len(archive) \in Nat /\ DOMAIN archive = 1..Len(archive)
      /\ next \in 1..Len(archive) + 1
  BY ArchiveEntries DEF TypeOK
<1>2. TreeIsClosed'
  BY DEF TreeIsClosed
<1>3. AcceptedStaysAcceptable'
  <2>1. WellFormed(archive)' = WellFormed(archive)
    BY Zenon DEF WellFormed, LinkPaths, LinksOver
  <2>2. Fits(before, archive)' = Fits(before, archive) /\ Fits(tree, archive)' = Fits(tree, archive)
    BY Zenon DEF Fits, LinkPaths, LinksOver
  <2> QED BY <2>1, <2>2 DEF AcceptedStaysAcceptable
<1>4. pc' \in Phases
  <2> USE DEF TypeOK, Phases
  <2>1. CASE CheckArchive
    BY <2>1 DEF CheckArchive
  <2>2. CASE CheckDestination
    BY <2>2 DEF CheckDestination
  <2>3. CASE PassLink \/ Written \/ PassNonLink \/ ParentsMade \/ Finish
    BY <2>3 DEF PassLink, Written, PassNonLink, ParentsMade, Finish
  <2>4. CASE Fail \/ Crash \/ UNCHANGED vars
    BY <2>4 DEF Fail, Crash, vars
  <2> QED BY <2>1, <2>2, <2>3, <2>4
<1>5. next' \in 1..Len(archive) + 1
  <2>1. CASE PassLink \/ PassNonLink
    BY <1>1, <2>1 DEF PassLink, AtEntry, PassNonLink
  <2>2. CASE Written \/ ParentsMade
    BY <1>1, <2>2 DEF Written, ParentsMade
  <2>3. CASE CheckArchive \/ CheckDestination \/ Finish \/ Fail \/ Crash \/ UNCHANGED vars
    BY <1>1, <2>3 DEF CheckArchive, CheckDestination, Finish, Fail, Crash, vars
  <2> QED BY <2>1, <2>2, <2>3
<1>6. TypeOK'
  BY <1>4, <1>5 DEF TypeOK
<1>7. AcceptedBeforeWriting' /\ FilesPut' /\ LinksPut' /\ ParentsReady'
  <2>1. WellFormed(archive)' = WellFormed(archive) /\ Fits(before, archive)' = Fits(before, archive)
    BY Zenon DEF WellFormed, LinkPaths, LinksOver, Fits
  <2>2. /\ Accepted' = Accepted
        /\ \A i \in DOMAIN archive : Put(i)' = Put(i)
        /\ \A i \in DOMAIN archive : InDirectories(i)' = InDirectories(i)
    BY <2>1, Zenon DEF Put, InDirectories, Accepted
  <2> USE DEF AcceptedBeforeWriting, Writing, FilesPut, LinksPut, ParentsReady
  <2>3. CASE CheckArchive
    BY <2>1, <2>2, <2>3 DEF CheckArchive
  <2>4. CASE CheckDestination
    <3>1. Fits(tree, archive) <=> Fits(before, archive)
      BY <2>4 DEF CheckDestination
    <3> QED BY <1>1, <2>1, <2>2, <2>4, <3>1 DEF CheckDestination, Accepted
  <2>5. CASE PassLink
    BY <1>1, <2>2, <2>5 DEF PassLink, AtEntry
  <2>6. CASE Written
    BY <1>1, <2>2, <2>6 DEF Written
  <2>7. CASE PassNonLink
    BY <1>1, <2>2, <2>7 DEF PassNonLink, Entry
  <2>8. CASE ParentsMade
    BY <1>1, <2>2, <2>8 DEF ParentsMade
  <2>9. CASE Finish
    BY <1>1, <2>2, <2>9 DEF Finish
  <2>10. CASE Fail \/ Crash
    BY <2>10 DEF Fail, Crash
  <2>11. CASE UNCHANGED vars
    BY <2>2, <2>11 DEF vars
  <2> QED BY <2>3, <2>4, <2>5, <2>6, <2>7, <2>8, <2>9, <2>10, <2>11
<1> QED BY <1>2, <1>3, <1>6, <1>7

\* Steps that handle an entry and write in the tree.
WriteStep ==
  MakeDirectory \/ OpenPartial \/ Publish \/ RemoveTarget \/ PublishAgain \/ MakeLinkParents
  \/ MakeLink

LEMMA WriteSteps ==
  ASSUME EInv, WriteStep
  PROVE  /\ next \in DOMAIN archive /\ Accepted /\ archive' = archive /\ before' = before
         /\ EntryStep(next) \/ tree' = tree
         /\ OpenPartial \/ MakeLinkParents =>
              \A q \in Above[Entry.path] : tree'[q] = Directory
         /\ MakeDirectory \/ Publish \/ PublishAgain \/ MakeLink =>
              tree'[Entry.path] = NodeOf(Entry)
<1> DEFINE x == Entry.path
<1> USE DEF EInv, Entry
<1>1. next \in DOMAIN archive /\ Accepted
  BY DEF WriteStep, MakeDirectory, OpenPartial, Publish, RemoveTarget, PublishAgain,
         MakeLinkParents, MakeLink, AtEntry, AcceptedBeforeWriting, Writing
<1>2. archive' = archive /\ before' = before
  BY DEF WriteStep, MakeDirectory, OpenPartial, Publish, RemoveTarget, PublishAgain,
         MakeLinkParents, MakeLink, PutInPlace
<1>3. /\ Entry \in Entries /\ x \in Paths
      /\ Above[x] \in SUBSET Paths /\ \A q \in Above[x] : Above[q] \subseteq Above[x]
  BY <1>1, ArchiveEntries, EntryNode, ExtractionAssumption
<1>4. tree \in [Paths -> Nodes]
  BY DEF TypeOK
<1>5. CASE MakeDirectory
  <2>1. Entry.kind = "dir" /\ tree' = WithDirectories(Above[x] \cup {x})
    BY <1>5 DEF MakeDirectory, AtEntry
  <2>2. EntryStep(next)
    BY <1>3, <2>1 DEF EntryStep
  <2>3. \A q \in Above[x] \cup {x} : tree'[q] = Directory
    BY <1>1, <1>3, <2>1, DirectoriesMade
  <2>4. tree'[x] = NodeOf(Entry)
    BY <1>3, <2>1, <2>3, EntryNode
  <2>5. ~(OpenPartial \/ MakeLinkParents)
    BY <2>1 DEF OpenPartial, MakeLinkParents, AtEntry
  <2> QED BY <1>1, <1>2, <2>2, <2>4, <2>5
<1>6. CASE OpenPartial \/ MakeLinkParents
  <2>1. Entry.kind # "dir" /\ tree' = WithDirectories(Above[x])
    BY <1>6 DEF OpenPartial, MakeLinkParents, AtEntry
  <2>2. EntryStep(next)
    BY <1>3, <2>1 DEF EntryStep
  <2>3. \A q \in Above[x] : tree'[q] = Directory
    BY <1>1, <1>3, <2>1, DirectoriesMade
  <2>4. ~(MakeDirectory \/ Publish \/ PublishAgain \/ MakeLink)
    BY <1>6
    DEF OpenPartial, MakeLinkParents, MakeDirectory, Publish, PublishAgain, MakeLink, AtEntry
  <2> QED BY <1>1, <1>2, <2>2, <2>3, <2>4
<1>7. CASE Publish \/ PublishAgain
  <2>1. /\ pc \in {"copy", "replace"} /\ Entry.kind = "file"
        /\ tree' = [tree EXCEPT ![x] = NodeOf(Entry)]
    BY <1>7 DEF Publish, PublishAgain, PutInPlace, AtEntry
  <2>2. EntryStep(next)
    BY <2>1 DEF EntryStep, ParentsReady
  <2>3. tree'[x] = NodeOf(Entry)
    BY <1>3, <1>4, <2>1
  <2>4. ~(OpenPartial \/ MakeLinkParents)
    BY <2>1 DEF OpenPartial, MakeLinkParents, AtEntry
  <2> QED BY <1>1, <1>2, <2>2, <2>3, <2>4
<1>8. CASE RemoveTarget
  <2>1. EntryStep(next)
    BY <1>8 DEF RemoveTarget, EntryStep
  <2>2. ~(OpenPartial \/ MakeLinkParents)
    BY <1>8 DEF RemoveTarget, OpenPartial, MakeLinkParents, AtEntry
  <2>3. pc = "copy" /\ pc' = "replace"
    BY <1>8 DEF RemoveTarget, AtEntry
  <2>4. ~(MakeDirectory \/ Publish \/ PublishAgain \/ MakeLink)
    BY <2>3 DEF MakeDirectory, Publish, PublishAgain, PutInPlace, MakeLink, AtEntry
  <2> QED BY <1>1, <1>2, <2>1, <2>2, <2>4
<1>9. CASE MakeLink
  <2>1. /\ pc = "links" /\ Entry.kind = "link"
        /\ \/ tree' = [tree EXCEPT ![x] = NodeOf(Entry)]
           \/ tree[x] = NodeOf(Entry) /\ tree' = tree
    BY <1>9 DEF MakeLink, AtEntry
  <2>2. EntryStep(next) \/ tree' = tree
    BY <1>1, <2>1 DEF EntryStep, LinksPut
  <2>3. tree'[x] = NodeOf(Entry)
    BY <1>3, <1>4, <2>1
  <2>4. ~(OpenPartial \/ MakeLinkParents)
    BY <2>1 DEF OpenPartial, MakeLinkParents, AtEntry
  <2> QED BY <1>1, <1>2, <2>2, <2>3, <2>4
<1> QED BY <1>5, <1>6, <1>7, <1>8, <1>9 DEF WriteStep

LEMMA WriteEInv ==
  ASSUME EInv, WriteStep
  PROVE  EInv'
<1> DEFINE x == Entry.path
<1> USE DEF EInv, Entry
<1>1. /\ next \in DOMAIN archive /\ Accepted /\ archive' = archive /\ before' = before
      /\ EntryStep(next) \/ tree' = tree
  BY WriteSteps
<1>2. /\ tree' \in [Paths -> Nodes]
      /\ TreeIsClosed'
      /\ AcceptedStaysAcceptable'
      /\ \A q \in Paths : tree[q] = Directory => tree'[q] = Directory
      /\ \A j \in DOMAIN archive : j # next /\ Put(j) => tree'[archive[j].path] = NodeOf(archive[j])
  <2>1. CASE EntryStep(next)
    <3>1. PICK k \in DOMAIN archive : k = next
      BY <1>1
    <3>2. EntryStep(k)
      BY <2>1, <3>1
    <3> QED BY <1>1, <3>1, <3>2, EntryStepTree DEF Put
  <2>2. CASE tree' = tree
    <3>1. AcceptedStaysAcceptable'
      BY <1>1, <2>2 DEF AcceptedStaysAcceptable, WellFormed, Fits, LinkPaths, LinksOver
    <3> QED BY <1>1, <2>2, <3>1 DEF TypeOK, TreeIsClosed, Put
  <2> QED BY <1>1, <2>1, <2>2
<1>3. /\ Len(archive) \in Nat /\ DOMAIN archive = 1..Len(archive)
      /\ next \in 1..Len(archive) /\ x \in Paths
  BY <1>1, ArchiveEntries, EntryNode
<1>4. \A j \in DOMAIN archive : InDirectories(j) => \A q \in Above[archive[j].path] : tree'[q] = Directory
  <2>1. \A j \in DOMAIN archive : Above[archive[j].path] \subseteq Paths
    BY ArchiveEntries, EntryNode, ExtractionAssumption
  <2> QED BY <1>2, <2>1 DEF InDirectories
<1>5. WellFormed(archive)' = WellFormed(archive) /\ Fits(before, archive)' = Fits(before, archive)
  BY <1>1, Zenon DEF WellFormed, LinkPaths, LinksOver, Fits
<1>6. Accepted' = Accepted
  BY <1>5 DEF Accepted
<1>7. pc' \in {"write", "copy", "replace", "parents", "links"}
  BY DEF WriteStep, MakeDirectory, OpenPartial, Publish, PublishAgain, PutInPlace, RemoveTarget,
         MakeLinkParents, MakeLink, AtEntry
<1>8. next' \in {next, next + 1} /\ lost' \in SUBSET Paths
  BY <1>3
  DEF TypeOK, WriteStep, MakeDirectory, OpenPartial, Publish, PublishAgain, PutInPlace,
      RemoveTarget, MakeLinkParents, MakeLink
<1>9. TypeOK'
  BY <1>1, <1>2, <1>3, <1>7, <1>8 DEF TypeOK, Phases
<1>10. AcceptedBeforeWriting'
  BY <1>1, <1>6, <1>7 DEF AcceptedBeforeWriting, Writing
<1>11. FilesPut' /\ LinksPut' /\ ParentsReady'
  <2> USE DEF FilesPut, LinksPut, ParentsReady
  <2>1. CASE MakeDirectory \/ Publish \/ PublishAgain
    <3>1. /\ pc \in {"write", "copy", "replace"} /\ Entry.kind # "link"
          /\ pc' = "write" /\ next' = next + 1
      BY <2>1 DEF MakeDirectory, Publish, PublishAgain, PutInPlace, AtEntry
    <3>2. tree'[x] = NodeOf(Entry)
      BY <2>1, WriteSteps
    <3> QED BY <1>1, <1>2, <1>3, <3>1, <3>2 DEF Put
  <2>2. CASE OpenPartial
    <3>1. pc = "write" /\ pc' = "copy" /\ next' = next
      BY <2>2 DEF OpenPartial, AtEntry
    <3>2. \A q \in Above[x] : tree'[q] = Directory
      BY <2>2, WriteSteps
    <3> QED BY <1>1, <1>2, <1>3, <3>1, <3>2 DEF Put, InDirectories
  <2>3. CASE RemoveTarget
    <3>1. pc = "copy" /\ pc' = "replace" /\ next' = next
      BY <2>3 DEF RemoveTarget, AtEntry
    <3> QED BY <1>1, <1>2, <1>3, <1>4, <3>1 DEF Put, InDirectories
  <2>4. CASE MakeLinkParents
    <3>1. pc = "parents" /\ pc' = "parents" /\ next' = next + 1 /\ Entry.kind = "link"
      BY <2>4 DEF MakeLinkParents, AtEntry
    <3>2. \A q \in Above[x] : tree'[q] = Directory
      BY <2>4, WriteSteps
    <3> QED BY <1>1, <1>2, <1>3, <1>4, <3>1, <3>2 DEF Put, InDirectories
  <2>5. CASE MakeLink
    <3>1. pc = "links" /\ pc' = "links" /\ next' = next + 1 /\ Entry.kind = "link"
      BY <2>5 DEF MakeLink, AtEntry
    <3>2. tree'[x] = NodeOf(Entry)
      BY <2>5, WriteSteps
    <3> QED BY <1>1, <1>2, <1>3, <1>4, <3>1, <3>2 DEF Put, InDirectories
  <2> QED BY <2>1, <2>2, <2>3, <2>4, <2>5 DEF WriteStep
<1> QED BY <1>2, <1>9, <1>10, <1>11

LEMMA StepEInv == EInv /\ [Next]_vars => EInv'
<1> SUFFICES ASSUME EInv, [Next]_vars PROVE EInv'
  OBVIOUS
<1>1. ASSUME NEW a \in Archives, Begin(a) PROVE EInv'
  BY <1>1, BeginEInv
<1>2. CASE CheckArchive \/ CheckDestination \/ PassLink \/ Written \/ PassNonLink
           \/ ParentsMade \/ Finish \/ Fail \/ Crash \/ UNCHANGED vars
  <2>1. UNCHANGED <<tree, archive, before, lost>>
    BY <1>2 DEF CheckArchive, CheckDestination, PassLink, Written, PassNonLink, ParentsMade,
                Finish, Fail, Crash, vars
  <2> QED BY <1>2, <2>1, SameTreeEInv
<1>3. CASE WriteStep
  BY <1>3, WriteEInv
<1> QED BY <1>1, <1>2, <1>3 DEF Next, WriteStep

LEMMA EInvHolds == Spec => []EInv
<1> QED BY InitEInv, StepEInv, PTL DEF Spec

-----------------------------------------------------------------------------
(* What the invariant implies.                                             *)

\* Every variable has its type: extraction never runs past its archive, and the
\* tree holds nothing an entry or a directory above one could not put there.
THEOREM TypeCorrect == Spec => []TypeOK
<1>1. EInv => TypeOK
  BY DEF EInv
<1> QED BY <1>1, EInvHolds, PTL

\* Whatever archives are extracted over one another, cut short anywhere, what
\* there is above a node is a directory (validateArchiveLayout,
\* validateExistingParents and the order of Extract).
THEOREM TreeStaysClosed == Spec => []TreeIsClosed
<1>1. EInv => TreeIsClosed
  BY DEF EInv
<1> QED BY <1>1, EInvHolds, PTL

\* What an archive's own entries leave behind never makes preflightDestination
\* refuse it: an extraction that was cut short can be repeated.
THEOREM AcceptedIsRepeatable == Spec => []AcceptedStaysAcceptable
<1>1. EInv => AcceptedStaysAcceptable
  BY DEF EInv
<1> QED BY <1>1, EInvHolds, PTL

\* An Extract that returns nil put every entry of its archive in the tree, and
\* the links of the archive resolve in the tree as it then is.
THEOREM SuccessIsExtracted == Spec => []SuccessMeansExtracted
<1>1. EInv => SuccessMeansExtracted
  <2> SUFFICES ASSUME EInv, pc = "done"
               PROVE  /\ \A i \in DOMAIN archive : Put(i)
                      /\ LinksResolve(LinkPaths(archive), LinksOver(tree, <<>>))
    BY DEF SuccessMeansExtracted, Put
  <2>1. \A i \in DOMAIN archive : Put(i)
    BY DEF EInv, FilesPut, LinksPut
  <2>2. LinksResolve(LinkPaths(archive), LinksOver(tree, archive))
    BY DEF EInv, AcceptedBeforeWriting, Writing, AcceptedStaysAcceptable, Accepted, Fits
  <2>3. LinksOver(tree, <<>>) = LinksOver(tree, archive)
    <3> DEFINE Leads(p) == IF tree[p].kind = "link" THEN tree[p].of ELSE Empty
    <3>1. LinksOver(tree, <<>>) = [p \in Paths |-> Leads(p)]
      BY DEF LinksOver
    <3>2. ASSUME NEW p \in Paths, \E i \in DOMAIN archive : archive[i].path = p
          PROVE  LET e == archive[CHOOSE i \in DOMAIN archive : archive[i].path = p]
                 IN  (IF e.kind = "link" THEN e.of ELSE Empty) = Leads(p)
      <4> DEFINE c == CHOOSE i \in DOMAIN archive : archive[i].path = p
      <4>1. c \in DOMAIN archive /\ archive[c].path = p
        BY <3>2
      <4> HIDE DEF c
      <4>2. tree[p] = NodeOf(archive[c])
        BY <2>1, <4>1 DEF Put
      <4>3. (IF archive[c].kind = "link" THEN archive[c].of ELSE Empty) = Leads(p)
        BY <4>2 DEF NodeOf
      <4> QED BY <4>3, Zenon DEF c
    <3> HIDE DEF Leads
    <3>3. LinksOver(tree, archive) = [p \in Paths |-> Leads(p)]
      BY <3>2 DEF LinksOver, Leads
    <3> QED BY <3>1, <3>3
  <2> QED BY <2>1, <2>2, <2>3
<1> QED BY <1>1, EInvHolds, PTL

\* Extract writes nothing before both of its validations passed.
THEOREM NothingBeforeValidation == Spec => ValidatedFirst
<1>1. ASSUME EInv, [Next]_vars
      PROVE  [tree' # tree => WellFormed(archive) /\ Fits(before, archive)]_vars
  <2>1. CASE WriteStep
    BY <1>1, <2>1, WriteSteps DEF Accepted
  <2>2. CASE ~WriteStep
    BY <1>1, <2>2
    DEF Next, WriteStep, Begin, CheckArchive, CheckDestination, PassLink, Written, PassNonLink,
        ParentsMade, Finish, Fail, Crash, vars
  <2> QED BY <2>1, <2>2
<1> QED BY <1>1, EInvHolds, PTL DEF Spec, ValidatedFirst

\* An extraction takes nothing away but files it replaces by files.
THEOREM ExtractionOverlays == Spec => OnlyOverlays
<1> DEFINE Overlaid(p) ==
      \/ tree[p] \in {Nothing, tree'[p]}
      \/ tree[p].kind = "file" /\ p \in lost'
      \/ /\ tree[p].kind = "file"
         /\ \E i \in DOMAIN archive : archive[i].path = p /\ tree'[p] = NodeOf(archive[i])
<1>1. ASSUME EInv, [Next]_vars PROVE [\A p \in Paths : Overlaid(p)]_vars
  <2> USE <1>1 DEF EInv
  <2>1. tree \in [Paths -> Nodes] /\ \A p \in Paths : tree[p].kind = "none" <=> tree[p] = Nothing
    BY NodeKinds DEF TypeOK
  <2>2. CASE MakeDirectory \/ OpenPartial \/ MakeLinkParents
    <3>1. PICK ps \in {Above[Entry.path], Above[Entry.path] \cup {Entry.path}} :
            tree' = WithDirectories(ps)
      BY <2>2 DEF MakeDirectory, OpenPartial, MakeLinkParents
    <3> QED BY <2>1, <3>1 DEF WithDirectories
  <2>3. CASE Publish \/ PublishAgain
    <3>1. /\ AtEntry(pc, "file") /\ pc \in Writing
          /\ tree' = [tree EXCEPT ![Entry.path] = NodeOf(Entry)]
      BY <2>3 DEF Publish, PublishAgain, PutInPlace, AtEntry, Writing
    <3>2. NodeFits(tree[Entry.path], Entry) /\ next \in DOMAIN archive
      BY <3>1, Zenon DEF AtEntry, AcceptedBeforeWriting, AcceptedStaysAcceptable, Accepted, Fits, Entry
    <3>3. tree[Entry.path] = Nothing \/ tree[Entry.path].kind = "file"
      BY <2>1, <3>1, <3>2, ArchiveEntries, EntryNode DEF NodeFits, AtEntry, Entry
    <3> QED BY <2>1, <3>1, <3>2, <3>3 DEF Entry
  <2>4. CASE RemoveTarget
    BY <2>1, <2>4 DEF RemoveTarget
  <2>5. CASE MakeLink
    BY <2>1, <2>5 DEF MakeLink
  <2>6. CASE tree' = tree
    BY <2>6
  <2>7. WriteStep \/ tree' = tree
    BY DEF Next, WriteStep, Begin, CheckArchive, CheckDestination, PassLink, Written, PassNonLink,
           ParentsMade, Finish, Fail, Crash, vars
  <2> QED BY <2>2, <2>3, <2>4, <2>5, <2>6, <2>7 DEF WriteStep
<1> QED BY <1>1, EInvHolds, PTL DEF Spec, OnlyOverlays
=============================================================================
