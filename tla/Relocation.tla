----------------------------- MODULE Relocation -----------------------------
(***************************************************************************)
(* Relocate, of both relocators, on one kit whose lock the caller owns     *)
(* (internal/qtinstall/desktop_relocator.go, mobile_relocator.go): every   *)
(* file that names the build machine is read and rewritten in memory, all  *)
(* rewritten files are staged beside their targets, and only then are they *)
(* renamed over them, one by one.  A call may fail or be killed anywhere;  *)
(* the next call starts over on what it left.                              *)
(*                                                                         *)
(* A file is what its rewriting makes of it, Transform[f]:                 *)
(*   - bin/qt.conf is created when it is missing;                          *)
(*   - the .pc, .prl and .la files of a desktop kit are those that a       *)
(*     directory lists, so a missing one is nothing to do;                 *)
(*   - the wrappers and settings of a mobile kit must be there.            *)
(***************************************************************************)
EXTENDS Naturals, Sequences, Functions

CONSTANTS
  Files,      \* the files that a kit may have to have rewritten
  Texts,      \* contents of a file
  Missing,    \* what is read where there is no file
  Refused,    \* what a transform answers for a file it does not accept
  Transform,  \* Transform[f][c]: f rewritten, when it holds c
  Order       \* the files in the order in which Relocate takes them

Held == Texts \cup {Missing}

\* A file that is rewritten keeps being a file; rewriting it again changes
\* nothing; and a file that would be created does not depend on what it held.
ASSUME RelocationAssumption ==
  /\ Missing \notin Texts /\ Refused \notin Held
  /\ Transform \in [Files -> [Held -> Held \cup {Refused}]]
  /\ \A f \in Files : \A t \in Texts : Transform[f][t] # Missing
  /\ \A f \in Files : \A c \in Held :
       Transform[f][c] # Refused => Transform[f][Transform[f][c]] = Transform[f][c]
  /\ \A f \in Files : \A t \in Texts :
       Transform[f][Missing] \in Texts => Transform[f][t] \in {Transform[f][Missing], Refused}
  /\ Order \in Seq(Files) /\ IsInjective(Order) /\ Range(Order) = Files

Phases == {"idle", "prepare", "stage", "publish", "replace", "done", "failed"}

VARIABLES
  built,    \* built[f]: what the archives put there (never changes)
  kit,      \* kit[f]: what the kit holds
  pc,       \* phase of the relocation
  next,     \* position in Order
  update,   \* update[f]: replacement of f, Missing when it has none
  staged,   \* files whose replacement this call has written beside them
  lost      \* files removed to be replaced, and not replaced since

vars == <<built, kit, pc, next, update, staged, lost>>

NoUpdate == [f \in Files |-> Missing]

Init ==
  /\ built \in [Files -> Held]
  /\ kit = built
  /\ pc = "idle"
  /\ next = 1
  /\ update = NoUpdate
  /\ staged = {}
  /\ lost = {}

\* Relocate: opens the kit; a call that ended or died before left nothing in memory.
Begin ==
  /\ pc \in {"idle", "done", "failed"}
  /\ pc' = "prepare"
  /\ next' = 1
  /\ update' = NoUpdate
  /\ UNCHANGED <<built, kit, staged, lost>>

AtFile(phase, f) == pc = phase /\ next \in DOMAIN Order /\ Order[next] = f

PassedAll(phase) == pc = phase /\ next > Len(Order)

\* Mutated form: a file that the transform does not accept is passed over.
PrepareLeniently(f) ==
  /\ AtFile("prepare", f)
  /\ next' = next + 1
  /\ update' = IF Transform[f][kit[f]] \in {kit[f], Refused} THEN update
               ELSE [update EXCEPT ![f] = Transform[f][kit[f]]]
  /\ UNCHANGED <<built, kit, pc, staged, lost>>

\* prepareDesktopQtConfiguration and prepareRelocationFile.
Prepare(f) ==
  /\ AtFile("prepare", f)
  /\ Transform[f][kit[f]] # Refused
  /\ next' = next + 1
  /\ update' = IF Transform[f][kit[f]] = kit[f] THEN update
               ELSE [update EXCEPT ![f] = Transform[f][kit[f]]]
  /\ UNCHANGED <<built, kit, pc, staged, lost>>

Refuse(f) ==
  /\ AtFile("prepare", f)
  /\ Transform[f][kit[f]] = Refused
  /\ pc' = "failed"
  /\ UNCHANGED <<built, kit, next, update, staged, lost>>

\* Relocate closes the kit when everything is done, and reports when it cannot.
Close == pc' \in {"done", "failed"}

\* applyRelocationFiles returns at once when nothing changes.
Prepared ==
  /\ PassedAll("prepare")
  /\ IF update = NoUpdate THEN Close ELSE pc' = "stage"
  /\ next' = 1
  /\ UNCHANGED <<built, kit, update, staged, lost>>

\* A file without a replacement is not in the list that is staged and published.
Skip(f) ==
  /\ AtFile("stage", f) \/ AtFile("publish", f)
  /\ update[f] = Missing
  /\ next' = next + 1
  /\ UNCHANGED <<built, kit, pc, update, staged, lost>>

\* Mutated form: the replacement is written into the file itself, emptied first.
StageInPlace(f) ==
  /\ AtFile("stage", f)
  /\ update[f] # Missing
  /\ kit' = [kit EXCEPT ![f] = Missing]
  /\ staged' = staged \cup {f}
  /\ next' = next + 1
  /\ UNCHANGED <<built, pc, update, lost>>

\* createPartialFile and the copy into it, which ends with its mode and its close.
Stage(f) ==
  /\ AtFile("stage", f)
  /\ update[f] # Missing
  /\ staged' = staged \cup {f}
  /\ next' = next + 1
  /\ UNCHANGED <<built, kit, pc, update, lost>>

Staged ==
  /\ PassedAll("stage")
  /\ pc' = "publish"
  /\ next' = 1
  /\ UNCHANGED <<built, kit, update, staged, lost>>

PutInPlace(f) ==
  /\ kit' = [kit EXCEPT ![f] = update[f]]
  /\ staged' = staged \ {f}
  /\ lost' = lost \ {f}
  /\ pc' = "publish"
  /\ next' = next + 1
  /\ UNCHANGED <<built, update>>

\* publishRegularFile: the staged file is renamed over the target.
Rename(f) ==
  /\ AtFile("publish", f)
  /\ update[f] # Missing
  /\ PutInPlace(f)

\* Mutated form: a refused rename is taken for one of a file that is up to date.
RenameFailsSilently(f) ==
  /\ AtFile("publish", f)
  /\ update[f] # Missing
  /\ next' = next + 1
  /\ UNCHANGED <<built, kit, pc, update, staged, lost>>

\* The rename is refused: the target is removed to make way for it, unless it
\* is not there, is no regular file, or cannot be removed.
RenameFails(f) ==
  /\ AtFile("publish", f)
  /\ update[f] # Missing
  /\ \/ /\ kit[f] # Missing
        /\ kit' = [kit EXCEPT ![f] = Missing]
        /\ lost' = lost \cup {f}
        /\ pc' = "replace"
        /\ UNCHANGED staged
     \/ /\ pc' = "failed"
        /\ staged' = {}
        /\ UNCHANGED <<kit, lost>>
  /\ UNCHANGED <<built, next, update>>

RenameAgain(f) == AtFile("replace", f) /\ PutInPlace(f)

\* The deferred function of applyRelocationFiles removes what is still staged,
\* the only copy of the replacement.
RenameAgainFails(f) ==
  /\ AtFile("replace", f)
  /\ pc' = "failed"
  /\ staged' = {}
  /\ UNCHANGED <<built, kit, next, update, lost>>

Published ==
  /\ PassedAll("publish")
  /\ Close
  /\ UNCHANGED <<built, kit, next, update, staged, lost>>

\* I/O errors while files are read and staged, and a cancelled context, which
\* is looked at for the last time before the first file is published.
Fail ==
  /\ pc \in {"prepare", "stage"} \/ (pc = "publish" /\ next = 1)
  /\ pc' = "failed"
  /\ staged' = {}
  /\ UNCHANGED <<built, kit, next, update, lost>>

\* The process dies; what it staged stays, under random names nobody looks up.
Crash ==
  /\ pc \in {"prepare", "stage", "publish", "replace"}
  /\ pc' = "idle"
  /\ staged' = {}
  /\ UNCHANGED <<built, kit, next, update, lost>>

FileStep(f) ==
  \/ Prepare(f) \/ Refuse(f) \/ Skip(f) \/ Stage(f)
  \/ Rename(f) \/ RenameFails(f) \/ RenameAgain(f) \/ RenameAgainFails(f)

Next ==
  \/ Begin \/ Prepared \/ Staged \/ Published \/ Fail \/ Crash
  \/ \E f \in Files : FileStep(f)

Spec == Init /\ [][Next]_vars

-----------------------------------------------------------------------------
TypeOK ==
  /\ built \in [Files -> Held]
  /\ kit \in [Files -> Held]
  /\ pc \in Phases
  /\ next \in 1..Len(Order) + 1
  /\ update \in [Files -> Held]
  /\ staged \in SUBSET Files
  /\ lost \in SUBSET Files

Relocated(f) == Transform[f][built[f]]

\* Whatever calls were cut short, a file holds what the archives put there or
\* its rewritten form, and nothing else; only a file whose replacement failed
\* after its removal is missing.
OldOrNew ==
  \A f \in Files : kit[f] \in {built[f], Relocated(f)} \/ (f \in lost /\ kit[f] = Missing)

\* A kit with one file that cannot be rewritten is not touched at all, by any
\* number of calls (mobile_relocator.go:103: every file is validated first).
RefusedKitIsUntouched ==
  (\E f \in Files : Relocated(f) = Refused) => kit = built

\* Every file that is replaced is replaced when all that have a replacement
\* were staged (mobile_relocator.go:104: before the first one is published).
StagedBeforePublished ==
  [][kit' # kit => \A f \in Files :
       update[f] = Missing \/ f \in staged \/ kit[f] = update[f]]_vars

\* A call that succeeds leaves every file as one rewriting of what the archives
\* put there, however many calls were cut short before it and wherever they were.
SuccessMeansRelocated ==
  pc = "done" => \A f \in Files : f \in lost \/ kit[f] = Relocated(f)

\* A call that was cut short can be repeated: no file that it replaced is
\* refused by the next call, nor by Validate before an incremental installation.
RepeatIsAccepted ==
  (lost = {} /\ \A f \in Files : Relocated(f) # Refused)
    => \A f \in Files : Transform[f][kit[f]] # Refused
=============================================================================
