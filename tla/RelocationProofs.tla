-------------------------- MODULE RelocationProofs --------------------------
(***************************************************************************)
(* Proofs about Relocation, for any files, contents and transforms.        *)
(***************************************************************************)
EXTENDS Relocation, TLAPS

\* What is removed and not replaced is a file that could be rewritten.
LostAreRewritable == \A f \in lost : kit[f] = Missing /\ Relocated(f) \in Texts

\* A replacement is the file as the archives had it, rewritten once.
UpdatesAreRelocated == \A f \in Files : update[f] \in {Missing, Relocated(f)}

\* f was looked at: it can be rewritten, and has a replacement unless it needs none.
Looked(f) ==
  /\ Relocated(f) # Refused
  /\ update[f] = Missing => f \in lost \/ kit[f] = Relocated(f)

LookedAtPassed ==
  /\ pc = "prepare" => \A i \in DOMAIN Order : i < next => Looked(Order[i])
  /\ pc \in {"stage", "publish", "replace"} => \A f \in Files : Looked(f)

\* f needs nothing but the renaming of what is staged for it.
Ready(f) == update[f] # Missing => f \in staged

StagedAhead ==
  /\ pc = "stage" => \A i \in DOMAIN Order : i < next => Ready(Order[i])
  /\ pc \in {"publish", "replace"} => \A i \in DOMAIN Order : i >= next => Ready(Order[i])

PublishedBehind ==
  /\ pc \in {"publish", "replace"} =>
       \A i \in DOMAIN Order :
         i < next /\ update[Order[i]] # Missing => kit[Order[i]] = update[Order[i]]
  /\ pc = "replace" => next \in DOMAIN Order /\ update[Order[next]] # Missing

RInv ==
  /\ TypeOK
  /\ OldOrNew
  /\ LostAreRewritable
  /\ UpdatesAreRelocated
  /\ LookedAtPassed
  /\ StagedAhead
  /\ PublishedBehind
  /\ RefusedKitIsUntouched
  /\ SuccessMeansRelocated

-----------------------------------------------------------------------------
(* The order and the transforms.                                           *)

LEMMA OrderProperties ==
  /\ Len(Order) \in Nat /\ DOMAIN Order = 1..Len(Order)
  /\ \A i \in DOMAIN Order : Order[i] \in Files
  /\ \A f \in Files : \E i \in DOMAIN Order : Order[i] = f
  /\ \A i, j \in DOMAIN Order : Order[i] = Order[j] => i = j
<1>1. Order \in Seq(Files) /\ IsInjective(Order) /\ Range(Order) = Files
  BY RelocationAssumption
<1>2. Len(Order) \in Nat /\ DOMAIN Order = 1..Len(Order)
  BY <1>1
<1>3. \A i \in DOMAIN Order : Order[i] \in Files
  BY <1>1, <1>2
<1>4. \A f \in Files : \E i \in DOMAIN Order : Order[i] = f
  BY <1>1, Zenon DEF Range
<1>5. \A i, j \in DOMAIN Order : Order[i] = Order[j] => i = j
  BY <1>1, Zenon DEF IsInjective
<1> QED BY <1>2, <1>3, <1>4, <1>5

LEMMA RelocatedType ==
  ASSUME TypeOK, NEW f \in Files
  PROVE  Relocated(f) \in Held \cup {Refused}
BY RelocationAssumption DEF TypeOK, Relocated

\* Rewriting what a kit holds, whatever happened to it, is rewriting what the
\* archives put there, or nothing.
LEMMA RewritingOnce ==
  ASSUME TypeOK, OldOrNew, LostAreRewritable, NEW f \in Files,
         Transform[f][kit[f]] # Refused
  PROVE  /\ Relocated(f) # Refused
         /\ Transform[f][kit[f]] = kit[f] => f \in lost \/ kit[f] = Relocated(f)
         /\ Transform[f][kit[f]] # kit[f] =>
              Transform[f][kit[f]] = Relocated(f) /\ Relocated(f) \in Texts
<1> DEFINE T == Transform[f]
<1>1. /\ built[f] \in Held /\ kit[f] \in Held
      /\ \A c \in Held : T[c] \in Held \cup {Refused}
      /\ \A t \in Texts : T[t] # Missing
      /\ \A c \in Held : T[c] # Refused => T[T[c]] = T[c]
      /\ \A t \in Texts : T[Missing] \in Texts => T[t] \in {T[Missing], Refused}
      /\ Refused \notin Held /\ Missing \notin Texts
  BY RelocationAssumption DEF TypeOK
<1>2. Relocated(f) = T[built[f]]
  BY DEF Relocated
<1>3. CASE kit[f] = built[f]
  <2>1. T[kit[f]] = Missing => kit[f] = Missing
    BY <1>1 DEF Held
  <2> QED BY <1>1, <1>2, <1>3, <2>1 DEF Held
<1>4. CASE kit[f] = Relocated(f)
  BY <1>1, <1>2, <1>4
<1>5. CASE f \in lost /\ kit[f] = Missing
  <2>1. Relocated(f) \in Texts
    BY <1>5 DEF LostAreRewritable
  <2>2. CASE T[Missing] = Missing
    BY <1>1, <1>5, <2>1, <2>2 DEF Held
  <2>3. CASE T[Missing] # Missing
    BY <1>1, <1>2, <1>5, <2>1, <2>3 DEF Held
  <2> QED BY <2>2, <2>3
<1> QED BY <1>3, <1>4, <1>5 DEF OldOrNew

-----------------------------------------------------------------------------
LEMMA InitRInv == Init => RInv
<1> SUFFICES ASSUME Init PROVE RInv
  OBVIOUS
<1> USE DEF Init
<1>1. TypeOK
  BY OrderProperties DEF TypeOK, Phases, NoUpdate, Held
<1>2. OldOrNew /\ LostAreRewritable /\ RefusedKitIsUntouched /\ SuccessMeansRelocated
  BY DEF OldOrNew, LostAreRewritable, RefusedKitIsUntouched, SuccessMeansRelocated
<1>3. UpdatesAreRelocated
  BY DEF UpdatesAreRelocated, NoUpdate
<1>4. LookedAtPassed /\ StagedAhead /\ PublishedBehind
  BY DEF LookedAtPassed, StagedAhead, PublishedBehind
<1> QED BY <1>1, <1>2, <1>3, <1>4 DEF RInv

\* The phases that only read, stage, or end a call.
KitKept == kit' = kit /\ built' = built /\ lost' = lost

LEMMA BeginStep ==
  ASSUME RInv, Begin PROVE RInv'
<1> USE DEF RInv, Begin
<1>1. TypeOK'
  BY OrderProperties DEF TypeOK, Phases, NoUpdate, Held
<1>2. (OldOrNew /\ LostAreRewritable /\ RefusedKitIsUntouched)'
  BY DEF OldOrNew, LostAreRewritable, RefusedKitIsUntouched, Relocated
<1>3. (UpdatesAreRelocated /\ SuccessMeansRelocated)'
  BY DEF UpdatesAreRelocated, NoUpdate, SuccessMeansRelocated
<1>4. (LookedAtPassed /\ StagedAhead /\ PublishedBehind)'
  BY OrderProperties DEF LookedAtPassed, StagedAhead, PublishedBehind
<1> QED BY <1>1, <1>2, <1>3, <1>4

LEMMA PrepareStep ==
  ASSUME RInv, NEW f \in Files, Prepare(f) PROVE RInv'
<1> USE DEF RInv, AtFile, Prepare
<1> DEFINE t == Transform[f][kit[f]]
<1>0. /\ pc = "prepare" /\ next \in DOMAIN Order /\ Order[next] = f
      /\ t # Refused /\ next' = next + 1 /\ pc' = pc /\ KitKept /\ staged' = staged
      /\ update' = IF t = kit[f] THEN update ELSE [update EXCEPT ![f] = t]
  BY DEF KitKept
<1>1. /\ Relocated(f) # Refused
      /\ t = kit[f] => f \in lost \/ kit[f] = Relocated(f)
      /\ t # kit[f] => t = Relocated(f) /\ Relocated(f) \in Texts
  BY <1>0, RewritingOnce
<1>2. \A g \in Files : /\ g # f => update'[g] = update[g]
                       /\ update'[g] # update[g] => update'[g] = Relocated(g)
                       /\ update'[f] = Missing => t = kit[f]
  BY <1>0, <1>1, RelocationAssumption DEF TypeOK
<1>3. TypeOK'
  BY <1>0, <1>1, OrderProperties DEF TypeOK, KitKept, Held
<1>4. (OldOrNew /\ LostAreRewritable /\ RefusedKitIsUntouched)'
  BY <1>0 DEF OldOrNew, LostAreRewritable, RefusedKitIsUntouched, Relocated, KitKept
<1>5. UpdatesAreRelocated'
  BY <1>0, <1>2 DEF UpdatesAreRelocated, Relocated, KitKept
<1>6. LookedAtPassed'
  <2>1. ASSUME NEW i \in DOMAIN Order, i < next + 1 PROVE Looked(Order[i])'
    <3>1. CASE i = next
      BY <1>0, <1>1, <1>2, <3>1 DEF Looked, Relocated, KitKept
    <3>2. CASE i # next
      <4>1. i < next /\ Order[i] # f /\ Order[i] \in Files
        BY <1>0, <2>1, <3>2, OrderProperties
      <4>2. Looked(Order[i])
        BY <1>0, <4>1 DEF LookedAtPassed
      <4> QED BY <1>0, <1>2, <4>1, <4>2 DEF Looked, Relocated, KitKept
    <3> QED BY <3>1, <3>2
  <2> QED BY <1>0, <2>1 DEF LookedAtPassed
<1>7. (StagedAhead /\ PublishedBehind /\ SuccessMeansRelocated)'
  BY <1>0 DEF StagedAhead, PublishedBehind, SuccessMeansRelocated
<1> QED BY <1>3, <1>4, <1>5, <1>6, <1>7

LEMMA PreparedStep ==
  ASSUME RInv, Prepared PROVE RInv'
<1> USE DEF RInv, PassedAll, Prepared, Close
<1>1. \A f \in Files : Looked(f)
  <2>1. \A i \in DOMAIN Order : Looked(Order[i])
    BY OrderProperties DEF LookedAtPassed, TypeOK
  <2> QED BY <2>1, OrderProperties
<1>2. TypeOK'
  BY OrderProperties DEF TypeOK, Phases
<1>3. (OldOrNew /\ LostAreRewritable /\ RefusedKitIsUntouched /\ UpdatesAreRelocated)'
  BY DEF OldOrNew, LostAreRewritable, RefusedKitIsUntouched, UpdatesAreRelocated, Relocated
<1>4. LookedAtPassed'
  BY <1>1 DEF LookedAtPassed, Looked, Relocated
<1>5. (StagedAhead /\ PublishedBehind)'
  BY OrderProperties DEF StagedAhead, PublishedBehind
<1>6. SuccessMeansRelocated'
  BY <1>1 DEF SuccessMeansRelocated, Looked, Relocated, NoUpdate
<1> QED BY <1>2, <1>3, <1>4, <1>5, <1>6

LEMMA StagingStep ==
  ASSUME RInv, NEW f \in Files, Stage(f) \/ Skip(f) PROVE RInv'
<1> USE DEF RInv, AtFile
<1>0. /\ next \in DOMAIN Order /\ Order[next] = f /\ pc \in {"stage", "publish"}
      /\ next' = next + 1 /\ pc' = pc /\ update' = update /\ KitKept
      /\ staged' = staged \/ staged' = staged \cup {f}
      /\ pc = "stage" => Ready(f)'
      /\ pc = "publish" => update[f] = Missing
  BY DEF Stage, Skip, KitKept, Ready
<1>1. TypeOK'
  BY <1>0, OrderProperties DEF TypeOK, KitKept
<1>2. (OldOrNew /\ LostAreRewritable /\ RefusedKitIsUntouched /\ UpdatesAreRelocated)'
  BY <1>0 DEF OldOrNew, LostAreRewritable, RefusedKitIsUntouched, UpdatesAreRelocated,
     Relocated, KitKept
<1>3. (LookedAtPassed /\ SuccessMeansRelocated)'
  BY <1>0 DEF LookedAtPassed, Looked, Relocated, KitKept, SuccessMeansRelocated
<1>4. StagedAhead'
  <2>1. \A i \in DOMAIN Order : Ready(Order[i]) => Ready(Order[i])'
    BY <1>0, OrderProperties DEF Ready, TypeOK
  <2>2. \A i \in DOMAIN Order : i < next + 1 => i < next \/ i = next
    BY <1>0, OrderProperties
  <2>3. \A i \in DOMAIN Order : i >= next + 1 => i >= next
    BY <1>0, OrderProperties
  <2> QED BY <1>0, <2>1, <2>2, <2>3 DEF StagedAhead
<1>5. PublishedBehind'
  <2>1. \A i \in DOMAIN Order : i < next + 1 => i < next \/ i = next
    BY <1>0, OrderProperties
  <2> QED BY <1>0, <2>1 DEF PublishedBehind, KitKept
<1> QED BY <1>1, <1>2, <1>3, <1>4, <1>5

LEMMA StagedStep ==
  ASSUME RInv, Staged PROVE RInv'
<1> USE DEF RInv, PassedAll, Staged
<1>1. \A i \in DOMAIN Order : Ready(Order[i])
  BY OrderProperties DEF StagedAhead, TypeOK
<1>2. TypeOK'
  BY OrderProperties DEF TypeOK, Phases
<1>3. (OldOrNew /\ LostAreRewritable /\ RefusedKitIsUntouched /\ UpdatesAreRelocated)'
  BY DEF OldOrNew, LostAreRewritable, RefusedKitIsUntouched, UpdatesAreRelocated, Relocated
<1>4. (LookedAtPassed /\ SuccessMeansRelocated)'
  BY DEF LookedAtPassed, Looked, Relocated, SuccessMeansRelocated
<1>5. StagedAhead'
  BY <1>1 DEF StagedAhead, Ready
<1>6. PublishedBehind'
  BY OrderProperties DEF PublishedBehind
<1> QED BY <1>2, <1>3, <1>4, <1>5, <1>6

LEMMA PutInPlaceStep ==
  ASSUME RInv, NEW f \in Files, Rename(f) \/ RenameAgain(f) PROVE RInv'
<1> USE DEF RInv, AtFile
<1>0. /\ next \in DOMAIN Order /\ Order[next] = f /\ pc \in {"publish", "replace"}
      /\ update[f] # Missing /\ PutInPlace(f)
  BY DEF Rename, RenameAgain, PublishedBehind
<1>1. /\ kit' = [kit EXCEPT ![f] = update[f]] /\ staged' = staged \ {f}
      /\ lost' = lost \ {f} /\ pc' = "publish" /\ next' = next + 1
      /\ built' = built /\ update' = update
  BY <1>0 DEF PutInPlace
<1>2. update[f] = Relocated(f)
  BY <1>0 DEF UpdatesAreRelocated
<1>3. TypeOK'
  BY <1>0, <1>1, OrderProperties DEF TypeOK, Phases
<1>4. \A g \in Files : kit'[g] = IF g = f THEN Relocated(f) ELSE kit[g]
  BY <1>1, <1>2 DEF TypeOK
<1>5. (OldOrNew /\ LostAreRewritable)'
  BY <1>1, <1>4 DEF OldOrNew, LostAreRewritable, Relocated, TypeOK
<1>6. RefusedKitIsUntouched'
  BY <1>0, <1>1 DEF RefusedKitIsUntouched, Relocated, LookedAtPassed, Looked
<1>7. (UpdatesAreRelocated /\ SuccessMeansRelocated)'
  BY <1>1 DEF UpdatesAreRelocated, Relocated, SuccessMeansRelocated
<1>8. LookedAtPassed'
  BY <1>0, <1>1, <1>4 DEF LookedAtPassed, Looked, Relocated
<1>9. \A i \in DOMAIN Order : /\ i # next => Order[i] # f /\ Order[i] \in Files
                              /\ i < next + 1 => i < next \/ i = next
                              /\ i >= next + 1 => i >= next /\ i # next
  BY <1>0, OrderProperties
<1>10. StagedAhead'
  BY <1>0, <1>1, <1>9 DEF StagedAhead, Ready
<1>11. PublishedBehind'
  <2>1. ASSUME NEW i \in DOMAIN Order, i < next + 1, update[Order[i]] # Missing
        PROVE  kit'[Order[i]] = update[Order[i]]
    <3>1. CASE i = next
      BY <1>0, <1>2, <1>4, <3>1
    <3>2. CASE i # next
      BY <1>0, <1>4, <1>9, <2>1, <3>2 DEF PublishedBehind
    <3> QED BY <3>1, <3>2
  <2> QED BY <1>1, <2>1 DEF PublishedBehind
<1> QED BY <1>3, <1>5, <1>6, <1>7, <1>8, <1>10, <1>11

LEMMA RemovedStep ==
  ASSUME RInv, NEW f \in Files, RenameFails(f), pc' = "replace" PROVE RInv'
<1> USE DEF RInv, AtFile
<1>1. /\ next \in DOMAIN Order /\ Order[next] = f /\ pc = "publish" /\ update[f] # Missing
      /\ kit' = [kit EXCEPT ![f] = Missing] /\ lost' = lost \cup {f} /\ pc' = "replace"
      /\ staged' = staged /\ built' = built /\ next' = next /\ update' = update
  BY DEF RenameFails
<1>2. Relocated(f) = update[f] /\ Relocated(f) \in Texts
  BY <1>1 DEF UpdatesAreRelocated, TypeOK, Held
<1>3. TypeOK'
  BY <1>1 DEF TypeOK, Phases, Held
<1>4. \A g \in Files : kit'[g] = IF g = f THEN Missing ELSE kit[g]
  BY <1>1 DEF TypeOK
<1>5. (OldOrNew /\ LostAreRewritable)'
  BY <1>1, <1>2, <1>4 DEF OldOrNew, LostAreRewritable, Relocated, TypeOK
<1>6. RefusedKitIsUntouched'
  BY <1>1 DEF RefusedKitIsUntouched, Relocated, LookedAtPassed, Looked
<1>7. (UpdatesAreRelocated /\ SuccessMeansRelocated)'
  BY <1>1 DEF UpdatesAreRelocated, Relocated, SuccessMeansRelocated
<1>8. LookedAtPassed'
  BY <1>1, <1>4 DEF LookedAtPassed, Looked, Relocated
<1>9. StagedAhead'
  BY <1>1 DEF StagedAhead, Ready
<1>10. \A i \in DOMAIN Order : i < next => Order[i] # f /\ Order[i] \in Files
  BY <1>1, OrderProperties
<1>11. PublishedBehind'
  BY <1>1, <1>4, <1>10 DEF PublishedBehind
<1> QED BY <1>3, <1>5, <1>6, <1>7, <1>8, <1>9, <1>11

LEMMA PublishedStep ==
  ASSUME RInv, Published PROVE RInv'
<1> USE DEF RInv, PassedAll, Published, Close
<1>1. \A f \in Files : f \in lost \/ kit[f] = Relocated(f)
  <2>1. \A i \in DOMAIN Order : update[Order[i]] # Missing => kit[Order[i]] = update[Order[i]]
    BY OrderProperties DEF PublishedBehind, TypeOK
  <2>2. \A f \in Files : update[f] # Missing => kit[f] = Relocated(f)
    BY <2>1, OrderProperties DEF UpdatesAreRelocated
  <2> QED BY <2>2 DEF LookedAtPassed, Looked
<1>2. TypeOK'
  BY DEF TypeOK, Phases
<1>3. (OldOrNew /\ LostAreRewritable /\ RefusedKitIsUntouched /\ UpdatesAreRelocated)'
  BY DEF OldOrNew, LostAreRewritable, RefusedKitIsUntouched, UpdatesAreRelocated, Relocated
<1>4. (LookedAtPassed /\ StagedAhead /\ PublishedBehind)'
  BY DEF LookedAtPassed, StagedAhead, PublishedBehind
<1>5. SuccessMeansRelocated'
  BY <1>1 DEF SuccessMeansRelocated, Relocated
<1> QED BY <1>2, <1>3, <1>4, <1>5

\* A call that ends without success, whatever ends it, leaves the kit as it is.
LEMMA EndStep ==
  ASSUME RInv, KitKept, pc' \in {"idle", "failed"}, next' = next, update' = update,
         staged' \in SUBSET Files
  PROVE  RInv'
<1> USE DEF RInv, KitKept
<1>1. TypeOK'
  BY DEF TypeOK, Phases
<1>2. (OldOrNew /\ LostAreRewritable /\ RefusedKitIsUntouched /\ UpdatesAreRelocated)'
  BY DEF OldOrNew, LostAreRewritable, RefusedKitIsUntouched, UpdatesAreRelocated, Relocated
<1>3. (LookedAtPassed /\ StagedAhead /\ PublishedBehind /\ SuccessMeansRelocated)'
  BY DEF LookedAtPassed, StagedAhead, PublishedBehind, SuccessMeansRelocated
<1> QED BY <1>1, <1>2, <1>3

LEMMA FileStepRInv ==
  ASSUME RInv, NEW f \in Files, FileStep(f) PROVE RInv'
<1>1. CASE Prepare(f)
  BY <1>1, PrepareStep
<1>2. CASE Stage(f) \/ Skip(f)
  BY <1>2, StagingStep
<1>3. CASE Rename(f) \/ RenameAgain(f)
  BY <1>3, PutInPlaceStep
<1>4. CASE RenameFails(f)
  <2>1. CASE pc' = "replace"
    BY <1>4, <2>1, RemovedStep
  <2>2. CASE pc' # "replace"
    <3>1. KitKept /\ pc' = "failed" /\ next' = next /\ update' = update /\ staged' = {}
      BY <1>4, <2>2 DEF RenameFails, KitKept
    <3> QED BY <3>1, EndStep
  <2> QED BY <2>1, <2>2
<1>5. CASE Refuse(f) \/ RenameAgainFails(f)
  <2>1. KitKept /\ pc' = "failed" /\ next' = next /\ update' = update
        /\ staged' \in SUBSET Files
    BY <1>5 DEF Refuse, RenameAgainFails, KitKept, RInv, TypeOK
  <2> QED BY <2>1, EndStep
<1> QED BY <1>1, <1>2, <1>3, <1>4, <1>5 DEF FileStep

LEMMA StepRInv == RInv /\ [Next]_vars => RInv'
<1> SUFFICES ASSUME RInv, [Next]_vars PROVE RInv'
  OBVIOUS
<1>1. CASE Fail \/ Crash
  <2>1. KitKept /\ pc' \in {"idle", "failed"} /\ next' = next /\ update' = update /\ staged' = {}
    BY <1>1 DEF Fail, Crash, KitKept
  <2> QED BY <2>1, EndStep
<1>2. CASE UNCHANGED vars
  BY <1>2 DEF vars, RInv, TypeOK, OldOrNew, LostAreRewritable, UpdatesAreRelocated,
     LookedAtPassed, Looked, StagedAhead, Ready, PublishedBehind, RefusedKitIsUntouched,
     SuccessMeansRelocated, Relocated
<1> QED
  BY <1>1, <1>2, BeginStep, PreparedStep, StagedStep, PublishedStep, FileStepRInv DEF Next

THEOREM RInvHolds == Spec => []RInv
BY InitRInv, StepRInv, PTL DEF Spec

-----------------------------------------------------------------------------
\* Every reachable state of Relocation is well typed.
THEOREM TypeCorrect == Spec => []TypeOK
<1>1. RInv => TypeOK
  BY DEF RInv
<1> QED BY <1>1, RInvHolds, PTL

\* However calls are cut short, a file of a kit is as the archives put it there
\* or rewritten, but never half written (applyRelocationFiles, publishRegularFile).
THEOREM FilesAreOldOrNew == Spec => []OldOrNew
<1>1. RInv => OldOrNew
  BY DEF RInv
<1> QED BY <1>1, RInvHolds, PTL

\* A kit with a file that cannot be rewritten is never touched (processKit).
THEOREM RefusedKitStaysUntouched == Spec => []RefusedKitIsUntouched
<1>1. RInv => RefusedKitIsUntouched
  BY DEF RInv
<1> QED BY <1>1, RInvHolds, PTL

\* A call that succeeds leaves the files rewritten once, whatever calls were cut
\* short before it (Relocate).
THEOREM SuccessIsRelocated == Spec => []SuccessMeansRelocated
<1>1. RInv => SuccessMeansRelocated
  BY DEF RInv
<1> QED BY <1>1, RInvHolds, PTL

\* A call that was cut short can be repeated (Validate, Relocate).
THEOREM CutShortIsRepeatable == Spec => []RepeatIsAccepted
<1>1. RInv => RepeatIsAccepted
  <2> SUFFICES ASSUME RInv, lost = {}, \A f \in Files : Relocated(f) # Refused,
                      NEW f \in Files
               PROVE  Transform[f][kit[f]] # Refused
    BY DEF RepeatIsAccepted
  <2>1. built[f] \in Held /\ kit[f] \in {built[f], Relocated(f)}
    BY DEF RInv, TypeOK, OldOrNew
  <2>2. Relocated(f) \in Held
    BY RelocatedType DEF RInv
  <2> QED BY <2>1, <2>2, RelocationAssumption DEF Relocated
<1> QED BY <1>1, RInvHolds, PTL

\* No file is replaced before all that have a replacement are staged
\* (applyRelocationFiles).
THEOREM AllAreStagedFirst == Spec => StagedBeforePublished
<1> DEFINE Safe == kit' # kit => \A f \in Files :
                     update[f] = Missing \/ f \in staged \/ kit[f] = update[f]
<1>1. RInv /\ [Next]_vars => [Safe]_vars
  <2> SUFFICES ASSUME RInv, Next, kit' # kit, NEW g \in Files
               PROVE  update[g] = Missing \/ g \in staged \/ kit[g] = update[g]
    OBVIOUS
  <2>1. pc \in {"publish", "replace"}
    BY DEF Next, FileStep, Begin, Prepared, Staged, Published, Close, Fail, Crash, Prepare, Refuse,
       Skip, Stage, Rename, RenameFails, RenameAgain, RenameAgainFails, AtFile
  <2>2. PICK i \in DOMAIN Order : Order[i] = g
    BY OrderProperties
  <2>3. i < next \/ i >= next
    BY OrderProperties DEF RInv, TypeOK
  <2> QED BY <2>1, <2>2, <2>3 DEF RInv, StagedAhead, PublishedBehind, Ready
<1> QED BY <1>1, RInvHolds, PTL DEF Spec, StagedBeforePublished
=============================================================================
