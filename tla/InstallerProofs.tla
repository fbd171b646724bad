--------------------------- MODULE InstallerProofs ---------------------------
(***************************************************************************)
(* Proofs about Installer, for any processes, kits, packages and requests: *)
(* types and the version lock first, then what the manifests say, and at   *)
(* last what success means where nothing disturbs an installation.         *)
(***************************************************************************)
EXTENDS Installer, SequenceTheorems, TLAPS

-----------------------------------------------------------------------------
(* What the operators on plans and manifests return.                       *)

LEMMA NoPackagesType == NoPackages \in Packages
BY DEF NoPackages, Packages

LEMMA RecordedType ==
  ASSUME NEW pk \in Packages, NEW sels \in Seq(Selections)
  PROVE  Recorded(pk, sels) \in Packages
<1> DEFINE kept == {n \in DOMAIN pk : \A i \in DOMAIN sels :
                      sels[i].name # n /\ sels[i].module # pk[n].module}
           added == {i \in DOMAIN sels : \A j \in DOMAIN sels : j > i =>
                      sels[j].module # sels[i].module /\ sels[j].name # sels[i].name}
           dom == kept \cup {sels[i].name : i \in added}
           f == [n \in dom |-> IF n \in kept THEN pk[n]
                   ELSE RecordOf(sels[CHOOSE i \in added : sels[i].name = n])]
<1>1. PICK N \in SUBSET Names : pk \in [N -> PackageRecords]
  BY DEF Packages
<1>2. \A i \in DOMAIN sels : sels[i] \in Selections
  BY LenProperties, ElementOfSeq
<1>3. dom \in SUBSET Names
  BY <1>1, <1>2 DEF Selections
<1>4. ASSUME NEW n \in dom PROVE f[n] \in PackageRecords
  <2>1. CASE n \in kept
    BY <1>1, <2>1
  <2>2. CASE n \notin kept
    <3>1. \E i \in added : sels[i].name = n
      BY <1>4, <2>2
    <3>2. (CHOOSE i \in added : sels[i].name = n) \in DOMAIN sels
      BY <3>1
    <3>3. f[n] = RecordOf(sels[CHOOSE i \in added : sels[i].name = n])
      BY <1>4, <2>2
    <3>4. ASSUME NEW s \in Selections PROVE RecordOf(s) \in PackageRecords
      BY DEF RecordOf, Selections, PackageRecords
    <3>5. sels[CHOOSE i \in added : sels[i].name = n] \in Selections
      BY <1>2, <3>2
    <3> QED BY <3>3, <3>4, <3>5
  <2> QED BY <2>1, <2>2
<1>5. f \in [dom -> PackageRecords]
  BY <1>4
<1>6. f \in Packages
  BY <1>3, <1>5 DEF Packages
<1> QED BY <1>6 DEF Recorded

LEMMA ResolvedType ==
  ASSUME NEW r \in Requests, NEW v \in Releases
  PROVE  Resolved(r, v) \in PlanTypes
<1> DEFINE sel(k) == [i \in 1..Len(r.select[k]) |->
                        [name    |-> r.select[k][i].name,
                         module  |-> r.select[k][i].module,
                         version |-> v]]
<1>1. r.mode \in Modes /\ r.kits \in Seq(Kits)
      /\ r.select \in [Kits -> Seq([name : Names, module : Modules])]
  BY InstallerAssumption
<1>2. ASSUME NEW k \in Kits PROVE sel(k) \in Seq(Selections)
  <2>1. r.select[k] \in Seq([name : Names, module : Modules])
    BY <1>1
  <2>2. \A i \in 1..Len(r.select[k]) : r.select[k][i] \in [name : Names, module : Modules]
    BY <2>1, ElementOfSeq
  <2>3. Len(r.select[k]) \in Nat
    BY <2>1, LenProperties
  <2>4. sel(k) \in [1..Len(r.select[k]) -> Selections]
    BY <2>2 DEF Selections
  <2> QED BY <2>3, <2>4, SeqDef
<1>3. [k \in Kits |-> sel(k)] \in [Kits -> Seq(Selections)]
  BY <1>2
<1> QED BY <1>1, <1>3 DEF Resolved, PlanTypes

LEMMA ItemsType ==
  ASSUME NEW q \in PlanTypes
  PROVE  /\ PendingItems(q) \subseteq AllItems(q)
         /\ AllItems(q) \subseteq Items
         /\ ChangedKits(q) \in SUBSET Nat
BY DEF PendingItems, AllItems, ItemsOf, Items, ChangedKits, PlanTypes

\* An item of a plan names a kit, an archive and a release.
LEMMA ItemType ==
  ASSUME NEW q \in PlanTypes, NEW x \in AllItems(q)
  PROVE  /\ x[1] \in 1..Len(q.kits) /\ q.kits[x[1]] \in Kits
         /\ x[2] \in 1..Len(q.select[q.kits[x[1]]])
         /\ q.select[q.kits[x[1]]][x[2]] \in Selections
         /\ x[3] \in DOMAIN ArchivesOf[q.select[q.kits[x[1]]][x[2]].name]
         /\ ArchivesOf[q.select[q.kits[x[1]]][x[2]].name][x[3]] \in Archives
<1>1. q.kits \in Seq(Kits) /\ q.select \in [Kits -> Seq(Selections)]
  BY DEF PlanTypes
<1>0. PICK i \in 1..Len(q.kits) : \E j \in 1..Len(q.select[q.kits[i]]) :
        \E a \in 1..Len(ArchivesOf[q.select[q.kits[i]][j].name]) : x = <<i, j, a>>
  <2> DEFINE S(i, j) == {<<i, j, a>> : a \in 1..Len(ArchivesOf[q.select[q.kits[i]][j].name])}
             T(i) == UNION {S(i, j) : j \in {j \in 1..Len(q.select[q.kits[i]]) : TRUE}}
  <2>1. AllItems(q) = UNION {T(i) : i \in 1..Len(q.kits)}
    BY DEF AllItems, ItemsOf
  <2>2. PICK i \in 1..Len(q.kits) : x \in T(i)
    BY <2>1
  <2>3. PICK j \in 1..Len(q.select[q.kits[i]]) : x \in S(i, j)
    BY <2>2
  <2> QED BY <2>3
<1>2. PICK j \in 1..Len(q.select[q.kits[i]]) :
        \E a \in 1..Len(ArchivesOf[q.select[q.kits[i]][j].name]) : x = <<i, j, a>>
  BY <1>0
<1>3. x[1] = i /\ x[2] = j /\ x[3] \in 1..Len(ArchivesOf[q.select[q.kits[i]][j].name])
  BY <1>2
<1>4. q.kits[i] \in Kits
  BY <1>1, ElementOfSeq
<1>5. q.select[q.kits[i]] \in Seq(Selections)
  BY <1>1, <1>4
<1>6. q.select[q.kits[i]][j] \in Selections
  BY <1>5, ElementOfSeq
<1>7. q.select[q.kits[i]][j].name \in Names
  BY <1>6 DEF Selections
<1>8. ArchivesOf[q.select[q.kits[i]][j].name] \in Seq(Archives)
  BY <1>7, InstallerAssumption
<1>9. ArchivesOf[q.select[q.kits[i]][j].name][x[3]] \in Archives
  BY <1>8, <1>3, ElementOfSeq
<1>10. x[3] \in DOMAIN ArchivesOf[q.select[q.kits[i]][j].name]
  BY <1>8, <1>3, LenProperties
<1> QED BY <1>3, <1>4, <1>6, <1>9, <1>10

LEMMA PackagesOfType ==
  ASSUME TypeOK, NEW k \in Kits
  PROVE  PackagesOf(k) \in Packages
BY NoPackagesType DEF TypeOK, PackagesOf

-----------------------------------------------------------------------------
(* Types.                                                                  *)

LEMMA InitType == Init => TypeOK
<1> SUFFICES ASSUME Init PROVE TypeOK
  OBVIOUS
<1>1. files \in [Kits -> [Archives -> Contents]]
  BY DEF Init, LegacyFiles, Contents
<1>2. relocated \in [Kits -> SUBSET Archives]
  BY InstallerAssumption DEF Init
<1>3. NoPlan \in PlanTypes
  <2>1. <<>> \in Seq(Kits) /\ <<>> \in Seq(Selections)
    OBVIOUS
  <2> QED BY <2>1 DEF NoPlan, PlanTypes, Modes
<1> QED BY <1>1, <1>2, <1>3, NoPackagesType DEF Init, TypeOK, Phases, Results

\* The archives a process has left, and those it extracts, are of its plan.
ItemsPlanned ==
  \A p \in Procs :
    /\ todo[p] \subseteq AllItems(plan[p])
    /\ pending[p] \subseteq AllItems(plan[p])
    /\ pc[p] = "idle" => todo[p] = {} /\ pending[p] = {}

LEMMA TypeStep == TypeOK /\ ItemsPlanned /\ [Next]_vars => TypeOK'
<1> SUFFICES ASSUME TypeOK, ItemsPlanned, [Next]_vars PROVE TypeOK'
  OBVIOUS
<1> USE DEF TypeOK, disk, local, Goto, Phases, Results
<1>1. ASSUME NEW p \in Procs, Start(p) PROVE TypeOK'
  <2>1. PICK r \in Requests, v \in Releases :
          /\ plan' = [plan EXCEPT ![p] = Resolved(r, v)]
          /\ IF r.mode = "download-only"
             THEN /\ Goto(p, "idle", "fetch")
                  /\ todo' = [todo EXCEPT ![p] = AllItems(Resolved(r, v))]
             ELSE /\ Goto(p, "idle", "waiting")
                  /\ UNCHANGED todo
          /\ UNCHANGED <<disk, lock, records, changed, pending, kitsLeft, result>>
    BY <1>1 DEF Start
  <2>2. Resolved(r, v) \in PlanTypes /\ AllItems(Resolved(r, v)) \subseteq Items
    BY ResolvedType, ItemsType
  <2> QED BY <2>1, <2>2
<1>2. ASSUME NEW p \in Procs, Acquire(p) PROVE TypeOK'
  BY <1>2 DEF Acquire
<1>3. ASSUME NEW p \in Procs, Reconcile(p) PROVE TypeOK'
  <2>1. plan[p] \in PlanTypes
    OBVIOUS
  <2>2. PendingItems(plan[p]) \subseteq Items /\ ChangedKits(plan[p]) \in SUBSET Nat
    BY <2>1, ItemsType
  <2>3. ASSUME NEW k \in Kits PROVE Recorded(PackagesOf(k), plan[p].select[k]) \in Packages
    BY <2>1, PackagesOfType, RecordedType DEF PlanTypes
  <2> QED BY <1>3, <2>2, <2>3, Zenon DEF Reconcile
<1>4. ASSUME NEW p \in Procs, Reject(p) PROVE TypeOK'
  BY <1>4 DEF Reject
<1>5. ASSUME NEW p \in Procs, SelectAll(p) PROVE TypeOK'
  <2>1. AllItems(plan[p]) \subseteq Items
    BY ItemsType
  <2> QED BY <1>5, <2>1 DEF SelectAll
<1>6. ASSUME NEW p \in Procs, Fetch(p) \/ Fetched(p) PROVE TypeOK'
  <2>1. CASE Fetch(p)
    <3>1. PICK x \in todo[p] : todo' = [todo EXCEPT ![p] = @ \ {x}]
      BY <2>1 DEF Fetch
    <3>2. todo' \in [Procs -> SUBSET Items]
      BY <3>1
    <3> QED BY <2>1, <3>2 DEF Fetch
  <2>2. CASE Fetched(p) /\ plan[p].mode = "download-only"
    BY <2>2 DEF Fetched
  <2>3. CASE Fetched(p) /\ plan[p].mode # "download-only"
    <3>1. todo' \in [Procs -> SUBSET Items]
      BY <2>3 DEF Fetched
    <3> QED BY <2>3, <3>1 DEF Fetched
  <2> QED BY <1>6, <2>1, <2>2, <2>3
<1>7. ASSUME NEW p \in Procs, BeginExtract(p) PROVE TypeOK'
  <2>1. PICK x \in todo[p] :
          /\ files' = [files EXCEPT ![KitAt(p, x[1])][ArchiveAt(p, x)] = Torn]
          /\ relocated' = [relocated EXCEPT ![KitAt(p, x[1])] = @ \ {ArchiveAt(p, x)}]
    BY <1>7 DEF BeginExtract
  <2>2. files' \in [Kits -> [Archives -> Contents]]
    BY <2>1 DEF Contents
  <2>3. relocated' \in [Kits -> SUBSET Archives]
    BY <2>1
  <2> QED BY <1>7, <2>2, <2>3 DEF BeginExtract
<1>8. ASSUME NEW p \in Procs, EndExtract(p) PROVE TypeOK'
  <2>1. PICK x \in todo[p] :
          /\ files' = [files EXCEPT ![KitAt(p, x[1])][ArchiveAt(p, x)] =
                                      SelectionAt(p, x).version]
          /\ todo' = [todo EXCEPT ![p] = @ \ {x}]
    BY <1>8 DEF EndExtract
  <2>2. SelectionAt(p, x).version \in Releases
    <3>1. x \in AllItems(plan[p])
      BY DEF ItemsPlanned
    <3>2. SelectionAt(p, x) \in Selections
      BY <3>1, ItemType DEF SelectionAt, KitAt
    <3> QED BY <3>2 DEF Selections
  <2>3. files' \in [Kits -> [Archives -> Contents]]
    BY <2>1, <2>2 DEF Contents
  <2> QED BY <1>8, <2>1, <2>3 DEF EndExtract
<1>9. ASSUME NEW p \in Procs, Extracted(p) PROVE TypeOK'
  <2>1. CASE plan[p].mode = "extract-only"
    BY <1>9, <2>1 DEF Extracted
  <2>2. CASE plan[p].mode # "extract-only"
    BY <1>9, <2>2 DEF Extracted
  <2> QED BY <2>1, <2>2
<1>10. ASSUME NEW p \in Procs, Relocate(p) PROVE TypeOK'
  <2>1. PICK i \in kitsLeft[p] :
          /\ relocated' = [relocated EXCEPT ![KitAt(p, i)] = Present(KitAt(p, i))]
          /\ kitsLeft' = [kitsLeft EXCEPT ![p] = @ \ {i}]
    BY <1>10 DEF Relocate
  <2>2. relocated' \in [Kits -> SUBSET Archives]
    BY <2>1 DEF Present
  <2> QED BY <1>10, <2>1, <2>2 DEF Relocate
<1>11. ASSUME NEW p \in Procs, RelocateFails(p) PROVE TypeOK'
  <2>1. PICK k, S : /\ S \in SUBSET Present(k)
                    /\ relocated' = [relocated EXCEPT ![k] = @ \cup S]
    BY <1>11 DEF RelocateFails
  <2>2. relocated' \in [Kits -> SUBSET Archives]
    BY <2>1 DEF Present
  <2> QED BY <1>11, <2>2 DEF RelocateFails
<1>12. ASSUME NEW p \in Procs, Relocated(p) PROVE TypeOK'
  BY <1>12 DEF Relocated
<1>13. ASSUME NEW p \in Procs, Commit(p) PROVE TypeOK'
  <2>1. PICK i \in kitsLeft[p] :
          /\ manifest' = [manifest EXCEPT ![KitAt(p, i)] = records[p][KitAt(p, i)]]
          /\ kitsLeft' = [kitsLeft EXCEPT ![p] = @ \ {i}]
    BY <1>13 DEF Commit
  <2>2. manifest' \in [Kits -> Packages \cup {NoManifest}]
    BY <2>1
  <2> QED BY <1>13, <2>1, <2>2 DEF Commit
<1>14. ASSUME NEW p \in Procs, Committed(p) \/ Release(p) PROVE TypeOK'
  BY <1>14 DEF Committed, Release
<1>15. ASSUME NEW p \in Procs, Fail(p) PROVE TypeOK'
  <2>1. CASE lock = p
    BY <1>15, <2>1 DEF Fail
  <2>2. CASE lock # p
    BY <1>15, <2>2 DEF Fail
  <2> QED BY <2>1, <2>2
<1>16. ASSUME NEW p \in Procs, Crash(p) PROVE TypeOK'
  BY <1>16 DEF Crash
<1>17. CASE UNCHANGED vars
  BY <1>17 DEF vars
<1> QED
  BY <1>1, <1>2, <1>3, <1>4, <1>5, <1>6, <1>7, <1>8, <1>9, <1>10, <1>11, <1>12,
     <1>13, <1>14, <1>15, <1>16, <1>17 DEF Next, Step, Done

LEMMA ItemsStep == TypeOK /\ ItemsPlanned /\ [Next]_vars => ItemsPlanned'
<1> SUFFICES ASSUME TypeOK, ItemsPlanned, [Next]_vars PROVE ItemsPlanned'
  OBVIOUS
<1> USE DEF TypeOK, ItemsPlanned, disk, local, Goto
<1>1. ASSUME NEW p \in Procs, Start(p) PROVE ItemsPlanned'
  <2>1. PICK r \in Requests, v \in Releases :
          /\ plan' = [plan EXCEPT ![p] = Resolved(r, v)]
          /\ IF r.mode = "download-only"
             THEN /\ Goto(p, "idle", "fetch")
                  /\ todo' = [todo EXCEPT ![p] = AllItems(Resolved(r, v))]
             ELSE /\ Goto(p, "idle", "waiting")
                  /\ UNCHANGED todo
          /\ UNCHANGED <<disk, lock, records, changed, pending, kitsLeft, result>>
    BY <1>1 DEF Start
  <2>2. pc[p] = "idle" /\ todo[p] = {} /\ pending[p] = {}
    BY <2>1
  <2>3. plan'[p] = Resolved(r, v) /\ pending'[p] = {} /\ pc'[p] # "idle"
        /\ (todo'[p] = {} \/ todo'[p] = AllItems(Resolved(r, v)))
    BY <2>1, <2>2
  <2>4. \A q \in Procs \ {p} : plan'[q] = plan[q] /\ pending'[q] = pending[q]
                              /\ pc'[q] = pc[q] /\ todo'[q] = todo[q]
    BY <2>1
  <2> QED BY <2>3, <2>4
<1>2. ASSUME NEW p \in Procs, Reconcile(p) PROVE ItemsPlanned'
  <2>1. plan' = plan /\ pc[p] = "reconcile" /\ pc' \in [Procs -> Phases] /\ pc'[p] # "idle"
    BY <1>2 DEF Reconcile, Phases
  <2>2. \/ todo' = todo /\ pending' = pending
        \/ /\ todo' = [todo EXCEPT ![p] = PendingItems(plan[p])]
           /\ pending' = [pending EXCEPT ![p] = PendingItems(plan[p])]
    BY <1>2 DEF Reconcile
  <2>3. PendingItems(plan[p]) \subseteq AllItems(plan[p])
    BY ItemsType
  <2>4. \A q \in Procs \ {p} : pc'[q] = pc[q]
    BY <1>2 DEF Reconcile
  <2> QED BY <2>1, <2>2, <2>3, <2>4
<1>3. ASSUME NEW p \in Procs, SelectAll(p) PROVE ItemsPlanned'
  BY <1>3 DEF SelectAll
<1>4. ASSUME NEW p \in Procs, Fetch(p) PROVE ItemsPlanned'
  BY <1>4 DEF Fetch
<1>5. ASSUME NEW p \in Procs, Fetched(p) PROVE ItemsPlanned'
  <2>1. CASE plan[p].mode = "download-only"
    BY <1>5, <2>1 DEF Fetched
  <2>2. CASE plan[p].mode # "download-only"
    BY <1>5, <2>2 DEF Fetched
  <2> QED BY <2>1, <2>2
<1>6. ASSUME NEW p \in Procs, EndExtract(p) PROVE ItemsPlanned'
  BY <1>6 DEF EndExtract
<1>7. ASSUME NEW p \in Procs, Extracted(p) PROVE ItemsPlanned'
  <2>1. CASE plan[p].mode = "extract-only"
    BY <1>7, <2>1 DEF Extracted
  <2>2. CASE plan[p].mode # "extract-only"
    BY <1>7, <2>2 DEF Extracted
  <2> QED BY <2>1, <2>2
<1>8. ASSUME NEW p \in Procs,
             \/ Acquire(p) \/ Reject(p) \/ BeginExtract(p) \/ Relocate(p)
             \/ RelocateFails(p) \/ Relocated(p) \/ Commit(p) \/ Committed(p)
             \/ Release(p) \/ Fail(p) \/ Crash(p)
      PROVE  ItemsPlanned'
  <2>1. plan' = plan /\ todo' = todo /\ pending' = pending
    BY <1>8 DEF Acquire, Reject, BeginExtract, Relocate, RelocateFails, Relocated,
                Commit, Committed, Release, Fail, Crash
  <2>2. \A q \in Procs : pc'[q] = "idle" => pc[q] = "idle"
    BY <1>8 DEF Acquire, Reject, BeginExtract, Relocate, RelocateFails, Relocated,
                Commit, Committed, Release, Fail, Crash
  <2> QED BY <2>1, <2>2
<1>9. CASE UNCHANGED vars
  BY <1>9 DEF vars
<1> QED
  BY <1>1, <1>2, <1>3, <1>4, <1>5, <1>6, <1>7, <1>8, <1>9 DEF Next, Step, Done

-----------------------------------------------------------------------------
(* The version lock.                                                       *)

\* A download-only request never queues for the lock, and only an installation
\* relocates and commits.
LockedModes ==
  \A p \in Procs :
    /\ pc[p] \in LockedPhases \cup {"waiting"} => plan[p].mode # "download-only"
    /\ pc[p] \in {"relocate", "commit"} => plan[p].mode = "install"

LEMMA ModesStep == TypeOK /\ LockedModes /\ OneMaterializer /\ [Next]_vars => LockedModes'
<1> SUFFICES ASSUME TypeOK, LockedModes, OneMaterializer, [Next]_vars PROVE LockedModes'
  OBVIOUS
<1> USE DEF TypeOK, LockedModes, LockedPhases, disk, local, Goto
<1>1. ASSUME NEW p \in Procs, Start(p) PROVE LockedModes'
  <2>1. PICK r \in Requests, v \in Releases :
          /\ plan' = [plan EXCEPT ![p] = Resolved(r, v)]
          /\ IF r.mode = "download-only"
             THEN pc' = [pc EXCEPT ![p] = "fetch"]
             ELSE pc' = [pc EXCEPT ![p] = "waiting"]
    BY <1>1 DEF Start
  <2>2. plan'[p].mode = r.mode
    BY <2>1 DEF Resolved
  <2>3. pc'[p] = IF r.mode = "download-only" THEN "fetch" ELSE "waiting"
    BY <2>1
  <2>4. \A q \in Procs \ {p} : plan'[q] = plan[q] /\ pc'[q] = pc[q]
    BY <2>1
  <2> QED BY <2>2, <2>3, <2>4
<1>2. ASSUME plan' = plan,
             NEW p \in Procs, NEW ph \in Phases, pc' = [pc EXCEPT ![p] = ph],
             ph \in LockedPhases \cup {"waiting"} => plan[p].mode # "download-only",
             ph \in {"relocate", "commit"} => plan[p].mode = "install"
      PROVE  LockedModes'
  BY <1>2
<1>3. ASSUME NEW p \in Procs, Acquire(p) PROVE LockedModes'
  BY <1>2, <1>3 DEF Acquire, Phases
<1>4. ASSUME NEW p \in Procs, Reconcile(p) \/ Reject(p) \/ SelectAll(p)
      PROVE  LockedModes'
  <2>1. plan' = plan /\ plan[p].mode # "download-only"
        /\ \/ pc' = [pc EXCEPT ![p] = "fetch"]
           \/ pc' = [pc EXCEPT ![p] = "release"]
    BY <1>4 DEF Reconcile, Reject, SelectAll
  <2> QED BY <1>2, <2>1 DEF Phases
<1>5. ASSUME NEW p \in Procs, Fetched(p) PROVE LockedModes'
  BY <1>2, <1>5 DEF Fetched, Phases
<1>6. ASSUME NEW p \in Procs, BeginExtract(p) \/ EndExtract(p) PROVE LockedModes'
  <2>1. plan' = plan /\ plan[p].mode # "download-only"
        /\ \/ pc' = [pc EXCEPT ![p] = "extract"]
           \/ pc' = [pc EXCEPT ![p] = "extracting"]
    BY <1>6 DEF BeginExtract, EndExtract
  <2> QED BY <1>2, <2>1 DEF Phases
<1>7. ASSUME NEW p \in Procs, Extracted(p) PROVE LockedModes'
  <2>1. plan[p].mode \in Modes
    BY DEF PlanTypes
  <2>2. plan' = plan /\ plan[p].mode # "download-only"
        /\ \/ pc' = [pc EXCEPT ![p] = "release"]
           \/ pc' = [pc EXCEPT ![p] = "relocate"] /\ plan[p].mode # "extract-only"
    BY <1>7 DEF Extracted
  <2> QED BY <1>2, <2>1, <2>2 DEF Phases, Modes
<1>8. ASSUME NEW p \in Procs, RelocateFails(p) \/ Relocated(p) \/ Committed(p) \/ Release(p)
      PROVE  LockedModes'
  <2>1. plan' = plan
        /\ \/ pc' = [pc EXCEPT ![p] = "done"]
           \/ /\ plan[p].mode = "install"
              /\ \/ pc' = [pc EXCEPT ![p] = "release"]
                 \/ pc' = [pc EXCEPT ![p] = "commit"]
    BY <1>8 DEF RelocateFails, Relocated, Committed, Release
  <2> QED BY <1>2, <2>1 DEF Phases
<1>9. ASSUME NEW p \in Procs, Fail(p) \/ Crash(p) PROVE LockedModes'
  <2>1. lock = p => plan[p].mode # "download-only"
    BY DEF OneMaterializer, InsideLock
  <2>2. plan' = plan
        /\ \/ pc' = [pc EXCEPT ![p] = "done"]
           \/ pc' = [pc EXCEPT ![p] = "release"] /\ lock = p
    BY <1>9 DEF Fail, Crash
  <2> QED BY <1>2, <2>1, <2>2 DEF Phases
<1>10. ASSUME NEW p \in Procs, Fetch(p) \/ Relocate(p) \/ Commit(p)
       PROVE  LockedModes'
  BY <1>10 DEF Fetch, Relocate, Commit
<1>11. CASE UNCHANGED vars
  BY <1>11 DEF vars
<1> QED
  BY <1>1, <1>3, <1>4, <1>5, <1>6, <1>7, <1>8, <1>9, <1>10, <1>11 DEF Next, Step, Done

LEMMA LockStep ==
  TypeOK /\ LockedModes /\ OneMaterializer /\ [Next]_vars => OneMaterializer'
<1> SUFFICES ASSUME TypeOK, LockedModes, OneMaterializer, [Next]_vars
             PROVE  OneMaterializer'
  OBVIOUS
<1> USE DEF TypeOK, OneMaterializer, InsideLock, LockedPhases, disk, local, Goto
<1>1. ASSUME NEW p \in Procs, Start(p) PROVE OneMaterializer'
  <2>1. PICK r \in Requests, v \in Releases :
          /\ plan' = [plan EXCEPT ![p] = Resolved(r, v)]
          /\ IF r.mode = "download-only"
             THEN Goto(p, "idle", "fetch") ELSE Goto(p, "idle", "waiting")
          /\ lock' = lock
    BY <1>1 DEF Start
  <2>2. plan'[p].mode = r.mode
    BY <2>1 DEF Resolved
  <2>3. pc[p] = "idle" /\ pc'[p] = IF r.mode = "download-only" THEN "fetch" ELSE "waiting"
    BY <2>1
  <2>4. ~InsideLock(p) /\ ~InsideLock(p)'
    BY <2>2, <2>3
  <2>5. \A q \in Procs \ {p} : plan'[q] = plan[q] /\ pc'[q] = pc[q]
    BY <2>1
  <2> QED BY <2>1, <2>4, <2>5
<1>2. ASSUME NEW p \in Procs, Acquire(p) PROVE OneMaterializer'
  <2>1. lock = Nobody /\ lock' = p /\ plan' = plan /\ pc' = [pc EXCEPT ![p] = "reconcile"]
    BY <1>2 DEF Acquire
  <2>2. \A q \in Procs : ~InsideLock(q)
    BY <2>1, InstallerAssumption
  <2> QED BY <2>1, <2>2
<1>3. ASSUME NEW p \in Procs, lock' = lock, plan' = plan,
             pc'[p] = pc[p] \/ (InsideLock(p) <=> InsideLock(p)'),
             \A q \in Procs \ {p} : pc'[q] = pc[q]
      PROVE  OneMaterializer'
  BY <1>3
<1>4. ASSUME NEW p \in Procs, lock' = (IF lock = p THEN Nobody ELSE lock), plan' = plan,
             pc' = [pc EXCEPT ![p] = "done"]
      PROVE  OneMaterializer'
  BY <1>4, InstallerAssumption
<1>5. ASSUME NEW p \in Procs, Reconcile(p) \/ Reject(p) \/ SelectAll(p)
      PROVE  OneMaterializer'
  <2>1. lock' = lock /\ plan' = plan /\ plan[p].mode # "download-only"
        /\ pc[p] = "reconcile" /\ pc'[p] \in {"fetch", "release"}
        /\ \A q \in Procs \ {p} : pc'[q] = pc[q]
    BY <1>5 DEF Reconcile, Reject, SelectAll
  <2> QED BY <1>3, <2>1
<1>6. ASSUME NEW p \in Procs, Fetched(p) PROVE OneMaterializer'
  <2>1. lock' = lock /\ plan' = plan /\ pc[p] = "fetch"
        /\ pc'[p] = (IF plan[p].mode = "download-only" THEN "done" ELSE "extract")
        /\ \A q \in Procs \ {p} : pc'[q] = pc[q]
    BY <1>6 DEF Fetched
  <2> QED BY <1>3, <2>1
<1>7. ASSUME NEW p \in Procs,
             \/ BeginExtract(p) \/ EndExtract(p) \/ Extracted(p)
             \/ RelocateFails(p) \/ Relocated(p) \/ Committed(p)
      PROVE  OneMaterializer'
  <2>1. lock' = lock /\ plan' = plan /\ pc[p] \in LockedPhases /\ pc'[p] \in LockedPhases
        /\ \A q \in Procs \ {p} : pc'[q] = pc[q]
    BY <1>7 DEF BeginExtract, EndExtract, Extracted, RelocateFails, Relocated, Committed
  <2> QED BY <1>3, <2>1
<1>8. ASSUME NEW p \in Procs, Release(p) PROVE OneMaterializer'
  <2>1. pc[p] = "release" /\ lock' = Nobody /\ plan' = plan
        /\ pc' = [pc EXCEPT ![p] = "done"]
    BY <1>8 DEF Release
  <2>2. lock = p
    BY <2>1
  <2> QED BY <1>4, <2>1, <2>2
<1>9. ASSUME NEW p \in Procs, Fail(p) PROVE OneMaterializer'
  <2>1. CASE lock = p
    <3>1. InsideLock(p)
      BY <2>1
    <3>2. lock' = lock /\ plan' = plan /\ pc'[p] = "release"
          /\ \A q \in Procs \ {p} : pc'[q] = pc[q]
      BY <1>9, <2>1 DEF Fail
    <3> QED BY <1>3, <3>1, <3>2
  <2>2. CASE lock # p
    <3>1. lock' = lock /\ plan' = plan /\ pc' = [pc EXCEPT ![p] = "done"]
      BY <1>9, <2>2 DEF Fail
    <3> QED BY <1>4, <2>2, <3>1
  <2> QED BY <2>1, <2>2
<1>10. ASSUME NEW p \in Procs, Crash(p) PROVE OneMaterializer'
  BY <1>4, <1>10 DEF Crash
<1>11. ASSUME NEW p \in Procs, Fetch(p) \/ Relocate(p) \/ Commit(p)
       PROVE  OneMaterializer'
  BY <1>11 DEF Fetch, Relocate, Commit
<1>12. CASE UNCHANGED vars
  BY <1>12 DEF vars
<1> QED
  BY <1>1, <1>2, <1>5, <1>6, <1>7, <1>8, <1>9, <1>10, <1>11, <1>12 DEF Next, Step, Done

IInv == TypeOK /\ ItemsPlanned /\ LockedModes /\ OneMaterializer

LEMMA InitIInv == Init => IInv
<1> SUFFICES ASSUME Init PROVE IInv
  OBVIOUS
<1>1. TypeOK
  BY InitType
<1>2. ItemsPlanned /\ LockedModes /\ OneMaterializer
  BY <1>1, InstallerAssumption
  DEF Init, ItemsPlanned, LockedModes, OneMaterializer, InsideLock, LockedPhases
<1> QED BY <1>1, <1>2 DEF IInv

LEMMA IInvStep == IInv /\ [Next]_vars => IInv'
BY TypeStep, ItemsStep, ModesStep, LockStep DEF IInv

LEMMA IInvHolds == Spec => []IInv
BY InitIInv, IInvStep, PTL DEF Spec

\* Every variable keeps its type; a plan's archives are the only ones a process
\* handles.
THEOREM TypeCorrect == Spec => []TypeOK
<1>1. IInv => TypeOK
  BY DEF IInv
<1> QED BY <1>1, IInvHolds, PTL

\* One process at a time is between acquiring and releasing the version lock,
\* and it is the lock's owner, for any number of processes, crashes included.
THEOREM OneMaterializerHolds == Spec => []OneMaterializer
<1>1. IInv => OneMaterializer
  BY DEF IInv
<1> QED BY <1>1, IInvHolds, PTL

-----------------------------------------------------------------------------
(* Kits change under the lock.                                             *)

LEMMA KitsStep ==
  IInv /\ [Next]_vars =>
    (disk' # disk =>
       \E p \in Procs : lock = p /\ plan[p].mode # "download-only" /\ Moves(p))
<1> SUFFICES ASSUME IInv, [Next]_vars, disk' # disk
             PROVE  \E p \in Procs : lock = p /\ plan[p].mode # "download-only" /\ Moves(p)
  OBVIOUS
<1> USE DEF IInv, TypeOK, Goto, Moves
<1>1. ASSUME NEW p \in Procs, pc[p] \in LockedPhases
      PROVE  lock = p /\ plan[p].mode # "download-only"
  BY <1>1 DEF OneMaterializer, InsideLock, LockedModes
<1>2. ASSUME NEW p \in Procs, BeginExtract(p) \/ EndExtract(p) \/ RelocateFails(p)
      PROVE  pc[p] \in LockedPhases /\ Moves(p)
  <2>1. pc[p] \in LockedPhases /\ pc'[p] # pc[p]
    BY <1>2 DEF BeginExtract, EndExtract, RelocateFails, LockedPhases
  <2> QED BY <2>1
<1>3. ASSUME NEW p \in Procs, Relocate(p) \/ Commit(p)
      PROVE  pc[p] \in LockedPhases /\ Moves(p)
  <2>1. pc[p] \in LockedPhases
        /\ \E i \in kitsLeft[p] : kitsLeft' = [kitsLeft EXCEPT ![p] = @ \ {i}]
    BY <1>3 DEF Relocate, Commit, LockedPhases
  <2> QED BY <2>1
<1>4. \E p \in Procs : \/ BeginExtract(p) \/ EndExtract(p) \/ RelocateFails(p)
                       \/ Relocate(p) \/ Commit(p)
  BY DEF Next, Step, Done, vars, Start, Acquire, Reconcile, Reject, SelectAll, Fetch,
         Fetched, Extracted, Relocated, Committed, Release, Fail, Crash
<1> QED BY <1>1, <1>2, <1>3, <1>4

\* Only the owner of the version lock, and never a download-only request,
\* changes a kit's files or manifests.
THEOREM KitsChangeOnlyUnderLock == Spec => KitsChangeUnderLock
<1>1. IInv /\ [Next]_vars =>
        [disk' # disk =>
           \E p \in Procs : lock = p /\ plan[p].mode # "download-only" /\ Moves(p)]_vars
  BY KitsStep
<1> QED BY <1>1, IInvHolds, PTL DEF Spec, KitsChangeUnderLock

-----------------------------------------------------------------------------
(***************************************************************************)
(* What the manifests say.  Installer implements Registry: the manifests   *)
(* that concurrent processes compute early and publish late are those of   *)
(* requests applied one after the other.  And a manifest is published only *)
(* when the packages of every kit of the request are extracted and         *)
(* relocated.                                                              *)
(***************************************************************************)

\* A process that runs has resolved one of the requests.
PlannedFromRequest ==
  \A p \in Procs : pc[p] # "idle" =>
    \E r \in Requests, v \in Releases : plan[p] = Resolved(r, v)

Unfinished == {"fetch", "extract", "extracting", "relocate", "commit"}

\* What an installation is about to record for a kit is its selection applied to
\* the manifest of this moment, or it is recorded already.
RecordsServe ==
  \A p \in Procs : plan[p].mode = "install" /\ pc[p] \in Unfinished =>
    /\ changed[p] \subseteq 1..Len(plan[p].kits)
    /\ pc[p] \in {"relocate", "commit"} => kitsLeft[p] \subseteq 1..Len(plan[p].kits)
    /\ \A k \in Kits :
         \/ records[p][k] = Recorded(PackagesOf(k), plan[p].select[k])
         \/ manifest[k] = records[p][k]

SInv == IInv /\ PlannedFromRequest /\ RecordsServe

-----------------------------------------------------------------------------

LEMMA PlannedStep ==
  IInv /\ PlannedFromRequest /\ [Next]_vars => PlannedFromRequest'
<1> SUFFICES ASSUME IInv, PlannedFromRequest, [Next]_vars PROVE PlannedFromRequest'
  OBVIOUS
<1> USE DEF IInv, TypeOK, PlannedFromRequest, Goto, disk, local
<1>1. ASSUME NEW p \in Procs, Start(p) PROVE PlannedFromRequest'
  <2>1. PICK r \in Requests, v \in Releases :
          /\ plan' = [plan EXCEPT ![p] = Resolved(r, v)]
          /\ \A q \in Procs \ {p} : pc'[q] = pc[q]
    BY <1>1 DEF Start
  <2>2. plan'[p] = Resolved(r, v)
    BY <2>1
  <2>3. \A q \in Procs \ {p} : plan'[q] = plan[q] /\ pc'[q] = pc[q]
    BY <2>1
  <2> QED BY <2>2, <2>3
<1>2. ASSUME NEW p \in Procs, Step(p) \/ Fail(p) \/ Crash(p) PROVE PlannedFromRequest'
  <2>1. plan' = plan
    BY <1>2 DEF Step, Acquire, Reconcile, Reject, SelectAll, Fetch, Fetched, BeginExtract,
       EndExtract, Extracted, Relocate, RelocateFails, Relocated, Commit, Committed,
       Release, Fail, Crash
  <2>2. pc[p] # "idle" /\ \A q \in Procs \ {p} : pc'[q] = pc[q]
    BY <1>2 DEF Step, Acquire, Reconcile, Reject, SelectAll, Fetch, Fetched, BeginExtract,
       EndExtract, Extracted, Relocate, RelocateFails, Relocated, Commit, Committed,
       Release, Fail, Crash
  <2> QED BY <2>1, <2>2
<1>3. CASE UNCHANGED vars
  BY <1>3 DEF vars
<1> QED BY <1>1, <1>2, <1>3 DEF Next, Done

LEMMA RecordsStep == IInv /\ RecordsServe /\ [Next]_vars => RecordsServe'
<1> SUFFICES ASSUME IInv, RecordsServe, [Next]_vars,
                    NEW p \in Procs, plan'[p].mode = "install", pc'[p] \in Unfinished
             PROVE  /\ changed'[p] \subseteq 1..Len(plan'[p].kits)
                    /\ pc'[p] \in {"relocate", "commit"} =>
                         kitsLeft'[p] \subseteq 1..Len(plan'[p].kits)
                    /\ \A k \in Kits :
                         \/ records'[p][k] = Recorded(PackagesOf(k)', plan'[p].select[k])
                         \/ manifest'[k] = records'[p][k]
  BY DEF RecordsServe
<1> DEFINE Serves == /\ changed'[p] \subseteq 1..Len(plan'[p].kits)
                     /\ pc'[p] \in {"relocate", "commit"} =>
                          kitsLeft'[p] \subseteq 1..Len(plan'[p].kits)
                     /\ \A k \in Kits :
                          \/ records'[p][k] = Recorded(PackagesOf(k)', plan'[p].select[k])
                          \/ manifest'[k] = records'[p][k]
<1> USE DEF IInv, TypeOK, Goto, disk, local
<1>1. ASSUME plan'[p] = plan[p], pc[p] \in Unfinished, changed'[p] = changed[p],
             records'[p] = records[p], manifest' = manifest,
             pc'[p] \in {"relocate", "commit"} =>
               \/ kitsLeft'[p] \subseteq changed[p]
               \/ pc[p] = pc'[p] /\ kitsLeft'[p] \subseteq kitsLeft[p]
      PROVE  Serves
  BY <1>1 DEF RecordsServe, PackagesOf
<1>2. ASSUME NEW q \in Procs \ {p}, Start(q) \/ Step(q) \/ Fail(q) \/ Crash(q)
      PROVE  Serves
  <2>1. plan'[p] = plan[p] /\ pc'[p] = pc[p] /\ changed'[p] = changed[p]
        /\ records'[p] = records[p] /\ kitsLeft'[p] = kitsLeft[p]
    BY <1>2 DEF Start, Step, Acquire, Reconcile, Reject, SelectAll, Fetch, Fetched,
       BeginExtract, EndExtract, Extracted, Relocate, RelocateFails, Relocated, Commit,
       Committed, Release, Fail, Crash
  <2>2. lock = p
    BY <2>1 DEF OneMaterializer, InsideLock, LockedPhases, Unfinished
  <2>3. ~Commit(q)
    BY <2>2 DEF Commit, OneMaterializer, InsideLock, LockedPhases
  <2>4. manifest' = manifest
    BY <1>2, <2>3 DEF Start, Step, Acquire, Reconcile, Reject, SelectAll, Fetch, Fetched,
       BeginExtract, EndExtract, Extracted, Relocate, RelocateFails, Relocated,
       Committed, Release, Fail, Crash
  <2> QED BY <1>1, <2>1, <2>4
<1>3. CASE Reconcile(p)
  <2>1. plan' = plan /\ manifest' = manifest /\ pc'[p] = "fetch"
        /\ changed'[p] = ChangedKits(plan[p])
        /\ \A k \in Kits : records'[p][k] = Recorded(PackagesOf(k), plan[p].select[k])
    BY <1>3 DEF Reconcile, Unfinished
  <2>2. changed'[p] \subseteq 1..Len(plan[p].kits)
    BY <2>1 DEF ChangedKits
  <2> QED BY <2>1, <2>2 DEF PackagesOf
<1>4. CASE Fetch(p) \/ Fetched(p) \/ BeginExtract(p) \/ EndExtract(p)
  <2>1. pc'[p] \notin {"relocate", "commit"}
    BY <1>4 DEF Fetch, Fetched, BeginExtract, EndExtract
  <2>2. plan' = plan /\ changed' = changed /\ records' = records /\ manifest' = manifest
        /\ pc[p] \in Unfinished
    BY <1>4 DEF Fetch, Fetched, BeginExtract, EndExtract, Unfinished
  <2> QED BY <1>1, <2>1, <2>2
<1>5. CASE Extracted(p) \/ Relocated(p)
  <2>1. kitsLeft'[p] = changed[p] \/ pc'[p] = "release"
    BY <1>5 DEF Extracted, Relocated
  <2>2. plan' = plan /\ changed' = changed /\ records' = records /\ manifest' = manifest
        /\ pc[p] \in Unfinished
    BY <1>5 DEF Extracted, Relocated, Unfinished
  <2> QED BY <1>1, <2>1, <2>2 DEF Unfinished
<1>6. CASE Relocate(p)
  <2>1. plan' = plan /\ changed' = changed /\ records' = records /\ manifest' = manifest
        /\ pc' = pc /\ pc[p] = "relocate" /\ kitsLeft'[p] \subseteq kitsLeft[p]
    BY <1>6 DEF Relocate
  <2> QED BY <1>1, <2>1 DEF Unfinished
<1>7. CASE Commit(p)
  <2>1. PICK i \in kitsLeft[p] :
          manifest' = [manifest EXCEPT ![KitAt(p, i)] = records[p][KitAt(p, i)]]
    BY <1>7 DEF Commit
  <2>2. plan' = plan /\ changed' = changed /\ records' = records /\ pc' = pc
        /\ pc[p] = "commit" /\ kitsLeft'[p] \subseteq kitsLeft[p]
    BY <1>7 DEF Commit
  <2>3. ASSUME NEW k \in Kits
        PROVE  \/ records'[p][k] = Recorded(PackagesOf(k)', plan'[p].select[k])
               \/ manifest'[k] = records'[p][k]
    <3>1. CASE k = KitAt(p, i)
      BY <2>1, <2>2, <3>1
    <3>2. CASE k # KitAt(p, i)
      <4>1. manifest'[k] = manifest[k] /\ PackagesOf(k)' = PackagesOf(k)
        BY <2>1, <3>2 DEF PackagesOf
      <4> QED BY <2>2, <4>1 DEF RecordsServe, Unfinished
    <3> QED BY <3>1, <3>2
  <2> QED BY <2>2, <2>3 DEF RecordsServe, Unfinished
<1>8. CASE \/ Start(p) \/ Acquire(p) \/ Reject(p) \/ SelectAll(p) \/ RelocateFails(p)
           \/ Committed(p) \/ Release(p) \/ Fail(p) \/ Crash(p)
  <2>1. ~SelectAll(p)
    BY DEF SelectAll
  <2>2. ~Start(p)
    <3>1. ASSUME NEW r \in Requests, NEW v \in Releases,
                 plan' = [plan EXCEPT ![p] = Resolved(r, v)],
                 r.mode # "download-only" => Goto(p, "idle", "waiting")
          PROVE  FALSE
      BY <3>1 DEF Resolved, Unfinished
    <3> QED BY <3>1 DEF Start
  <2>3. pc'[p] \notin Unfinished
    BY <1>8, <2>1, <2>2 DEF Acquire, Reject, RelocateFails, Committed, Release, Fail, Crash,
       Unfinished
  <2> QED BY <2>3
<1>9. CASE UNCHANGED vars
  BY <1>1, <1>9 DEF vars
<1> QED
  BY <1>2, <1>3, <1>4, <1>5, <1>6, <1>7, <1>8, <1>9 DEF Next, Step, Done

LEMMA SInvHolds == Spec => []SInv
<1>1. Init => IInv /\ PlannedFromRequest /\ RecordsServe
  <2> SUFFICES ASSUME Init PROVE IInv /\ PlannedFromRequest /\ RecordsServe
    OBVIOUS
  <2>1. IInv
    BY InitIInv
  <2> QED BY <2>1 DEF Init, PlannedFromRequest, RecordsServe, Unfinished
<1>2. SInv /\ [Next]_vars => SInv'
  BY IInvStep, PlannedStep, RecordsStep DEF SInv
<1> QED BY <1>1, <1>2, PTL DEF Spec, SInv

-----------------------------------------------------------------------------
(* The refinement.                                                         *)

LEMMA RegistryInit == Init => Reg!Init
BY DEF Init, Reg!Init

LEMMA RegistryStep ==
  SInv /\ [Next]_vars =>
    [\E k \in Kits, sels \in SelectionsWanted : Reg!Apply(k, sels)]_manifest
<1> SUFFICES ASSUME SInv, [Next]_vars, manifest' # manifest
             PROVE  \E k \in Kits, sels \in SelectionsWanted : Reg!Apply(k, sels)
  OBVIOUS
<1> USE DEF SInv, IInv, TypeOK
<1>1. PICK p \in Procs : Commit(p)
  BY DEF Next, Step, Done, vars, disk, Start, Acquire, Reconcile, Reject, SelectAll, Fetch,
     Fetched, BeginExtract, EndExtract, Extracted, Relocate, RelocateFails, Relocated,
     Committed, Release, Fail, Crash
<1>2. PICK i \in kitsLeft[p] :
        manifest' = [manifest EXCEPT ![KitAt(p, i)] = records[p][KitAt(p, i)]]
  BY <1>1 DEF Commit
<1> DEFINE k == KitAt(p, i)
<1>3. pc[p] = "commit" /\ plan[p].mode = "install"
  BY <1>1 DEF Commit, LockedModes
<1>4. i \in 1..Len(plan[p].kits) /\ k \in Kits
  <2>1. i \in 1..Len(plan[p].kits)
    BY <1>2, <1>3 DEF RecordsServe, Unfinished
  <2>2. plan[p].kits \in Seq(Kits)
    BY DEF PlanTypes
  <2> QED BY <2>1, <2>2, ElementOfSeq DEF KitAt
<1>5. manifest[k] # records[p][k]
  BY <1>2, <1>4
<1>6. records[p][k] = Recorded(PackagesOf(k), plan[p].select[k])
  BY <1>3, <1>4, <1>5 DEF RecordsServe, Unfinished
<1>7. plan[p].select[k] \in SelectionsWanted
  <2>1. PICK r \in Requests, v \in Releases : plan[p] = Resolved(r, v)
    BY <1>3 DEF PlannedFromRequest
  <2>2. Resolved(r, v).select[k] \in SelectionsWanted
    BY <1>4 DEF SelectionsWanted
  <2> QED BY <2>1, <2>2
<1>8. Recorded(PackagesOf(k), plan[p].select[k]) =
        Reg!Recorded(Reg!Current(k), plan[p].select[k])
  BY DEF PackagesOf, Reg!Current, NoPackages, Reg!NoPackages, Recorded, Reg!Recorded,
     RecordOf, Reg!RecordOf
<1>9. Reg!Apply(k, plan[p].select[k])
  BY <1>2, <1>6, <1>8 DEF Reg!Apply
<1> QED BY <1>4, <1>7, <1>9

\* Whatever the interleaving, the crashes and the number of processes, the
\* manifests are those of requests applied one after the other: no process
\* undoes what another recorded.
THEOREM ManifestsAreSerial == Spec => SerialManifests
<1>1. Spec => []SInv
  BY SInvHolds
<1> QED BY <1>1, RegistryInit, RegistryStep, PTL DEF Spec, SerialManifests, Reg!Spec

-----------------------------------------------------------------------------
(* Publication.                                                            *)

SameFiles(p, x, y) ==
  KitAt(p, x[1]) = KitAt(p, y[1]) /\ ArchiveAt(p, x) = ArchiveAt(p, y)

\* How far an installation has come: the pending archives that are no longer to
\* do are extracted, but for those whose files the current extraction rewrites;
\* then those of the kits that are no longer left are relocated.
Progress ==
  \A p \in Procs : plan[p].mode = "install" /\ pc[p] \in Unfinished =>
    /\ \A x \in pending[p] : x[1] \in changed[p]
    /\ pc[p] = "extract" => \A x \in pending[p] \ todo[p] : Extracted1(p, x)
    /\ pc[p] = "extracting" => \A x \in pending[p] \ todo[p] :
         \/ Extracted1(p, x)
         \/ \E y \in todo[p] : FirstItem(y, todo[p]) /\ SameFiles(p, x, y)
    /\ pc[p] \in {"relocate", "commit"} => \A x \in pending[p] : Extracted1(p, x)
    /\ pc[p] = "relocate" => \A x \in pending[p] : x[1] \in kitsLeft[p] \/ Relocated1(p, x)
    /\ pc[p] = "commit" => \A x \in pending[p] : Relocated1(p, x)

CInv == SInv /\ Progress

-----------------------------------------------------------------------------
(* Facts about plans and items.                                            *)

LEMMA PendingKitsChange ==
  ASSUME NEW q \in PlanTypes, NEW x \in PendingItems(q)
  PROVE  x[1] \in ChangedKits(q)
<1> DEFINE Test(i, j) == ActionIn(q, q.kits[i], j) \in {"install", "update"}
           S(i, j) == {<<i, j, a>> : a \in 1..Len(ArchivesOf[q.select[q.kits[i]][j].name])}
           T(i) == UNION {S(i, j) : j \in {j \in 1..Len(q.select[q.kits[i]]) : Test(i, j)}}
<1>1. PendingItems(q) = UNION {T(i) : i \in 1..Len(q.kits)}
  BY DEF PendingItems, ItemsOf
<1>2. PICK i \in 1..Len(q.kits) : x \in T(i)
  BY <1>1
<1>3. PICK j \in 1..Len(q.select[q.kits[i]]) : Test(i, j) /\ x \in S(i, j)
  BY <1>2
<1>4. x[1] = i
  BY <1>3
<1> QED BY <1>3, <1>4 DEF ChangedKits

\* All packages of a plan have one version: that of the metadata it came from.
LEMMA OneVersion ==
  ASSUME NEW r \in Requests, NEW v \in Releases, NEW x \in AllItems(Resolved(r, v))
  PROVE  Resolved(r, v).select[Resolved(r, v).kits[x[1]]][x[2]].version = v
<1> DEFINE q == Resolved(r, v)
           k == q.kits[x[1]]
<1>1. q \in PlanTypes
  BY ResolvedType
<1>2. k \in Kits /\ x[2] \in 1..Len(q.select[k])
  BY <1>1, ItemType
<1> DEFINE sel == [i \in 1..Len(r.select[k]) |->
                     [name    |-> r.select[k][i].name,
                      module  |-> r.select[k][i].module,
                      version |-> v]]
<1>3. q.select[k] = sel
  BY <1>2, Zenon DEF Resolved
<1>4. r.select[k] \in Seq([name : Names, module : Modules])
  BY <1>2, InstallerAssumption
<1>5. Len(r.select[k]) \in Nat
  BY <1>4, LenProperties
<1>6. DOMAIN sel = 1..Len(r.select[k])
  OBVIOUS
<1>7. q.select[k] \in Seq(Selections)
  BY <1>1, <1>2 DEF PlanTypes
<1>8. DOMAIN q.select[k] = 1..Len(q.select[k])
  BY <1>7, LenProperties
<1>9. x[2] \in 1..Len(r.select[k])
  BY <1>2, <1>3, <1>6, <1>8, Zenon
<1>10. sel[x[2]].version = v
  BY <1>9, Zenon
<1>11. q.select[k][x[2]].version = v
  BY <1>3, <1>10, Zenon
<1> QED BY <1>11

LEMMA FirstIsUnique ==
  ASSUME NEW S \in SUBSET Items, NEW x, FirstItem(x, S), NEW y, FirstItem(y, S)
  PROVE  x = y
<1>1. x \in Items /\ y \in Items /\ Precedes(x, y) /\ Precedes(y, x)
  BY DEF FirstItem
<1>2. x[1] = y[1] /\ x[2] = y[2] /\ x[3] = y[3]
  BY <1>1 DEF Precedes, Items
<1>3. PICK a \in Nat, b \in Nat, c \in Nat : x = <<a, b, c>>
  BY <1>1 DEF Items
<1>4. PICK d \in Nat, e \in Nat, f \in Nat : y = <<d, e, f>>
  BY <1>1 DEF Items
<1>5. a = d /\ b = e /\ c = f
  BY <1>2, <1>3, <1>4
<1> QED BY <1>3, <1>4, <1>5

\* While p holds the lock, the others leave its kits and its progress alone.
LEMMA OthersStandAside ==
  ASSUME IInv, [Next]_vars, NEW p \in Procs, lock = p, NEW q \in Procs \ {p},
         Start(q) \/ Step(q) \/ Fail(q) \/ Crash(q)
  PROVE  /\ disk' = disk /\ plan'[p] = plan[p] /\ pc'[p] = pc[p] /\ todo'[p] = todo[p]
         /\ changed'[p] = changed[p] /\ pending'[p] = pending[p] /\ kitsLeft'[p] = kitsLeft[p]
<1>1. /\ plan'[p] = plan[p] /\ pc'[p] = pc[p] /\ todo'[p] = todo[p]
      /\ changed'[p] = changed[p] /\ pending'[p] = pending[p] /\ kitsLeft'[p] = kitsLeft[p]
  BY Zenon DEF IInv, TypeOK, Goto, local, Start, Step, Acquire, Reconcile, Reject, SelectAll,
     Fetch, Fetched, BeginExtract, EndExtract, Extracted, Relocate, RelocateFails,
     Relocated, Commit, Committed, Release, Fail, Crash
<1>2. ~Moves(p)
  BY <1>1 DEF Moves
<1> QED BY <1>1, <1>2, KitsStep

-----------------------------------------------------------------------------

LEMMA ProgressStep == SInv /\ Progress /\ [Next]_vars => Progress'
<1> SUFFICES ASSUME SInv, Progress, [Next]_vars,
                    NEW p \in Procs, plan'[p].mode = "install", pc'[p] \in Unfinished
             PROVE  /\ \A x \in pending'[p] : x[1] \in changed'[p]
                    /\ pc'[p] = "extract" =>
                         \A x \in pending'[p] \ todo'[p] : Extracted1(p, x)'
                    /\ pc'[p] = "extracting" => \A x \in pending'[p] \ todo'[p] :
                         \/ Extracted1(p, x)'
                         \/ \E y \in todo'[p] : FirstItem(y, todo'[p]) /\ SameFiles(p, x, y)'
                    /\ pc'[p] \in {"relocate", "commit"} =>
                         \A x \in pending'[p] : Extracted1(p, x)'
                    /\ pc'[p] = "relocate" =>
                         \A x \in pending'[p] : x[1] \in kitsLeft'[p] \/ Relocated1(p, x)'
                    /\ pc'[p] = "commit" => \A x \in pending'[p] : Relocated1(p, x)'
  BY DEF Progress
<1> DEFINE Goal == /\ \A x \in pending'[p] : x[1] \in changed'[p]
                   /\ pc'[p] = "extract" =>
                        \A x \in pending'[p] \ todo'[p] : Extracted1(p, x)'
                   /\ pc'[p] = "extracting" => \A x \in pending'[p] \ todo'[p] :
                        \/ Extracted1(p, x)'
                        \/ \E y \in todo'[p] : FirstItem(y, todo'[p]) /\ SameFiles(p, x, y)'
                   /\ pc'[p] \in {"relocate", "commit"} =>
                        \A x \in pending'[p] : Extracted1(p, x)'
                   /\ pc'[p] = "relocate" =>
                        \A x \in pending'[p] : x[1] \in kitsLeft'[p] \/ Relocated1(p, x)'
                   /\ pc'[p] = "commit" => \A x \in pending'[p] : Relocated1(p, x)'
<1>t. TypeOK /\ IInv
  BY DEF SInv, IInv
<1> USE DEF Goto, local
<1>0. ASSUME NEW x \in pending[p]
      PROVE  /\ KitAt(p, x[1]) \in Kits /\ ArchiveAt(p, x) \in Archives
             /\ SelectionAt(p, x).version \in Releases
  <2>1. plan[p] \in PlanTypes /\ x \in AllItems(plan[p])
    BY <1>t DEF TypeOK, IInv, ItemsPlanned
  <2> QED BY <2>1, ItemType, Zenon DEF KitAt, ArchiveAt, SelectionAt, Selections
<1>1. ASSUME disk' = disk, plan'[p] = plan[p], pc'[p] = pc[p], changed'[p] = changed[p],
             pending'[p] = pending[p], pc[p] = "fetch" \/ todo'[p] = todo[p],
             kitsLeft'[p] = kitsLeft[p]
      PROVE  Goal
  <2>1. pc[p] = "fetch" \/ todo'[p] = todo[p]
    BY <1>1
  <2>2. plan[p].mode = "install" /\ pc[p] \in Unfinished
    BY <1>1
  <2>3. ASSUME NEW x
        PROVE  /\ Extracted1(p, x) => Extracted1(p, x)'
               /\ Relocated1(p, x) => Relocated1(p, x)'
    BY <1>1, Zenon DEF disk, Extracted1, Relocated1, KitAt, ArchiveAt, SelectionAt
  <2>4. ASSUME NEW x, NEW y, SameFiles(p, x, y) PROVE SameFiles(p, x, y)'
    BY <1>1, <2>4, Zenon DEF SameFiles, KitAt, ArchiveAt, SelectionAt
  <2>5. CASE pc[p] = "fetch"
    BY <1>1, <2>2, <2>5 DEF Progress
  <2>6. CASE pc[p] = "extracting"
    BY <1>1, <2>1, <2>2, <2>3, <2>4, <2>6 DEF Progress
  <2>7. CASE pc[p] \in {"extract", "relocate", "commit"}
    BY <1>1, <2>1, <2>2, <2>3, <2>7 DEF Progress
  <2> QED BY <2>2, <2>5, <2>6, <2>7 DEF Unfinished
<1>2. ASSUME NEW q \in Procs \ {p}, Start(q) \/ Step(q) \/ Fail(q) \/ Crash(q)
      PROVE  Goal
  <2>1. plan'[p] = plan[p] /\ pc'[p] = pc[p]
    BY <1>2, <1>t DEF TypeOK, Start, Step, Acquire, Reconcile, Reject, SelectAll, Fetch,
       Fetched, BeginExtract, EndExtract, Extracted, Relocate, RelocateFails, Relocated,
       Commit, Committed, Release, Fail, Crash
  <2>2. lock = p
    BY <2>1, <1>t DEF IInv, OneMaterializer, InsideLock, LockedPhases, Unfinished
  <2> QED BY <1>1, <1>2, <1>t, <2>2, OthersStandAside
<1>3. CASE Reconcile(p)
  <2>1. /\ pc'[p] = "fetch" /\ changed'[p] = ChangedKits(plan[p])
        /\ pending'[p] = PendingItems(plan[p])
    BY <1>3, <1>t DEF Reconcile, Unfinished, TypeOK
  <2>2. plan[p] \in PlanTypes
    BY <1>t DEF TypeOK
  <2> QED BY <2>1, <2>2, PendingKitsChange
<1>4. CASE Fetch(p)
  <2>1. pc' = pc /\ pc[p] = "fetch" /\ UNCHANGED <<disk, local, kitsLeft>>
    BY <1>4 DEF Fetch
  <2> QED BY <1>1, <2>1
<1>5. CASE Fetched(p)
  <2>1. /\ pc[p] = "fetch" /\ pc'[p] = "extract" /\ todo'[p] = pending[p]
        /\ UNCHANGED <<disk, local>>
    BY <1>5, <1>t DEF Fetched, TypeOK, Unfinished
  <2>2. \A x \in pending[p] : x[1] \in changed[p]
    BY <2>1 DEF Progress, Unfinished
  <2> QED BY <2>1, <2>2
<1>6. CASE BeginExtract(p)
  <2>1. PICK x \in todo[p] :
          /\ FirstItem(x, todo[p])
          /\ files' = [files EXCEPT ![KitAt(p, x[1])][ArchiveAt(p, x)] = Torn]
    BY <1>6, Zenon DEF BeginExtract
  <2>2. /\ pc[p] = "extract" /\ pc'[p] = "extracting"
        /\ UNCHANGED <<local, todo>>
    BY <1>6, <1>t DEF BeginExtract, TypeOK
  <2>3. ASSUME NEW z \in pending[p] \ todo[p], ~SameFiles(p, z, x)
        PROVE  Extracted1(p, z)'
    <3>1. Extracted1(p, z)
      BY <2>2 DEF Progress, Unfinished
    <3>2. files'[KitAt(p, z[1])][ArchiveAt(p, z)] = files[KitAt(p, z[1])][ArchiveAt(p, z)]
      BY <1>0, <1>t, <2>1, <2>3 DEF TypeOK, SameFiles
    <3> QED BY <2>2, <3>1, <3>2, Zenon DEF Extracted1, KitAt, ArchiveAt, SelectionAt
  <2>4. ASSUME NEW z \in pending[p], SameFiles(p, z, x) PROVE SameFiles(p, z, x)'
    BY <2>2, <2>4, Zenon DEF SameFiles, KitAt, ArchiveAt, SelectionAt
  <2> QED BY <2>1, <2>2, <2>3, <2>4 DEF Progress, Unfinished
<1>7. CASE EndExtract(p)
  <2>1. PICK x \in todo[p] :
          /\ FirstItem(x, todo[p])
          /\ files' = [files EXCEPT ![KitAt(p, x[1])][ArchiveAt(p, x)] =
                                      SelectionAt(p, x).version]
          /\ todo' = [todo EXCEPT ![p] = @ \ {x}]
    BY <1>7, Zenon DEF EndExtract
  <2>2. pc[p] = "extracting" /\ pc'[p] = "extract" /\ UNCHANGED local
    BY <1>7, <1>t DEF EndExtract, TypeOK
  <2>3. todo'[p] = todo[p] \ {x}
    BY <1>t, <2>1 DEF TypeOK
  <2>4. KitAt(p, x[1]) \in Kits /\ ArchiveAt(p, x) \in Archives
    <3>1. plan[p] \in PlanTypes /\ x \in AllItems(plan[p])
      BY <1>t DEF TypeOK, IInv, ItemsPlanned
    <3> QED BY <3>1, ItemType, Zenon DEF KitAt, ArchiveAt, SelectionAt
  <2>5. ASSUME NEW z \in pending[p] PROVE SelectionAt(p, z).version = SelectionAt(p, x).version
    <3>1. PICK r \in Requests, v \in Releases : plan[p] = Resolved(r, v)
      BY <2>2 DEF SInv, PlannedFromRequest
    <3>2. x \in AllItems(Resolved(r, v)) /\ z \in AllItems(Resolved(r, v))
      BY <1>t, <3>1 DEF IInv, ItemsPlanned
    <3> QED BY <3>1, <3>2, OneVersion DEF SelectionAt, KitAt
  <2>6. ASSUME NEW z \in pending[p] \ todo'[p] PROVE Extracted1(p, z)'
    <3>1. CASE SameFiles(p, z, x)
      <4>1. files'[KitAt(p, z[1])][ArchiveAt(p, z)] = SelectionAt(p, z).version
        BY <1>t, <2>1, <2>4, <2>5, <3>1 DEF TypeOK, SameFiles
      <4> QED BY <2>2, <4>1, Zenon DEF Extracted1, KitAt, ArchiveAt, SelectionAt
    <3>2. CASE ~SameFiles(p, z, x)
      <4>1. z # x
        BY <3>2 DEF SameFiles
      <4>2. z \in pending[p] \ todo[p]
        BY <2>3, <4>1
      <4>3. Extracted1(p, z)
        BY <1>t, <2>1, <2>2, <3>2, <4>2, FirstIsUnique DEF Progress, Unfinished, TypeOK
      <4>4. files'[KitAt(p, z[1])][ArchiveAt(p, z)] = files[KitAt(p, z[1])][ArchiveAt(p, z)]
        BY <1>0, <1>t, <2>1, <3>2 DEF TypeOK, SameFiles
      <4> QED BY <2>2, <4>3, <4>4, Zenon DEF Extracted1, KitAt, ArchiveAt, SelectionAt
    <3> QED BY <3>1, <3>2
  <2> QED BY <2>2, <2>6 DEF Progress, Unfinished
<1>8. CASE Extracted(p)
  <2>1. /\ todo[p] = {} /\ pc[p] = "extract" /\ pc'[p] = "relocate"
        /\ kitsLeft'[p] = changed[p] /\ UNCHANGED <<disk, local, todo>>
    BY <1>8, <1>t DEF Extracted, TypeOK, Unfinished
  <2>2. \A x \in pending[p] : x[1] \in changed[p] /\ Extracted1(p, x)
    BY <2>1 DEF Progress, Unfinished
  <2>3. \A x \in pending[p] : Extracted1(p, x)'
    BY <2>1, <2>2, Zenon DEF Extracted1, KitAt, ArchiveAt, SelectionAt, disk
  <2> QED BY <2>1, <2>2, <2>3
<1>9. CASE Relocate(p)
  <2>1. PICK i \in kitsLeft[p] :
          /\ relocated' = [relocated EXCEPT ![KitAt(p, i)] = Present(KitAt(p, i))]
          /\ kitsLeft' = [kitsLeft EXCEPT ![p] = @ \ {i}]
    BY <1>9, Zenon DEF Relocate
  <2>2. pc[p] = "relocate" /\ pc' = pc /\ UNCHANGED <<files, local, todo>>
    BY <1>9 DEF Relocate
  <2>3. \A x \in pending[p] : x[1] \in changed[p] /\ Extracted1(p, x)
                              /\ (x[1] \in kitsLeft[p] \/ Relocated1(p, x))
    BY <2>2 DEF Progress, Unfinished
  <2>4. \A x \in pending[p] : Extracted1(p, x)'
    BY <2>2, <2>3, Zenon DEF Extracted1, KitAt, ArchiveAt, SelectionAt
  <2>5. ASSUME NEW x \in pending[p], x[1] \notin kitsLeft'[p] PROVE Relocated1(p, x)'
    <3>1. CASE KitAt(p, x[1]) = KitAt(p, i)
      <4>1. ArchiveAt(p, x) \in Present(KitAt(p, x[1]))
        BY <1>0, <2>3, InstallerAssumption DEF Present, Extracted1
      <4>2. ArchiveAt(p, x) \in relocated'[KitAt(p, x[1])]
        BY <1>0, <1>t, <2>1, <3>1, <4>1 DEF TypeOK
      <4> QED BY <2>2, <4>2, Zenon DEF Relocated1, KitAt, ArchiveAt, SelectionAt
    <3>2. CASE KitAt(p, x[1]) # KitAt(p, i)
      <4>1. x[1] # i /\ x[1] \notin kitsLeft[p]
        BY <1>t, <2>1, <2>5, <3>2 DEF TypeOK
      <4>2. relocated'[KitAt(p, x[1])] = relocated[KitAt(p, x[1])]
        BY <1>0, <1>t, <2>1, <3>2 DEF TypeOK
      <4>3. Relocated1(p, x)
        BY <2>3, <4>1
      <4> QED BY <2>2, <4>2, <4>3, Zenon DEF Relocated1, KitAt, ArchiveAt, SelectionAt
    <3> QED BY <3>1, <3>2
  <2> QED BY <2>2, <2>3, <2>4, <2>5
<1>10. CASE Relocated(p)
  <2>1. /\ kitsLeft[p] = {} /\ pc[p] = "relocate" /\ pc'[p] = "commit"
        /\ UNCHANGED <<disk, local, todo>>
    BY <1>10, <1>t DEF Relocated, TypeOK
  <2>2. \A x \in pending[p] : x[1] \in changed[p] /\ Extracted1(p, x) /\ Relocated1(p, x)
    BY <2>1 DEF Progress, Unfinished
  <2>3. \A x \in pending[p] : Extracted1(p, x)' /\ Relocated1(p, x)'
    BY <2>1, <2>2, Zenon DEF Extracted1, Relocated1, KitAt, ArchiveAt, SelectionAt, disk
  <2> QED BY <2>1, <2>2, <2>3
<1>11. CASE Commit(p)
  <2>1. pc[p] = "commit" /\ pc' = pc /\ UNCHANGED <<files, relocated, local, todo>>
    BY <1>11 DEF Commit
  <2>2. \A x \in pending[p] : x[1] \in changed[p] /\ Extracted1(p, x) /\ Relocated1(p, x)
    BY <2>1 DEF Progress, Unfinished
  <2>3. \A x \in pending[p] : Extracted1(p, x)' /\ Relocated1(p, x)'
    BY <2>1, <2>2, Zenon DEF Extracted1, Relocated1, KitAt, ArchiveAt, SelectionAt
  <2> QED BY <2>1, <2>2, <2>3
<1>12. CASE \/ Start(p) \/ Acquire(p) \/ Reject(p) \/ SelectAll(p) \/ RelocateFails(p)
            \/ Committed(p) \/ Release(p) \/ Fail(p) \/ Crash(p)
  <2>1. ~SelectAll(p)
    BY DEF SelectAll
  <2>2. ~Start(p)
    <3>1. ASSUME NEW r \in Requests, NEW v \in Releases,
                 plan' = [plan EXCEPT ![p] = Resolved(r, v)],
                 r.mode # "download-only" => Goto(p, "idle", "waiting")
          PROVE  FALSE
      BY <1>t, <3>1 DEF Resolved, Unfinished, TypeOK
    <3> QED BY <3>1 DEF Start
  <2>3. pc'[p] \notin Unfinished
    BY <1>12, <1>t, <2>1, <2>2 DEF Acquire, Reject, RelocateFails, Committed, Release, Fail,
       Crash, Unfinished, TypeOK
  <2> QED BY <2>3
<1>13. CASE UNCHANGED vars
  BY <1>1, <1>13 DEF vars
<1> QED
  BY <1>2, <1>3, <1>4, <1>5, <1>6, <1>7, <1>8, <1>9, <1>10, <1>11, <1>12, <1>13
  DEF Next, Step, Done

LEMMA CInvHolds == Spec => []CInv
<1>1. Init => Progress
  BY DEF Init, Progress, Unfinished
<1>2. SInv /\ Progress /\ [Next]_vars => Progress'
  BY ProgressStep
<1> QED BY <1>1, <1>2, SInvHolds, PTL DEF Spec, CInv

\* When a manifest is published, every package that its process installs or
\* updates, in every kit of the request, is extracted at the planned release and
\* relocated: for any number of processes and kits, and whatever fails.
THEOREM OnlyCompleteKitsArePublished == Spec => PublishesOnlyCompleteKits
<1>1. CInv /\ [Next]_vars =>
        [manifest' # manifest =>
           \E p \in Procs :
             lock = p /\ \A x \in pending[p] : Extracted1(p, x) /\ Relocated1(p, x)]_vars
  <2> SUFFICES ASSUME CInv, [Next]_vars, manifest' # manifest
               PROVE  \E p \in Procs :
                        lock = p /\ \A x \in pending[p] : Extracted1(p, x) /\ Relocated1(p, x)
    OBVIOUS
  <2>1. PICK p \in Procs : Commit(p)
    BY DEF Next, Step, Done, vars, disk, Start, Acquire, Reconcile, Reject, SelectAll, Fetch,
       Fetched, BeginExtract, EndExtract, Extracted, Relocate, RelocateFails, Relocated,
       Committed, Release, Fail, Crash
  <2>2. pc[p] = "commit"
    BY <2>1 DEF Commit
  <2>3. lock = p /\ plan[p].mode = "install"
    BY <2>2 DEF CInv, SInv, IInv, OneMaterializer, InsideLock, LockedPhases, LockedModes
  <2>4. \A x \in pending[p] : Extracted1(p, x) /\ Relocated1(p, x)
    BY <2>2, <2>3 DEF CInv, Progress, Unfinished
  <2> QED BY <2>3, <2>4
<1> QED BY <1>1, CInvHolds, PTL DEF Spec, PublishesOnlyCompleteKits

-----------------------------------------------------------------------------
(* Records.                                                                 *)

\* The packages pk have the selection s, in its version; or all of sels.
Lists1(pk, s) == s.name \in DOMAIN pk /\ pk[s.name] = RecordOf(s)
Lists(pk, sels) == \A j \in DOMAIN sels : Lists1(pk, sels[j])

\* Kit k, the i-th of p's plan, selects no name twice, and what will be recorded
\* for it lists its selections.  Each selection is listed already, or all its
\* archives are pending, or it is the base package and k has no manifest; and k
\* lists them all when it is not changed, or committed.
Accounted(p, i, k) ==
  LET sels == plan[p].select[k]
  IN  /\ ~SelectsTwice(sels)
      /\ Lists(records[p][k], sels)
      /\ \A j \in DOMAIN sels :
           \/ Lists1(PackagesOf(k), sels[j])
           \/ \A a \in DOMAIN ArchivesOf[sels[j].name] : <<i, j, a>> \in pending[p]
           \/ ~Found(k) /\ sels[j].module = Base
      /\ i \notin changed[p] => Lists(PackagesOf(k), sels)
      /\ pc[p] = "commit" /\ i \notin kitsLeft[p] => Lists(PackagesOf(k), sels)

\* So it is for every kit from reconciliation to commit.
Outcome ==
  \A p \in Procs : plan[p].mode = "install" /\ pc[p] \in Unfinished =>
    \A i \in DOMAIN plan[p].kits, k \in Kits : k = KitAt(p, i) => Accounted(p, i, k)

\* A request that succeeded is on record until its process releases the lock.
Satisfied ==
  \A p \in Procs : pc[p] = "release" /\ result[p] \in {"installed", "satisfied"} =>
    \A i \in DOMAIN plan[p].kits, k \in Kits : k = KitAt(p, i) =>
      /\ ~SelectsTwice(plan[p].select[k])
      /\ Lists(PackagesOf(k), plan[p].select[k])

DInv == CInv /\ Outcome /\ Satisfied /\ OneRecordPerModule

\* A package on record after a request was there before, and the request has
\* neither its name nor its module, or it is the request's last of its name and
\* module.
LEMMA RecordedCases ==
  ASSUME NEW pk \in Packages, NEW sels \in Seq(Selections), NEW n \in DOMAIN Recorded(pk, sels)
  PROVE  \/ /\ n \in DOMAIN pk /\ Recorded(pk, sels)[n] = pk[n]
            /\ \A i \in DOMAIN sels : sels[i].name # n /\ sels[i].module # pk[n].module
         \/ \E i \in DOMAIN sels :
              /\ sels[i].name = n /\ Recorded(pk, sels)[n] = RecordOf(sels[i])
              /\ \A j \in DOMAIN sels : j > i =>
                   sels[j].module # sels[i].module /\ sels[j].name # sels[i].name
<1> DEFINE kept == {m \in DOMAIN pk : \A i \in DOMAIN sels :
                      sels[i].name # m /\ sels[i].module # pk[m].module}
           added == {i \in DOMAIN sels : \A j \in DOMAIN sels : j > i =>
                      sels[j].module # sels[i].module /\ sels[j].name # sels[i].name}
           chosen == CHOOSE i \in added : sels[i].name = n
           R == [m \in kept \cup {sels[i].name : i \in added} |->
                   IF m \in kept THEN pk[m]
                   ELSE RecordOf(sels[CHOOSE i \in added : sels[i].name = m])]
<1>1. Recorded(pk, sels) = R
  BY DEF Recorded
<1>2. n \in kept \cup {sels[i].name : i \in added}
  BY <1>1
<1>3. CASE n \in kept
  BY <1>1, <1>3
<1>4. CASE n \notin kept
  <2>1. \E i \in added : sels[i].name = n
    BY <1>2, <1>4
  <2>2. chosen \in added /\ sels[chosen].name = n
    BY <2>1
  <2>3. R[n] = RecordOf(sels[chosen])
    BY <1>2, <1>4
  <2> QED BY <1>1, <2>2, <2>3
<1> QED BY <1>3, <1>4

\* A package stays on record, as it is, while no selection has its name or module.
LEMMA RecordedKeeps ==
  ASSUME NEW pk \in Packages, NEW sels \in Seq(Selections), NEW n \in DOMAIN pk,
         \A i \in DOMAIN sels : sels[i].name # n /\ sels[i].module # pk[n].module
  PROVE  n \in DOMAIN Recorded(pk, sels) /\ Recorded(pk, sels)[n] = pk[n]
BY DEF Recorded

\* Selections that differ in name and module are all on record afterwards.
LEMMA RecordedLists ==
  ASSUME NEW pk \in Packages, NEW sels \in Seq(Selections), ~SelectsTwice(sels),
         \A i, j \in DOMAIN sels : sels[i].module = sels[j].module => sels[i].name = sels[j].name
  PROVE  Lists(Recorded(pk, sels), sels)
<1> SUFFICES ASSUME NEW j \in DOMAIN sels PROVE Lists1(Recorded(pk, sels), sels[j])
  BY DEF Lists
<1> DEFINE n == sels[j].name
           kept == {m \in DOMAIN pk : \A i \in DOMAIN sels :
                      sels[i].name # m /\ sels[i].module # pk[m].module}
           added == {i \in DOMAIN sels : \A l \in DOMAIN sels : l > i =>
                      sels[l].module # sels[i].module /\ sels[l].name # sels[i].name}
           dom == kept \cup {sels[i].name : i \in added}
           R == [m \in dom |->
                   IF m \in kept THEN pk[m]
                   ELSE RecordOf(sels[CHOOSE i \in added : sels[i].name = m])]
<1>1. Recorded(pk, sels) = R
  BY DEF Recorded
<1>2. \A l \in DOMAIN sels : l # j => sels[l].name # sels[j].name
  BY DEF SelectsTwice
<1>3. DOMAIN sels = 1..Len(sels) /\ Len(sels) \in Nat
  BY LenProperties
<1>4. j \in added
  BY <1>2, <1>3
<1>5. n \in dom /\ n \notin kept
  BY <1>4
<1>6. (CHOOSE i \in added : sels[i].name = n) = j
  BY <1>2, <1>4
<1>7. R[n] = RecordOf(sels[j])
  BY <1>5, <1>6
<1> QED BY <1>1, <1>5, <1>7 DEF Lists1

OneOfEach(pk) == \A m, n \in DOMAIN pk : pk[m].module = pk[n].module => m = n

\* A request leaves one record for each module.
LEMMA RecordedOneOfEach ==
  ASSUME NEW pk \in Packages, NEW sels \in Seq(Selections), OneOfEach(pk)
  PROVE  OneOfEach(Recorded(pk, sels))
<1> DEFINE R == Recorded(pk, sels)
<1> SUFFICES ASSUME NEW m \in DOMAIN R, NEW n \in DOMAIN R, R[m].module = R[n].module
             PROVE  m = n
  BY DEF OneOfEach
<1> DEFINE Kept(x) == /\ x \in DOMAIN pk /\ R[x] = pk[x]
                      /\ \A i \in DOMAIN sels : sels[i].module # R[x].module
           Latest(x, i) == /\ sels[i].name = x /\ R[x].module = sels[i].module
                           /\ \A j \in DOMAIN sels : j > i => sels[j].module # sels[i].module
<1>1. ASSUME NEW x \in DOMAIN R PROVE Kept(x) \/ \E i \in DOMAIN sels : Latest(x, i)
  BY RecordedCases DEF RecordOf
<1>2. CASE Kept(m) /\ Kept(n)
  BY <1>2 DEF OneOfEach
<1>3. ASSUME NEW x \in DOMAIN R, NEW y \in DOMAIN R, R[x].module = R[y].module,
             Kept(x), NEW i \in DOMAIN sels, Latest(y, i)
      PROVE  FALSE
  BY <1>3
<1>4. ASSUME NEW i \in DOMAIN sels, Latest(m, i), NEW j \in DOMAIN sels, Latest(n, j)
      PROVE  m = n
  <2>1. i \in Nat /\ j \in Nat
    BY LenProperties
  <2>2. sels[i].module = sels[j].module
    BY <1>4
  <2>3. ~(j > i) /\ ~(i > j)
    BY <1>4, <2>2
  <2>4. i = j
    BY <2>1, <2>3
  <2> QED BY <1>4, <2>4
<1> QED BY <1>1, <1>2, <1>3, <1>4

\* A package that reconciliation skips is on record as it is selected.
LEMMA SkippedIsListed ==
  ASSUME NEW pk \in Packages, NEW sels \in Seq(Selections), ~SelectsTwice(sels),
         NEW j \in DOMAIN sels, NEW found, NEW existing,
         PackageAction(found, existing, pk, sels, j) = "skip"
  PROVE  Lists1(pk, sels[j])
<1> DEFINE prefix == SubSeq(sels, 1, j - 1)
           n == sels[j].name
<1>1. DOMAIN sels = 1..Len(sels) /\ Len(sels) \in Nat
  BY LenProperties
<1>2. /\ prefix \in Seq(Selections) /\ DOMAIN prefix = 1..j - 1
      /\ \A i \in 1..j - 1 : prefix[i] = sels[i]
  BY <1>1, SubSeqProperties
<1>3. n \in DOMAIN Recorded(pk, prefix) /\ Recorded(pk, prefix)[n] = RecordOf(sels[j])
  BY DEF PackageAction
<1>4. \A i \in DOMAIN prefix : prefix[i].name # n
  BY <1>1, <1>2 DEF SelectsTwice
<1>5. n \in DOMAIN pk /\ Recorded(pk, prefix)[n] = pk[n]
  <2>1. prefix \in Seq(Selections) /\ n \in DOMAIN Recorded(pk, prefix)
    BY <1>2, <1>3
  <2> HIDE DEF prefix, n
  <2> QED BY <2>1, <1>4, RecordedCases
<1> QED BY <1>3, <1>5 DEF Lists1

\* A package on record as it is selected is skipped.
LEMMA ListedIsSkipped ==
  ASSUME NEW pk \in Packages, NEW sels \in Seq(Selections), ~SelectsTwice(sels),
         \A i, l \in DOMAIN sels : sels[i].module = sels[l].module => sels[i].name = sels[l].name,
         NEW j \in DOMAIN sels, NEW existing, Lists1(pk, sels[j])
  PROVE  PackageAction(TRUE, existing, pk, sels, j) = "skip"
<1> DEFINE prefix == SubSeq(sels, 1, j - 1)
           n == sels[j].name
<1>1. DOMAIN sels = 1..Len(sels) /\ Len(sels) \in Nat
  BY LenProperties
<1>2. /\ prefix \in Seq(Selections) /\ DOMAIN prefix = 1..j - 1
      /\ \A i \in 1..j - 1 : prefix[i] = sels[i]
  BY <1>1, SubSeqProperties
<1>3. \A i \in 1..j - 1 : sels[i].name # n /\ sels[i].module # sels[j].module
  BY <1>1 DEF SelectsTwice
<1>4. n \in DOMAIN pk /\ pk[n] = RecordOf(sels[j]) /\ pk[n].module = sels[j].module
  BY DEF Lists1, RecordOf
<1>5. n \in DOMAIN Recorded(pk, prefix) /\ Recorded(pk, prefix)[n] = pk[n]
  <2>1. \A i \in DOMAIN prefix : prefix[i].name # n /\ prefix[i].module # pk[n].module
    BY <1>2, <1>3, <1>4
  <2>2. prefix \in Seq(Selections) /\ n \in DOMAIN pk
    BY <1>2, <1>4
  <2> HIDE DEF prefix, n
  <2> QED BY <2>1, <2>2, RecordedKeeps
<1> QED BY <1>4, <1>5 DEF PackageAction

\* What a plan asks of each of its kits.
LEMMA PlanShape ==
  ASSUME SInv, NEW p \in Procs, pc[p] # "idle", NEW i \in DOMAIN plan[p].kits
  PROVE  LET sels == plan[p].select[KitAt(p, i)]
         IN  /\ i \in 1..Len(plan[p].kits) /\ KitAt(p, i) \in Kits
             /\ sels \in Seq(Selections) /\ DOMAIN sels = 1..Len(sels)
             /\ OnePackagePerModule(sels)
<1> DEFINE k == KitAt(p, i)
<1>1. plan[p] \in PlanTypes
  BY DEF SInv, IInv, TypeOK
<1>2. plan[p].kits \in Seq(Kits) /\ plan[p].select \in [Kits -> Seq(Selections)]
  BY <1>1 DEF PlanTypes
<1>3. i \in 1..Len(plan[p].kits) /\ k \in Kits
  BY <1>2, LenProperties, ElementOfSeq DEF KitAt
<1>4. plan[p].select[k] \in Seq(Selections)
  BY <1>2, <1>3
<1>5. PICK r \in Requests, v \in Releases : plan[p] = Resolved(r, v)
  BY DEF SInv, PlannedFromRequest
<1> DEFINE asked == r.select[k]
           sel == [j \in 1..Len(asked) |-> [name    |-> asked[j].name,
                                             module  |-> asked[j].module,
                                             version |-> v]]
<1>6. plan[p].select[k] = sel /\ plan[p].kits = r.kits
  <2>1. Resolved(r, v).kits = r.kits
    BY DEF Resolved
  <2>2. Resolved(r, v).select[k] = sel
    BY <1>3, Zenon DEF Resolved
  <2> QED BY <1>5, <2>1, <2>2, Zenon
<1>7. asked \in Seq([name : Names, module : Modules])
  BY <1>3, InstallerAssumption
<1>8. DOMAIN asked = 1..Len(asked)
  BY <1>7, LenProperties
<1>9. OnePackagePerModule(asked)
  BY <1>3, <1>6, InstallerAssumption DEF KitAt
<1>10. DOMAIN sel = DOMAIN asked
       /\ \A j \in DOMAIN asked : sel[j].name = asked[j].name /\ sel[j].module = asked[j].module
  BY <1>8
<1>11. OnePackagePerModule(sel)
  <2> HIDE DEF sel, asked
  <2> QED BY <1>9, <1>10 DEF OnePackagePerModule
<1>12. DOMAIN plan[p].select[k] = 1..Len(plan[p].select[k])
  BY <1>4, LenProperties
<1> QED BY <1>3, <1>4, <1>6, <1>11, <1>12, Zenon

\* The archives of a package that is installed or updated are pending.
LEMMA ArchivesArePending ==
  ASSUME NEW q \in PlanTypes, NEW i \in 1..Len(q.kits), NEW j \in 1..Len(q.select[q.kits[i]]),
         ActionIn(q, q.kits[i], j) \in {"install", "update"},
         NEW a \in 1..Len(ArchivesOf[q.select[q.kits[i]][j].name])
  PROVE  <<i, j, a>> \in PendingItems(q)
<1> DEFINE Test(x, y) == ActionIn(q, q.kits[x], y) \in {"install", "update"}
           S(x, y) == {<<x, y, b>> : b \in 1..Len(ArchivesOf[q.select[q.kits[x]][y].name])}
           T(x) == UNION {S(x, y) : y \in {y \in 1..Len(q.select[q.kits[x]]) : Test(x, y)}}
<1>1. PendingItems(q) = UNION {T(x) : x \in 1..Len(q.kits)}
  BY DEF PendingItems, ItemsOf
<1>2. <<i, j, a>> \in S(i, j)
  OBVIOUS
<1>3. <<i, j, a>> \in T(i)
  BY <1>2
<1> QED BY <1>1, <1>3

\* What reconciliation finds of the kit i of p's plan.
LEMMA ReconcileFinds ==
  ASSUME SInv, NEW p \in Procs, Reconcile(p), NEW i \in DOMAIN plan[p].kits
  PROVE  LET k    == KitAt(p, i)
             sels == plan[p].select[k]
         IN  /\ ~SelectsTwice(sels)
             /\ Lists(records'[p][k], sels)
             /\ \A j \in DOMAIN sels :
                  \/ Lists1(PackagesOf(k), sels[j])
                  \/ \A a \in DOMAIN ArchivesOf[sels[j].name] : <<i, j, a>> \in PendingItems(plan[p])
                  \/ /\ ActionIn(plan[p], k, j) = "adopt"
                     /\ ~Found(k) /\ sels[j].module = Base
             /\ i \notin ChangedKits(plan[p]) => Lists(PackagesOf(k), sels)
<1> DEFINE k == KitAt(p, i)
           sels == plan[p].select[k]
<1>1. pc[p] = "reconcile"
  BY DEF Reconcile
<1>2. /\ i \in 1..Len(plan[p].kits) /\ k \in Kits
      /\ sels \in Seq(Selections) /\ DOMAIN sels = 1..Len(sels)
      /\ OnePackagePerModule(sels)
  BY <1>1, PlanShape
<1>3. ~SelectsTwice(sels)
  BY <1>2 DEF Reconcile, KitAt
<1>4. PackagesOf(k) \in Packages
  BY <1>2, PackagesOfType DEF SInv, IInv
<1>5. records'[p][k] = Recorded(PackagesOf(k), sels)
  BY <1>2 DEF Reconcile, SInv, IInv, TypeOK
<1>6. Lists(records'[p][k], sels)
  <2> HIDE DEF k, sels
  <2> QED BY <1>2, <1>3, <1>4, <1>5, RecordedLists DEF OnePackagePerModule
<1>7. ASSUME NEW j \in DOMAIN sels, ActionIn(plan[p], k, j) = "skip"
      PROVE  Lists1(PackagesOf(k), sels[j])
  <2>1. PackageAction(Found(k), Existing(k), PackagesOf(k), sels, j) = "skip"
    BY <1>7 DEF ActionIn
  <2> HIDE DEF k, sels
  <2> QED BY <2>1, <1>2, <1>3, <1>4, <1>7, SkippedIsListed
<1>8. ASSUME NEW j \in DOMAIN sels
      PROVE  \/ Lists1(PackagesOf(k), sels[j])
             \/ \A a \in DOMAIN ArchivesOf[sels[j].name] : <<i, j, a>> \in PendingItems(plan[p])
             \/ /\ ActionIn(plan[p], k, j) = "adopt"
                /\ ~Found(k) /\ sels[j].module = Base
  <2>1. CASE ActionIn(plan[p], k, j) = "skip"
    BY <2>1, <1>7
  <2>2. CASE ActionIn(plan[p], k, j) = "adopt"
    BY <2>2 DEF ActionIn, PackageAction
  <2>3. CASE ActionIn(plan[p], k, j) \in {"install", "update"}
    <3>1. sels[j] \in Selections
      BY <1>2, ElementOfSeq
    <3>2. ArchivesOf[sels[j].name] \in Seq(Archives)
      BY <3>1, InstallerAssumption DEF Selections
    <3>3. DOMAIN ArchivesOf[sels[j].name] = 1..Len(ArchivesOf[sels[j].name])
      BY <3>2, LenProperties
    <3>4. plan[p] \in PlanTypes
      BY DEF SInv, IInv, TypeOK
    <3> QED BY <1>2, <2>3, <3>3, <3>4, ArchivesArePending DEF KitAt
  <2> QED BY <2>1, <2>2, <2>3 DEF ActionIn, PackageAction
<1>9. i \notin ChangedKits(plan[p]) => Lists(PackagesOf(k), sels)
  BY <1>2, <1>7 DEF ChangedKits, Lists, KitAt
<1> QED BY <1>3, <1>6, <1>8, <1>9

LEMMA OutcomeStep == SInv /\ Outcome /\ [Next]_vars => Outcome'
<1> SUFFICES ASSUME SInv, Outcome, [Next]_vars,
                    NEW p \in Procs, plan'[p].mode = "install", pc'[p] \in Unfinished,
                    NEW i \in DOMAIN plan'[p].kits, NEW k \in Kits, k = KitAt(p, i)'
             PROVE  Accounted(p, i, k)'
  BY DEF Outcome
<1>t. TypeOK /\ IInv
  BY DEF SInv, IInv
<1> USE DEF Goto, local, disk
<1>1. ASSUME plan'[p] = plan[p], pc[p] \in Unfinished, manifest'[k] = manifest[k],
             records'[p] = records[p], changed'[p] = changed[p], pending'[p] = pending[p],
             pc'[p] = "commit" =>
               \/ kitsLeft'[p] = changed[p]
               \/ pc[p] = "commit" /\ (i \in kitsLeft[p] => i \in kitsLeft'[p])
      PROVE  Accounted(p, i, k)'
  <2>1. Accounted(p, i, k)
    BY <1>1 DEF Outcome, KitAt
  <2>2. PackagesOf(k)' = PackagesOf(k) /\ Found(k)' = Found(k)
    BY <1>1 DEF PackagesOf, Found
  <2> QED BY <1>1, <2>1, <2>2 DEF Accounted
<1>2. ASSUME NEW q \in Procs \ {p}, Start(q) \/ Step(q) \/ Fail(q) \/ Crash(q)
      PROVE  Accounted(p, i, k)'
  <2>1. plan'[p] = plan[p] /\ pc'[p] = pc[p] /\ records'[p] = records[p]
    BY <1>2, <1>t DEF TypeOK, Start, Step, Acquire, Reconcile, Reject, SelectAll, Fetch,
       Fetched, BeginExtract, EndExtract, Extracted, Relocate, RelocateFails, Relocated,
       Commit, Committed, Release, Fail, Crash
  <2>2. lock = p
    BY <2>1, <1>t DEF IInv, OneMaterializer, InsideLock, LockedPhases, Unfinished
  <2>3. /\ manifest' = manifest /\ changed'[p] = changed[p] /\ pending'[p] = pending[p]
        /\ kitsLeft'[p] = kitsLeft[p]
    BY <1>2, <1>t, <2>2, OthersStandAside
  <2> QED BY <1>1, <2>1, <2>3
<1>3. CASE Reconcile(p)
  <2>1. /\ plan' = plan /\ manifest' = manifest /\ pc'[p] = "fetch"
        /\ changed'[p] = ChangedKits(plan[p]) /\ pending'[p] = PendingItems(plan[p])
    BY <1>3, <1>t DEF Reconcile, Unfinished, TypeOK
  <2>2. i \in DOMAIN plan[p].kits /\ k = KitAt(p, i)
    BY <2>1 DEF KitAt
  <2>3. PackagesOf(k)' = PackagesOf(k) /\ Found(k)' = Found(k)
    BY <2>1 DEF PackagesOf, Found
  <2> DEFINE sels == plan[p].select[k]
  <2>4. /\ ~SelectsTwice(sels) /\ Lists(records'[p][k], sels)
        /\ \A j \in DOMAIN sels :
             \/ Lists1(PackagesOf(k), sels[j])
             \/ \A a \in DOMAIN ArchivesOf[sels[j].name] : <<i, j, a>> \in PendingItems(plan[p])
             \/ ~Found(k) /\ sels[j].module = Base
        /\ i \notin ChangedKits(plan[p]) => Lists(PackagesOf(k), sels)
    BY <1>3, <2>2, ReconcileFinds
  <2> QED BY <2>1, <2>3, <2>4 DEF Accounted
<1>4. CASE \/ Fetch(p) \/ Fetched(p) \/ BeginExtract(p) \/ EndExtract(p)
           \/ Extracted(p) \/ Relocate(p) \/ Relocated(p)
  <2>1. /\ UNCHANGED local /\ manifest' = manifest /\ pc[p] \in Unfinished
        /\ pc'[p] = "commit" => kitsLeft'[p] = changed[p]
    BY <1>4, <1>t DEF Fetch, Fetched, BeginExtract, EndExtract, Extracted, Relocate, Relocated,
       Unfinished, TypeOK
  <2> QED BY <1>1, <2>1
<1>5. CASE Commit(p)
  <2>1. PICK c \in kitsLeft[p] :
          /\ manifest' = [manifest EXCEPT ![KitAt(p, c)] = records[p][KitAt(p, c)]]
          /\ kitsLeft' = [kitsLeft EXCEPT ![p] = @ \ {c}]
    BY <1>5 DEF Commit
  <2>2. pc[p] = "commit" /\ pc' = pc /\ UNCHANGED local
    BY <1>5 DEF Commit
  <2>3. CASE k = KitAt(p, c)
    <3>1. Accounted(p, i, k)
      BY <2>2 DEF Outcome, KitAt, Unfinished
    <3>2. manifest'[k] = records[p][k] /\ records[p][k] \in Packages
      BY <1>t, <2>1, <2>3 DEF TypeOK
    <3>3. PackagesOf(k)' = records[p][k]
      BY <3>2, InstallerAssumption DEF PackagesOf
    <3>4. Lists(PackagesOf(k)', plan[p].select[k])
      BY <3>1, <3>3 DEF Accounted
    <3> QED BY <2>2, <3>1, <3>4 DEF Accounted, Lists
  <2>4. CASE k # KitAt(p, c)
    <3>1. manifest'[k] = manifest[k] /\ i # c
      BY <1>t, <2>1, <2>2, <2>4 DEF TypeOK, KitAt
    <3>2. i \in kitsLeft[p] => i \in kitsLeft'[p]
      BY <1>t, <2>1, <3>1 DEF TypeOK
    <3> QED BY <1>1, <2>2, <3>1, <3>2 DEF Unfinished
  <2> QED BY <2>3, <2>4
<1>6. CASE \/ Start(p) \/ Acquire(p) \/ Reject(p) \/ SelectAll(p) \/ RelocateFails(p)
           \/ Committed(p) \/ Release(p) \/ Fail(p) \/ Crash(p)
  <2>1. ~SelectAll(p)
    BY DEF SelectAll
  <2>2. ~Start(p)
    <3>1. ASSUME NEW r \in Requests, NEW v \in Releases,
                 plan' = [plan EXCEPT ![p] = Resolved(r, v)],
                 r.mode # "download-only" => Goto(p, "idle", "waiting")
          PROVE  FALSE
      BY <1>t, <3>1 DEF Resolved, Unfinished, TypeOK
    <3> QED BY <3>1 DEF Start
  <2>3. pc'[p] \notin Unfinished
    BY <1>6, <1>t, <2>1, <2>2 DEF Acquire, Reject, RelocateFails, Committed, Release, Fail,
       Crash, Unfinished, TypeOK
  <2> QED BY <2>3
<1>7. CASE UNCHANGED vars
  BY <1>1, <1>7 DEF vars
<1> QED
  BY <1>2, <1>3, <1>4, <1>5, <1>6, <1>7 DEF Next, Step, Done

LEMMA SatisfiedStep == SInv /\ Outcome /\ Satisfied /\ [Next]_vars => Satisfied'
<1> SUFFICES ASSUME SInv, Outcome, Satisfied, [Next]_vars,
                    NEW p \in Procs, pc'[p] = "release", result'[p] \in {"installed", "satisfied"},
                    NEW i \in DOMAIN plan'[p].kits, NEW k \in Kits, k = KitAt(p, i)'
             PROVE  /\ ~SelectsTwice(plan'[p].select[k])
                    /\ Lists(PackagesOf(k)', plan'[p].select[k])
  BY DEF Satisfied
<1> DEFINE Goal == /\ ~SelectsTwice(plan'[p].select[k])
                   /\ Lists(PackagesOf(k)', plan'[p].select[k])
<1>t. TypeOK /\ IInv
  BY DEF SInv, IInv
<1> USE DEF Goto, local, disk
<1>1. ASSUME plan'[p] = plan[p], pc[p] = "release", result'[p] = result[p],
             manifest' = manifest
      PROVE  Goal
  BY <1>1 DEF Satisfied, KitAt, PackagesOf
<1>2. ASSUME NEW q \in Procs \ {p}, Start(q) \/ Step(q) \/ Fail(q) \/ Crash(q)
      PROVE  Goal
  <2>1. plan'[p] = plan[p] /\ pc'[p] = pc[p] /\ result'[p] = result[p]
    BY <1>2, <1>t DEF TypeOK, Start, Step, Acquire, Reconcile, Reject, SelectAll, Fetch,
       Fetched, BeginExtract, EndExtract, Extracted, Relocate, RelocateFails, Relocated,
       Commit, Committed, Release, Fail, Crash
  <2>2. lock = p
    BY <2>1, <1>t DEF IInv, OneMaterializer, InsideLock, LockedPhases
  <2>3. manifest' = manifest
    BY <1>2, <1>t, <2>2, OthersStandAside
  <2> QED BY <1>1, <2>1, <2>3
<1>3. CASE Reconcile(p)
  <2>1. plan' = plan /\ manifest' = manifest /\ ChangedKits(plan[p]) = {}
    BY <1>3, <1>t DEF Reconcile, TypeOK
  <2>2. i \in DOMAIN plan[p].kits /\ k = KitAt(p, i) /\ PackagesOf(k)' = PackagesOf(k)
    BY <2>1 DEF KitAt, PackagesOf
  <2>3. ~SelectsTwice(plan[p].select[k]) /\ Lists(PackagesOf(k), plan[p].select[k])
    BY <1>3, <2>1, <2>2, ReconcileFinds
  <2> QED BY <2>1, <2>2, <2>3
<1>4. CASE Committed(p)
  <2>1. /\ plan' = plan /\ manifest' = manifest /\ pc[p] = "commit" /\ kitsLeft[p] = {}
        /\ plan[p].mode = "install"
    BY <1>4, <1>t DEF Committed, IInv, LockedModes
  <2>2. Accounted(p, i, k)
    BY <2>1 DEF Outcome, KitAt, Unfinished
  <2> QED BY <2>1, <2>2 DEF Accounted, PackagesOf
<1>5. CASE \/ Start(p) \/ Acquire(p) \/ Reject(p) \/ SelectAll(p) \/ Fetch(p) \/ Fetched(p)
           \/ BeginExtract(p) \/ EndExtract(p) \/ Extracted(p) \/ Relocate(p)
           \/ RelocateFails(p) \/ Relocated(p) \/ Commit(p) \/ Release(p) \/ Fail(p) \/ Crash(p)
  <2>1. ~Start(p)
    <3>1. ASSUME Goto(p, "idle", "fetch") \/ Goto(p, "idle", "waiting") PROVE FALSE
      BY <1>t, <3>1 DEF TypeOK
    <3> QED BY <3>1 DEF Start
  <2> QED
    BY <1>5, <1>t, <2>1 DEF TypeOK, Acquire, Reject, SelectAll, Fetch, Fetched, BeginExtract,
       EndExtract, Extracted, Relocate, RelocateFails, Relocated, Commit, Release, Fail, Crash
<1>6. CASE UNCHANGED vars
  BY <1>1, <1>6 DEF vars
<1> QED BY <1>2, <1>3, <1>4, <1>5, <1>6 DEF Next, Step, Done

\* A manifest changes when a kit of an installation's plan is committed: it gets
\* what the plan selects, applied to what it says.
LEMMA ManifestStep ==
  ASSUME SInv, Outcome, [Next]_vars, NEW k \in Kits, manifest'[k] # manifest[k]
  PROVE  \E p \in Procs, i \in Nat :
           /\ pc[p] = "commit" /\ plan[p].mode = "install"
           /\ i \in DOMAIN plan[p].kits /\ k = KitAt(p, i)
           /\ plan[p].select[k] \in Seq(Selections) /\ OnePackagePerModule(plan[p].select[k])
           /\ PackagesOf(k) \in Packages /\ Accounted(p, i, k)
           /\ manifest'[k] = Recorded(PackagesOf(k), plan[p].select[k])
           /\ manifest'[k] = records[p][k]
           /\ UNCHANGED <<files, relocated>>
<1> USE DEF SInv, IInv, TypeOK
<1>1. PICK p \in Procs : Commit(p)
  BY DEF Next, Step, Done, vars, disk, Start, Acquire, Reconcile, Reject, SelectAll, Fetch,
     Fetched, BeginExtract, EndExtract, Extracted, Relocate, RelocateFails, Relocated,
     Committed, Release, Fail, Crash
<1>2. PICK i \in kitsLeft[p] :
        manifest' = [manifest EXCEPT ![KitAt(p, i)] = records[p][KitAt(p, i)]]
  BY <1>1 DEF Commit
<1>3. k = KitAt(p, i) /\ manifest'[k] = records[p][k]
  BY <1>2
<1>4. pc[p] = "commit" /\ plan[p].mode = "install"
  BY <1>1 DEF Commit, LockedModes
<1>5. i \in DOMAIN plan[p].kits
  <2>1. i \in 1..Len(plan[p].kits)
    BY <1>2, <1>4 DEF RecordsServe, Unfinished
  <2>2. plan[p].kits \in Seq(Kits)
    BY DEF PlanTypes
  <2> QED BY <2>1, <2>2, LenProperties
<1>6. plan[p].select[k] \in Seq(Selections) /\ OnePackagePerModule(plan[p].select[k])
  BY <1>3, <1>4, <1>5, PlanShape
<1>7. PackagesOf(k) \in Packages
  BY PackagesOfType
<1>8. Accounted(p, i, k)
  BY <1>3, <1>4, <1>5 DEF Outcome, Unfinished
<1>9. records[p][k] = Recorded(PackagesOf(k), plan[p].select[k])
  BY <1>3, <1>4 DEF RecordsServe, Unfinished
<1>10. UNCHANGED <<files, relocated>>
  BY <1>1 DEF Commit
<1> QED BY <1>3, <1>4, <1>5, <1>6, <1>7, <1>8, <1>9, <1>10

LEMMA OneRecordStep ==
  SInv /\ Outcome /\ OneRecordPerModule /\ [Next]_vars => OneRecordPerModule'
<1> SUFFICES ASSUME SInv, Outcome, OneRecordPerModule, [Next]_vars,
                    NEW k \in Kits, manifest'[k] # NoManifest
             PROVE  /\ OneOfEach(manifest'[k])
                    /\ \E n \in DOMAIN manifest'[k] : manifest'[k][n].module = Base
  BY DEF OneRecordPerModule, OneOfEach, Found
<1>1. CASE manifest'[k] = manifest[k]
  BY <1>1 DEF OneRecordPerModule, OneOfEach, Found
<1>2. CASE manifest'[k] # manifest[k]
  <2>1. PICK p \in Procs, i \in Nat :
          /\ plan[p].select[k] \in Seq(Selections) /\ OnePackagePerModule(plan[p].select[k])
          /\ PackagesOf(k) \in Packages /\ Accounted(p, i, k)
          /\ manifest'[k] = Recorded(PackagesOf(k), plan[p].select[k])
          /\ manifest'[k] = records[p][k]
    BY <1>2, ManifestStep
  <2>2. OneOfEach(PackagesOf(k))
    BY DEF OneRecordPerModule, OneOfEach, Found, PackagesOf, NoPackages
  <2>3. OneOfEach(manifest'[k])
    BY <2>1, <2>2, RecordedOneOfEach
  <2>4. PICK j \in DOMAIN plan[p].select[k] : plan[p].select[k][j].module = Base
    BY <2>1 DEF OnePackagePerModule
  <2>5. Lists1(manifest'[k], plan[p].select[k][j])
    BY <2>1 DEF Accounted, Lists
  <2> QED BY <2>3, <2>4, <2>5 DEF Lists1, RecordOf
<1> QED BY <1>1, <1>2

LEMMA DInvHolds == Spec => []DInv
<1>1. Init => Outcome /\ Satisfied /\ OneRecordPerModule
  BY DEF Init, Outcome, Satisfied, Unfinished, OneRecordPerModule, Found
<1>2. SInv /\ Outcome /\ Satisfied /\ OneRecordPerModule /\ [Next]_vars
        => (Outcome /\ Satisfied /\ OneRecordPerModule)'
  BY OutcomeStep, SatisfiedStep, OneRecordStep
<1>3. CInv => SInv
  BY DEF CInv
<1> QED BY <1>1, <1>2, <1>3, CInvHolds, PTL DEF Spec, DInv

\* Whatever the order of the requests and the names their packages have in the
\* repository's old and new layouts, a manifest has one base package and lists
\* no module twice (replacePackageRecord).
THEOREM OneRecordForEachModule == Spec => []OneRecordPerModule
BY DInvHolds, PTL DEF DInv

\* A request that succeeded, repeated at once, finds every package on record and
\* would do nothing, whatever it installed, updated, adopted or skipped.
THEOREM SuccessIsSatisfied == Spec => []RepeatIsSatisfied
<1>1. DInv => RepeatIsSatisfied
  <2> SUFFICES ASSUME DInv, NEW p \in Procs, pc[p] = "release",
                      result[p] \in {"installed", "satisfied"}, NEW i \in 1..Len(plan[p].kits),
                      NEW j \in 1..Len(plan[p].select[KitAt(p, i)])
               PROVE  ActionIn(plan[p], KitAt(p, i), j) = "skip"
    BY DEF RepeatIsSatisfied, ChangedKits, KitAt
  <2>1. SInv /\ plan[p] \in PlanTypes
    BY DEF DInv, CInv, SInv, IInv, TypeOK
  <2>2. i \in DOMAIN plan[p].kits
    BY <2>1, LenProperties DEF PlanTypes
  <2> DEFINE k == KitAt(p, i)
             sels == plan[p].select[k]
  <2>3. /\ k \in Kits /\ sels \in Seq(Selections) /\ j \in DOMAIN sels
        /\ OnePackagePerModule(sels)
    BY <2>1, <2>2, PlanShape
  <2>4. ~SelectsTwice(sels) /\ Lists(PackagesOf(k), sels)
    BY <2>2, <2>3 DEF DInv, Satisfied
  <2>5. Lists1(PackagesOf(k), sels[j])
    BY <2>3, <2>4 DEF Lists
  <2>6. Found(k)
    BY <2>5 DEF Lists1, PackagesOf, Found, NoPackages
  <2>7. PackagesOf(k) \in Packages
    BY <2>1, <2>3, PackagesOfType DEF SInv, IInv
  <2>8. PackageAction(TRUE, Existing(k), PackagesOf(k), sels, j) = "skip"
    <3> HIDE DEF k, sels
    <3> QED BY <2>3, <2>4, <2>5, <2>7, ListedIsSkipped DEF OnePackagePerModule
  <2> QED BY <2>6, <2>8 DEF ActionIn
<1> QED BY <1>1, DInvHolds, PTL

LEMMA NewRecordsStep ==
  ASSUME DInv, [Next]_vars, NEW k \in Kits, manifest'[k] # manifest[k],
         NEW n \in DOMAIN manifest'[k]
  PROVE  \/ n \in DOMAIN PackagesOf(k) /\ PackagesOf(k)[n] = manifest'[k][n]
         \/ Complete(k, n, manifest'[k][n].version)
         \/ ~Found(k) /\ manifest'[k][n].module = Base
<1> DEFINE new == manifest'[k][n]
<1>1. SInv /\ Outcome /\ Progress
  BY DEF DInv, CInv
<1>2. PICK p \in Procs, i \in Nat :
        /\ pc[p] = "commit" /\ plan[p].mode = "install" /\ k = KitAt(p, i)
        /\ plan[p].select[k] \in Seq(Selections)
        /\ PackagesOf(k) \in Packages /\ Accounted(p, i, k)
        /\ manifest'[k] = Recorded(PackagesOf(k), plan[p].select[k])
  BY <1>1, ManifestStep
<1> DEFINE sels == plan[p].select[k]
<1>3. CASE n \in DOMAIN PackagesOf(k) /\ new = PackagesOf(k)[n]
  BY <1>3
<1>4. CASE \E j \in DOMAIN sels : sels[j].name = n /\ new = RecordOf(sels[j])
  <2>1. PICK j \in DOMAIN sels : sels[j].name = n /\ new = RecordOf(sels[j])
    BY <1>4
  <2>2. CASE Lists1(PackagesOf(k), sels[j])
    BY <2>1, <2>2 DEF Lists1
  <2>3. CASE ~Found(k) /\ sels[j].module = Base
    BY <2>1, <2>3 DEF RecordOf
  <2>4. CASE \A a \in DOMAIN ArchivesOf[sels[j].name] : <<i, j, a>> \in pending[p]
    <3> SUFFICES ASSUME NEW a \in DOMAIN ArchivesOf[n]
                 PROVE  /\ files[k][ArchivesOf[n][a]] = new.version
                        /\ ArchivesOf[n][a] \in relocated[k]
      BY DEF Complete
    <3> DEFINE x == <<i, j, a>>
    <3>1. x \in pending[p]
      BY <2>1, <2>4
    <3>2. Extracted1(p, x) /\ Relocated1(p, x)
      BY <1>1, <1>2, <3>1 DEF Progress, Unfinished
    <3>3. x[1] = i /\ x[2] = j /\ x[3] = a
      OBVIOUS
    <3>4. KitAt(p, x[1]) = k /\ SelectionAt(p, x) = sels[j] /\ ArchiveAt(p, x) = ArchivesOf[n][a]
      BY <1>2, <2>1, <3>3 DEF SelectionAt, ArchiveAt
    <3> QED BY <2>1, <3>2, <3>4 DEF Extracted1, Relocated1, RecordOf
  <2> QED BY <1>2, <2>2, <2>3, <2>4 DEF Accounted
<1> QED BY <1>2, <1>3, <1>4, RecordedCases

\* A record that enters or changes a manifest describes a package that is
\* extracted at the recorded release and relocated, unless it is the base
\* package that the kit's first manifest adopts: a commit never records a
\* module, nor a base of a kit with a manifest, on trust.
THEOREM NewRecordsDescribeFiles == Spec => NewRecordsAreComplete
<1>1. DInv /\ [Next]_vars =>
        [\A k \in Kits : manifest'[k] # manifest[k] =>
           \A n \in DOMAIN manifest'[k] :
             LET new == manifest'[k][n]
             IN  \/ n \in DOMAIN PackagesOf(k) /\ PackagesOf(k)[n] = new
                 \/ Complete(k, n, new.version)
                 \/ ~Found(k) /\ new.module = Base]_vars
  BY NewRecordsStep
<1> QED BY <1>1, DInvHolds, PTL DEF Spec, NewRecordsAreComplete

\* A selection of a plan is one of a request.
LEMMA PlannedSelection ==
  ASSUME SInv, NEW p \in Procs, pc[p] # "idle", NEW i \in DOMAIN plan[p].kits,
         NEW j \in DOMAIN plan[p].select[KitAt(p, i)]
  PROVE  \E r \in Requests :
           /\ j \in DOMAIN r.select[KitAt(p, i)]
           /\ r.select[KitAt(p, i)][j].name = plan[p].select[KitAt(p, i)][j].name
           /\ r.select[KitAt(p, i)][j].module = plan[p].select[KitAt(p, i)][j].module
<1>1. PICK r \in Requests, v \in Releases : plan[p] = Resolved(r, v)
  BY DEF SInv, PlannedFromRequest
<1> DEFINE k == KitAt(p, i)
<1>2. k \in Kits
  BY PlanShape
<1>3. r.select[k] \in Seq([name : Names, module : Modules])
  BY <1>2, InstallerAssumption
<1>4. plan[p].select[k] = [l \in 1..Len(r.select[k]) |->
        [name |-> r.select[k][l].name, module |-> r.select[k][l].module, version |-> v]]
  BY <1>1, <1>2 DEF Resolved
<1>5. j \in 1..Len(r.select[k]) /\ DOMAIN r.select[k] = 1..Len(r.select[k])
  BY <1>3, <1>4, LenProperties
<1> QED BY <1>4, <1>5

\* A kit keeps its manifest, if only to replace it.
LEMMA FoundStays ==
  ASSUME SInv, Outcome, [Next]_vars, NEW k \in Kits, Found(k)
  PROVE  Found(k)'
<1>1. CASE manifest'[k] = manifest[k]
  BY <1>1 DEF Found
<1>2. CASE manifest'[k] # manifest[k]
  <2>1. PICK p \in Procs, i \in Nat :
          /\ plan[p].select[k] \in Seq(Selections) /\ PackagesOf(k) \in Packages
          /\ manifest'[k] = Recorded(PackagesOf(k), plan[p].select[k])
    BY <1>2, ManifestStep
  <2> QED BY <2>1, RecordedType, InstallerAssumption DEF Found
<1> QED BY <1>1, <1>2

-----------------------------------------------------------------------------
(***************************************************************************)
(* Success means complete.  Not in general, as the findings show; but it   *)
(* does where nothing of what they need happens.                           *)
(***************************************************************************)

Writing == {"extract", "extracting", "relocate", "commit"}

\* No tool left a kit without a manifest, no installation stops between its first
\* extraction and its last manifest, and no request only extracts.  And packages
\* are what they are in Qt's repository: those of different modules of a kit share
\* no archive, and the base package brings the files that validation looks at.
Undisturbed ==
  /\ LegacyKits = {}
  /\ FaultPhases \cap Writing = {}
  /\ \A r \in Requests : r.mode # "extract-only"
  /\ \A r, s \in Requests, k \in Kits :
       \A i \in DOMAIN r.select[k], j \in DOMAIN s.select[k] :
         r.select[k][i].module # s.select[k][j].module =>
           ToSet(ArchivesOf[r.select[k][i].name]) \cap ToSet(ArchivesOf[s.select[k][j].name]) = {}
  /\ \A r \in Requests, k \in Kits : \A i \in DOMAIN r.select[k] :
       r.select[k][i].module = Base => KeyArchives \subseteq ToSet(ArchivesOf[r.select[k][i].name])

\* Process p extracts archive a of kit k, and has not published the manifest of k.
Rewrites(p, k, a) ==
  /\ pc[p] \in Writing
  /\ \E x \in pending[p] : KitAt(p, x[1]) = k /\ ArchiveAt(p, x) = a
  /\ pc[p] = "commit" => \E i \in kitsLeft[p] : KitAt(p, i) = k

\* Archive a of kit k holds release v, relocated, or a process is rewriting it.
HeldOrRewritten(k, a, v) ==
  \/ files[k][a] = v /\ a \in relocated[k]
  \/ \E p \in Procs : Rewrites(p, k, a)

\* A manifest tells the truth about all that is not being rewritten.
ManifestsAreRight ==
  \A k \in Kits : Found(k) =>
    \A n \in DOMAIN manifest[k] : \A a \in ToSet(ArchivesOf[n]) :
      HeldOrRewritten(k, a, manifest[k][n].version)

\* What is in a kit without a manifest is being written.
NoStrangers ==
  \A k \in Kits : ~Found(k) =>
    \A a \in Archives : files[k][a] # Absent => \E p \in Procs : Rewrites(p, k, a)

\* A package on record is one that some request selects for the kit.
IsWanted(k, n, module) ==
  \E r \in Requests : \E j \in DOMAIN r.select[k] :
    r.select[k][j].name = n /\ r.select[k][j].module = module

RecordsAreWanted ==
  \A k \in Kits : Found(k) => \A n \in DOMAIN manifest[k] : IsWanted(k, n, manifest[k][n].module)

\* Outcome without its last case: no base package is adopted.
NothingIsAdopted ==
  \A p \in Procs : plan[p].mode = "install" /\ pc[p] \in Unfinished =>
    \A i \in DOMAIN plan[p].kits, k \in Kits : k = KitAt(p, i) =>
      \A j \in DOMAIN plan[p].select[k] :
        \/ Lists1(PackagesOf(k), plan[p].select[k][j])
        \/ \A a \in DOMAIN ArchivesOf[plan[p].select[k][j].name] : <<i, j, a>> \in pending[p]

\* What is left to extract is pending.
LeftIsPending ==
  \A p \in Procs : pc[p] \in {"extract", "extracting"} => todo[p] \subseteq pending[p]

WholeInv ==
  ManifestsAreRight /\ NoStrangers /\ RecordsAreWanted /\ NothingIsAdopted /\ LeftIsPending

\* All that the inductive steps below build on.
LEMMA DInvFacts ==
  ASSUME DInv
  PROVE  /\ TypeOK /\ IInv /\ SInv /\ Progress /\ Outcome /\ ItemsPlanned /\ OneMaterializer
         /\ LockedModes /\ OneRecordPerModule /\ Satisfied /\ PlannedFromRequest
BY DEF DInv, CInv, SInv, IInv

\* A process that writes is the owner of the lock, and it installs.
LEMMA WriterOwnsLock ==
  ASSUME Undisturbed, DInv, NEW p \in Procs, pc[p] \in Writing
  PROVE  /\ lock = p /\ plan[p].mode = "install" /\ pc[p] \in Unfinished /\ pc[p] # "idle"
         /\ pc[p] \notin FaultPhases
         /\ \A q \in Procs : pc[q] \in LockedPhases => q = p
<1>1. lock = p
  BY DInvFacts DEF OneMaterializer, InsideLock, LockedPhases, Writing
<1>2. plan[p].mode # "download-only"
  BY DInvFacts DEF LockedModes, LockedPhases, Writing
<1>3. pc[p] # "idle"
  BY DEF Writing
<1>4. PICK r \in Requests, v \in Releases : plan[p] = Resolved(r, v)
  BY <1>3, DInvFacts DEF PlannedFromRequest
<1>5. plan[p].mode = r.mode
  BY <1>4 DEF Resolved
<1>6. plan[p].mode = "install"
  BY <1>2, <1>5, InstallerAssumption DEF Undisturbed, Modes
<1>7. \A q \in Procs : pc[q] \in LockedPhases => q = p
  BY <1>1, DInvFacts DEF OneMaterializer, InsideLock
<1> QED BY <1>1, <1>3, <1>6, <1>7 DEF Undisturbed, Writing, Unfinished

\* The archive that an item names is one of its package's, and the package is
\* one that a request selects.
LEMMA ItemIsWanted ==
  ASSUME DInv, NEW p \in Procs, pc[p] # "idle", NEW x \in AllItems(plan[p])
  PROVE  LET k == KitAt(p, x[1])
             s == SelectionAt(p, x)
         IN  /\ x[1] \in DOMAIN plan[p].kits /\ k \in Kits
             /\ x[2] \in DOMAIN plan[p].select[k] /\ s = plan[p].select[k][x[2]]
             /\ s \in Selections
             /\ ArchiveAt(p, x) \in ToSet(ArchivesOf[s.name]) /\ ArchiveAt(p, x) \in Archives
             /\ IsWanted(k, s.name, s.module)
<1> DEFINE k == KitAt(p, x[1])
           s == SelectionAt(p, x)
<1>1. plan[p] \in PlanTypes
  BY DInvFacts DEF TypeOK
<1>2. /\ x[1] \in 1..Len(plan[p].kits) /\ k \in Kits /\ x[2] \in 1..Len(plan[p].select[k])
      /\ s \in Selections /\ x[3] \in DOMAIN ArchivesOf[s.name] /\ ArchiveAt(p, x) \in Archives
  BY <1>1, ItemType, Zenon DEF KitAt, SelectionAt, ArchiveAt
<1>3. plan[p].kits \in Seq(Kits) /\ plan[p].select[k] \in Seq(Selections)
  BY <1>1, <1>2 DEF PlanTypes
<1>4. x[1] \in DOMAIN plan[p].kits /\ x[2] \in DOMAIN plan[p].select[k]
  BY <1>2, <1>3, LenProperties
<1>5. s = plan[p].select[k][x[2]]
  BY DEF SelectionAt
<1>6. ArchiveAt(p, x) \in ToSet(ArchivesOf[s.name])
  BY <1>2 DEF ArchiveAt, ToSet
<1>7. SInv
  BY DInvFacts
<1>8. IsWanted(k, s.name, s.module)
  <2>1. \E r \in Requests :
           /\ x[2] \in DOMAIN r.select[k]
           /\ r.select[k][x[2]].name = plan[p].select[k][x[2]].name
           /\ r.select[k][x[2]].module = plan[p].select[k][x[2]].module
    BY <1>4, <1>7, PlannedSelection
  <2> QED BY <1>5, <2>1 DEF IsWanted
<1> QED BY <1>2, <1>4, <1>5, <1>6, <1>8

\* Packages of a kit that share an archive are of one module.
LEMMA SharingIsOfOneModule ==
  ASSUME Undisturbed, NEW k \in Kits, NEW m, NEW n, NEW a, NEW c, NEW d,
         IsWanted(k, m, c), IsWanted(k, n, d),
         a \in ToSet(ArchivesOf[m]), a \in ToSet(ArchivesOf[n])
  PROVE  c = d
BY DEF Undisturbed, IsWanted

-----------------------------------------------------------------------------
(* What is rewritten stays so until its manifest is published.             *)

LEMMA RewritingGoesOn ==
  ASSUME Undisturbed, DInv, [Next]_vars, NEW k, NEW a,
         NEW p \in Procs, Rewrites(p, k, a), ~RelocateFails(p)
  PROVE  \/ Rewrites(p, k, a)'
         \/ Commit(p) /\ \E i \in kitsLeft[p] :
              /\ KitAt(p, i) = k
              /\ manifest' = [manifest EXCEPT ![k] = records[p][k]]
<1>t. TypeOK /\ IInv /\ lock = p /\ plan[p].mode = "install" /\ pc[p] \notin FaultPhases
      /\ pc[p] \in Writing
  BY DInvFacts, WriterOwnsLock DEF Rewrites
<1> USE DEF Goto, local
<1>1. ASSUME plan'[p] = plan[p], pending'[p] = pending[p], pc'[p] \in Writing,
             pc'[p] = "commit" => pc[p] = "commit" /\ kitsLeft'[p] = kitsLeft[p]
      PROVE  Rewrites(p, k, a)'
  <2>1. /\ \A i : KitAt(p, i)' = KitAt(p, i)
        /\ \A x : ArchiveAt(p, x)' = ArchiveAt(p, x)
    BY <1>1, Zenon DEF KitAt, ArchiveAt, SelectionAt
  <2>2. PICK x \in pending[p] : KitAt(p, x[1]) = k /\ ArchiveAt(p, x) = a
    BY DEF Rewrites
  <2>3. x \in pending'[p] /\ KitAt(p, x[1])' = k /\ ArchiveAt(p, x)' = a
    BY <1>1, <2>1, <2>2
  <2>4. pc'[p] = "commit" => \E i \in kitsLeft'[p] : KitAt(p, i)' = k
    BY <1>1, <2>1 DEF Rewrites
  <2>5. \E y \in pending'[p] : KitAt(p, y[1])' = k /\ ArchiveAt(p, y)' = a
    BY <2>3, Zenon
  <2> QED BY <1>1, <2>4, <2>5 DEF Rewrites
<1>2. ASSUME NEW q \in Procs \ {p}, Start(q) \/ Step(q) \/ Fail(q) \/ Crash(q)
      PROVE  Rewrites(p, k, a)'
  <2>1. /\ plan'[p] = plan[p] /\ pc'[p] = pc[p] /\ pending'[p] = pending[p]
        /\ kitsLeft'[p] = kitsLeft[p]
    BY <1>2, <1>t, OthersStandAside
  <2> QED BY <1>1, <1>t, <2>1
<1>3. CASE BeginExtract(p) \/ EndExtract(p) \/ Relocate(p)
  <2>1. /\ plan' = plan /\ pending' = pending /\ pc'[p] \in Writing /\ pc'[p] # "commit"
    BY <1>3, <1>t DEF BeginExtract, EndExtract, Relocate, Writing, TypeOK
  <2> QED BY <1>1, <2>1
<1>4. CASE Extracted(p)
  <2>1. plan' = plan /\ pending' = pending /\ pc'[p] = "relocate"
    BY <1>4, <1>t DEF Extracted, TypeOK
  <2> QED BY <1>1, <2>1 DEF Writing
<1>5. CASE Relocated(p)
  <2>1. /\ plan' = plan /\ pending' = pending /\ pc'[p] = "commit" /\ pc[p] = "relocate"
        /\ kitsLeft'[p] = changed[p]
    BY <1>5, <1>t DEF Relocated, TypeOK
  <2>2. /\ \A i : KitAt(p, i)' = KitAt(p, i)
        /\ \A x : ArchiveAt(p, x)' = ArchiveAt(p, x)
    BY <2>1, Zenon DEF KitAt, ArchiveAt, SelectionAt
  <2>3. PICK x \in pending[p] : KitAt(p, x[1]) = k /\ ArchiveAt(p, x) = a
    BY DEF Rewrites
  <2>4. x[1] \in changed[p]
    BY <1>t, <2>3, DInvFacts DEF Progress, Unfinished, Writing
  <2>5. \E y \in pending'[p] : KitAt(p, y[1])' = k /\ ArchiveAt(p, y)' = a
    BY <2>1, <2>2, <2>3
  <2>6. \E i \in kitsLeft'[p] : KitAt(p, i)' = k
    BY <2>1, <2>2, <2>3, <2>4
  <2> QED BY <2>1, <2>5, <2>6 DEF Rewrites, Writing
<1>6. CASE Commit(p)
  <2>1. /\ plan' = plan /\ pending' = pending /\ pc' = pc /\ pc[p] = "commit"
    BY <1>6 DEF Commit
  <2>2. PICK c \in kitsLeft[p] :
          /\ manifest' = [manifest EXCEPT ![KitAt(p, c)] = records[p][KitAt(p, c)]]
          /\ kitsLeft' = [kitsLeft EXCEPT ![p] = @ \ {c}]
    BY <1>6 DEF Commit
  <2>3. CASE KitAt(p, c) = k
    BY <1>6, <2>2, <2>3
  <2>4. CASE KitAt(p, c) # k
    <3>1. /\ \A i : KitAt(p, i)' = KitAt(p, i)
          /\ \A x : ArchiveAt(p, x)' = ArchiveAt(p, x)
      BY <2>1, Zenon DEF KitAt, ArchiveAt, SelectionAt
    <3>2. PICK i \in kitsLeft[p] : KitAt(p, i) = k
      BY <2>1 DEF Rewrites
    <3>3. i \in kitsLeft'[p]
      BY <1>t, <2>2, <2>4, <3>2 DEF TypeOK
    <3>4. \E y \in pending'[p] : KitAt(p, y[1])' = k /\ ArchiveAt(p, y)' = a
      BY <2>1, <3>1 DEF Rewrites
    <3>5. \E j \in kitsLeft'[p] : KitAt(p, j)' = k
      BY <3>1, <3>2, <3>3
    <3> QED BY <1>t, <2>1, <3>4, <3>5 DEF Rewrites
  <2> QED BY <2>3, <2>4
<1>7. ~Committed(p)
  BY DEF Committed, Rewrites
<1>8. CASE \/ Start(p) \/ Acquire(p) \/ Reconcile(p) \/ Reject(p) \/ SelectAll(p) \/ Fetch(p)
           \/ Fetched(p) \/ Release(p) \/ Fail(p) \/ Crash(p)
  <2>1. ~Start(p)
    BY <1>t DEF Start, Writing
  <2> QED BY <1>t, <1>8, <2>1 DEF Acquire, Reconcile, Reject, SelectAll, Fetch, Fetched, Release,
       Fail, Crash, Writing
<1>9. CASE UNCHANGED vars
  BY <1>1, <1>9, <1>t DEF vars
<1> QED BY <1>2, <1>3, <1>4, <1>5, <1>6, <1>7, <1>8, <1>9 DEF Next, Step, Done

\* What is left to extract is pending, step by step.
LEMMA LeftStep ==
  Undisturbed /\ DInv /\ LeftIsPending /\ [Next]_vars => LeftIsPending'
<1> SUFFICES ASSUME Undisturbed, DInv, LeftIsPending, [Next]_vars, NEW p \in Procs,
                    pc'[p] \in {"extract", "extracting"}
             PROVE  todo'[p] \subseteq pending'[p]
  BY DEF LeftIsPending
<1>t. TypeOK /\ IInv
  BY DInvFacts
<1> USE DEF Goto, local
<1>1. ASSUME pc[p] \in {"extract", "extracting"}, todo'[p] \subseteq todo[p],
             pending'[p] = pending[p]
      PROVE  todo'[p] \subseteq pending'[p]
  BY <1>1 DEF LeftIsPending
<1>2. ASSUME NEW q \in Procs \ {p}, Start(q) \/ Step(q) \/ Fail(q) \/ Crash(q)
      PROVE  todo'[p] \subseteq pending'[p]
  <2>1. pc'[p] = pc[p]
    BY <1>2, <1>t DEF TypeOK, Start, Step, Acquire, Reconcile, Reject, SelectAll, Fetch,
       Fetched, BeginExtract, EndExtract, Extracted, Relocate, RelocateFails, Relocated,
       Commit, Committed, Release, Fail, Crash
  <2>2. lock = p
    BY <2>1, <1>t DEF IInv, OneMaterializer, InsideLock, LockedPhases
  <2>3. todo'[p] = todo[p] /\ pending'[p] = pending[p]
    BY <1>2, <1>t, <2>2, OthersStandAside
  <2> QED BY <1>1, <2>1, <2>3
<1>3. CASE Fetched(p)
  BY <1>3, <1>t DEF Fetched, TypeOK
<1>4. CASE BeginExtract(p) \/ EndExtract(p)
  <2>1. /\ pc[p] \in {"extract", "extracting"} /\ pending' = pending
        /\ todo'[p] \subseteq todo[p]
    BY <1>4, <1>t DEF BeginExtract, EndExtract, TypeOK
  <2> QED BY <1>1, <2>1
<1>5. CASE \/ Start(p) \/ Acquire(p) \/ Reconcile(p) \/ Reject(p) \/ SelectAll(p) \/ Fetch(p)
           \/ Extracted(p) \/ Relocate(p) \/ RelocateFails(p) \/ Relocated(p) \/ Commit(p)
           \/ Committed(p) \/ Release(p) \/ Fail(p) \/ Crash(p)
  <2>1. pc'[p] \notin {"extract", "extracting"}
    <3>1. CASE Start(p)
      <4>1. ASSUME Goto(p, "idle", "fetch") \/ Goto(p, "idle", "waiting")
            PROVE  pc'[p] \notin {"extract", "extracting"}
        BY <1>t, <4>1 DEF TypeOK
      <4> QED BY <3>1, <4>1 DEF Start
    <3>2. CASE ~Start(p)
      BY <1>5, <1>t, <3>2 DEF TypeOK, Acquire, Reconcile, Reject, SelectAll, Fetch, Extracted,
         Relocate, RelocateFails, Relocated, Commit, Committed, Release, Fail, Crash
    <3> QED BY <3>1, <3>2
  <2> QED BY <2>1
<1>6. CASE UNCHANGED vars
  BY <1>1, <1>6 DEF vars
<1> QED BY <1>2, <1>3, <1>4, <1>5, <1>6 DEF Next, Step, Done

\* A kit on record is one of which a request selects the recorded packages.
LEMMA WantedStep ==
  DInv /\ RecordsAreWanted /\ [Next]_vars => RecordsAreWanted'
<1> SUFFICES ASSUME DInv, RecordsAreWanted, [Next]_vars, NEW k \in Kits, Found(k)',
                    NEW n \in DOMAIN manifest'[k]
             PROVE  IsWanted(k, n, manifest'[k][n].module)
  BY DEF RecordsAreWanted, IsWanted
<1>1. CASE manifest'[k] = manifest[k]
  BY <1>1 DEF RecordsAreWanted, Found
<1>2. CASE manifest'[k] # manifest[k]
  <2>1. SInv /\ Outcome
    BY DInvFacts
  <2>2. PICK p \in Procs, i \in Nat :
          /\ pc[p] = "commit" /\ i \in DOMAIN plan[p].kits /\ k = KitAt(p, i)
          /\ plan[p].select[k] \in Seq(Selections) /\ PackagesOf(k) \in Packages
          /\ manifest'[k] = Recorded(PackagesOf(k), plan[p].select[k])
    BY <1>2, <2>1, ManifestStep
  <2> DEFINE sels == plan[p].select[k]
  <2>3. CASE n \in DOMAIN PackagesOf(k) /\ manifest'[k][n] = PackagesOf(k)[n]
    <3>1. Found(k) /\ PackagesOf(k) = manifest[k]
      BY <2>3 DEF PackagesOf, Found, NoPackages
    <3> QED BY <2>3, <3>1 DEF RecordsAreWanted
  <2>4. CASE \E j \in DOMAIN sels : sels[j].name = n /\ manifest'[k][n] = RecordOf(sels[j])
    <3>1. PICK j \in DOMAIN sels : sels[j].name = n /\ manifest'[k][n] = RecordOf(sels[j])
      BY <2>4
    <3>2. \E r \in Requests :
            /\ j \in DOMAIN r.select[KitAt(p, i)]
            /\ r.select[KitAt(p, i)][j].name = plan[p].select[KitAt(p, i)][j].name
            /\ r.select[KitAt(p, i)][j].module = plan[p].select[KitAt(p, i)][j].module
      BY <2>1, <2>2, PlannedSelection
    <3> QED BY <2>2, <3>1, <3>2 DEF IsWanted, RecordOf
  <2> QED BY <2>2, <2>3, <2>4, RecordedCases
<1> QED BY <1>1, <1>2

\* Reconciliation adopts nothing: a kit without a manifest is empty, since nobody
\* else writes while a process reconciles.
LEMMA AdoptionStep ==
  Undisturbed /\ DInv /\ NoStrangers /\ NothingIsAdopted /\ [Next]_vars => NothingIsAdopted'
<1> SUFFICES ASSUME Undisturbed, DInv, NoStrangers, NothingIsAdopted, [Next]_vars,
                    NEW p \in Procs, plan'[p].mode = "install", pc'[p] \in Unfinished,
                    NEW i \in DOMAIN plan'[p].kits, NEW k \in Kits, k = KitAt(p, i)',
                    NEW j \in DOMAIN plan'[p].select[k]
             PROVE  \/ Lists1(PackagesOf(k)', plan'[p].select[k][j])
                    \/ \A a \in DOMAIN ArchivesOf[plan'[p].select[k][j].name] :
                         <<i, j, a>> \in pending'[p]
  BY DEF NothingIsAdopted, Lists1
<1> DEFINE Goal == \/ Lists1(PackagesOf(k)', plan'[p].select[k][j])
                   \/ \A a \in DOMAIN ArchivesOf[plan'[p].select[k][j].name] :
                        <<i, j, a>> \in pending'[p]
<1>t. TypeOK /\ IInv /\ SInv /\ Outcome
  BY DInvFacts
<1> USE DEF Goto, local, disk
<1>1. ASSUME plan'[p] = plan[p], pc[p] \in Unfinished, manifest'[k] = manifest[k],
             pending'[p] = pending[p]
      PROVE  Goal
  <2>1. PackagesOf(k)' = PackagesOf(k)
    BY <1>1 DEF PackagesOf
  <2>2. i \in DOMAIN plan[p].kits /\ k = KitAt(p, i) /\ j \in DOMAIN plan[p].select[k]
    BY <1>1 DEF KitAt
  <2> QED BY <1>1, <2>1, <2>2 DEF NothingIsAdopted
<1>2. ASSUME NEW q \in Procs \ {p}, Start(q) \/ Step(q) \/ Fail(q) \/ Crash(q)
      PROVE  Goal
  <2>1. plan'[p] = plan[p] /\ pc'[p] = pc[p]
    BY <1>2, <1>t DEF TypeOK, Start, Step, Acquire, Reconcile, Reject, SelectAll, Fetch,
       Fetched, BeginExtract, EndExtract, Extracted, Relocate, RelocateFails, Relocated,
       Commit, Committed, Release, Fail, Crash
  <2>2. lock = p
    BY <2>1, <1>t DEF IInv, OneMaterializer, InsideLock, LockedPhases, Unfinished
  <2>3. manifest' = manifest /\ pending'[p] = pending[p]
    BY <1>2, <1>t, <2>2, OthersStandAside
  <2> QED BY <1>1, <2>1, <2>3
<1>3. CASE Reconcile(p)
  <2>1. /\ plan' = plan /\ manifest' = manifest /\ pc'[p] = "fetch" /\ pc[p] = "reconcile"
        /\ pending'[p] = PendingItems(plan[p])
    BY <1>3, <1>t DEF Reconcile, Unfinished, TypeOK
  <2>2. i \in DOMAIN plan[p].kits /\ k = KitAt(p, i) /\ j \in DOMAIN plan[p].select[k]
    BY <2>1 DEF KitAt
  <2>3. PackagesOf(k)' = PackagesOf(k)
    BY <2>1 DEF PackagesOf
  <2> DEFINE sels == plan[p].select[k]
  <2>4. \/ Lists1(PackagesOf(k), sels[j])
        \/ \A a \in DOMAIN ArchivesOf[sels[j].name] : <<i, j, a>> \in PendingItems(plan[p])
        \/ ActionIn(plan[p], k, j) = "adopt"
    BY <1>3, <1>t, <2>2, ReconcileFinds
  <2>5. ActionIn(plan[p], k, j) # "adopt"
    <3>1. ASSUME ~Found(k), Existing(k) PROVE FALSE
      <4>1. PICK a \in Archives : files[k][a] # Absent
        BY <3>1 DEF Existing, Present
      <4>2. PICK q \in Procs : Rewrites(q, k, a)
        BY <3>1, <4>1 DEF NoStrangers
      <4>3. pc[q] \in Writing
        BY <4>2 DEF Rewrites
      <4>4. q = p
        BY <2>1, <4>3, WriterOwnsLock DEF LockedPhases
      <4> QED BY <2>1, <4>3, <4>4 DEF Writing
    <3> QED BY <3>1 DEF ActionIn, PackageAction
  <2> QED BY <2>1, <2>3, <2>4, <2>5
<1>4. CASE \/ Fetch(p) \/ Fetched(p) \/ BeginExtract(p) \/ EndExtract(p)
           \/ Extracted(p) \/ Relocate(p) \/ Relocated(p)
  <2>1. UNCHANGED local /\ manifest' = manifest /\ pc[p] \in Unfinished
    BY <1>4, <1>t DEF Fetch, Fetched, BeginExtract, EndExtract, Extracted, Relocate, Relocated,
       Unfinished, TypeOK
  <2> QED BY <1>1, <2>1
<1>5. CASE Commit(p)
  <2>1. pc[p] = "commit" /\ pc' = pc /\ UNCHANGED local
    BY <1>5 DEF Commit
  <2>2. PICK c \in kitsLeft[p] :
          manifest' = [manifest EXCEPT ![KitAt(p, c)] = records[p][KitAt(p, c)]]
    BY <1>5 DEF Commit
  <2>3. CASE k = KitAt(p, c)
    <3>1. Accounted(p, i, k)
      BY <1>t, <2>1 DEF Outcome, KitAt, Unfinished
    <3>2. manifest'[k] = records[p][k] /\ records[p][k] \in Packages
      BY <1>t, <2>2, <2>3 DEF TypeOK
    <3>3. PackagesOf(k)' = records[p][k]
      BY <3>2, InstallerAssumption DEF PackagesOf
    <3> QED BY <2>1, <3>1, <3>3 DEF Accounted, Lists
  <2>4. CASE k # KitAt(p, c)
    <3>1. manifest'[k] = manifest[k]
      BY <1>t, <2>2, <2>4 DEF TypeOK
    <3> QED BY <1>1, <2>1, <3>1 DEF Unfinished
  <2> QED BY <2>3, <2>4
<1>6. CASE \/ Start(p) \/ Acquire(p) \/ Reject(p) \/ SelectAll(p) \/ RelocateFails(p)
           \/ Committed(p) \/ Release(p) \/ Fail(p) \/ Crash(p)
  <2>1. ~SelectAll(p)
    BY DEF SelectAll
  <2>2. ~Start(p)
    <3>1. ASSUME NEW r \in Requests, NEW v \in Releases,
                 plan' = [plan EXCEPT ![p] = Resolved(r, v)],
                 r.mode # "download-only" => Goto(p, "idle", "waiting")
          PROVE  FALSE
      BY <1>t, <3>1 DEF Resolved, Unfinished, TypeOK
    <3> QED BY <3>1 DEF Start
  <2>3. pc'[p] \notin Unfinished
    BY <1>6, <1>t, <2>1, <2>2 DEF Acquire, Reject, RelocateFails, Committed, Release, Fail,
       Crash, Unfinished, TypeOK
  <2> QED BY <2>3
<1>7. CASE UNCHANGED vars
  BY <1>1, <1>7 DEF vars
<1> QED BY <1>2, <1>3, <1>4, <1>5, <1>6, <1>7 DEF Next, Step, Done

-----------------------------------------------------------------------------
(* What is written is what is recorded.                                    *)

\* What an installation that is past extraction has to do with an archive of a
\* package on record: it is there already, or among what was extracted for the
\* package's module.
LEMMA RecordedIsExtracted ==
  ASSUME Undisturbed, DInv, WholeInv, NEW p \in Procs, pc[p] \in {"relocate", "commit"},
         NEW k \in Kits, Found(k), NEW n \in DOMAIN manifest[k], NEW a \in ToSet(ArchivesOf[n])
  PROVE  \/ files[k][a] = manifest[k][n].version /\ a \in relocated[k]
         \/ \E j \in DOMAIN plan[p].select[k] : \E i \in DOMAIN plan[p].kits :
              LET s == plan[p].select[k][j]
              IN  /\ k = KitAt(p, i) /\ s \in Selections
                  /\ s.module = manifest[k][n].module
                  /\ files[k][a] = s.version
                  /\ pc[p] = "commit" => a \in relocated[k]
<1>1. HeldOrRewritten(k, a, manifest[k][n].version)
  BY DEF WholeInv, ManifestsAreRight
<1>2. ASSUME NEW q \in Procs, Rewrites(q, k, a)
      PROVE  \E j \in DOMAIN plan[p].select[k] : \E i \in DOMAIN plan[p].kits :
               LET s == plan[p].select[k][j]
               IN  /\ k = KitAt(p, i) /\ s \in Selections
                   /\ s.module = manifest[k][n].module
                   /\ files[k][a] = s.version
                   /\ pc[p] = "commit" => a \in relocated[k]
  <2>1. pc[p] \in Writing /\ pc[p] \in LockedPhases /\ pc[p] \in Unfinished /\ pc[p] # "idle"
    BY DEF Writing, LockedPhases, Unfinished
  <2>2. q = p
    BY <1>2, <2>1, WriterOwnsLock DEF Rewrites
  <2>3. PICK x \in pending[p] : KitAt(p, x[1]) = k /\ ArchiveAt(p, x) = a
    BY <1>2, <2>2 DEF Rewrites
  <2>4. x \in AllItems(plan[p]) /\ plan[p].mode = "install" /\ Progress
    BY <2>1, <2>3, DInvFacts, WriterOwnsLock DEF ItemsPlanned
  <2> DEFINE s == plan[p].select[k][x[2]]
  <2>5. /\ x[1] \in DOMAIN plan[p].kits /\ x[2] \in DOMAIN plan[p].select[k]
        /\ SelectionAt(p, x) = s /\ s \in Selections /\ a \in ToSet(ArchivesOf[s.name])
        /\ IsWanted(k, s.name, s.module)
    BY <2>1, <2>3, <2>4, ItemIsWanted
  <2>6. IsWanted(k, n, manifest[k][n].module)
    BY DEF WholeInv, RecordsAreWanted
  <2>7. s.module = manifest[k][n].module
    <3> HIDE DEF s
    <3> QED BY <2>5, <2>6, SharingIsOfOneModule
  <2>8. Extracted1(p, x) /\ (pc[p] = "commit" => Relocated1(p, x))
    BY <2>1, <2>3, <2>4 DEF Progress
  <2>9. files[k][a] = s.version /\ (pc[p] = "commit" => a \in relocated[k])
    BY <2>3, <2>5, <2>8 DEF Extracted1, Relocated1
  <2> QED BY <2>3, <2>5, <2>7, <2>9
<1> QED BY <1>1, <1>2 DEF HeldOrRewritten

\* The files that validation looks at are there when a kit is relocated.
LEMMA KeysAreThere ==
  ASSUME Undisturbed, DInv, WholeInv, NEW p \in Procs, pc[p] = "relocate",
         NEW i \in kitsLeft[p]
  PROVE  ~MayInvalidate(KitAt(p, i))
<1> DEFINE k == KitAt(p, i)
           sels == plan[p].select[k]
<1> SUFFICES ASSUME NEW a \in KeyArchives PROVE files[k][a] \in Releases
  BY DEF MayInvalidate
<1>0. /\ TypeOK /\ SInv /\ Progress /\ plan[p].mode = "install" /\ pc[p] \in Unfinished
      /\ pc[p] # "idle"
  BY DInvFacts, WriterOwnsLock DEF Writing
<1>1. i \in DOMAIN plan[p].kits
  <2>1. i \in 1..Len(plan[p].kits)
    BY <1>0 DEF SInv, RecordsServe
  <2>2. plan[p].kits \in Seq(Kits)
    BY <1>0 DEF TypeOK, PlanTypes
  <2> QED BY <2>1, <2>2, LenProperties
<1>2. k \in Kits /\ sels \in Seq(Selections) /\ OnePackagePerModule(sels)
  BY <1>0, <1>1, PlanShape
<1>3. PICK j \in DOMAIN sels : sels[j].module = Base
  BY <1>2 DEF OnePackagePerModule
<1>4. a \in ToSet(ArchivesOf[sels[j].name])
  <2>1. \E r \in Requests :
           /\ j \in DOMAIN r.select[k]
           /\ r.select[k][j].name = sels[j].name
           /\ r.select[k][j].module = sels[j].module
    BY <1>0, <1>1, PlannedSelection
  <2> HIDE DEF k, sels
  <2> QED BY <1>2, <1>3, <2>1 DEF Undisturbed
<1>5. PICK b \in DOMAIN ArchivesOf[sels[j].name] : ArchivesOf[sels[j].name][b] = a
  BY <1>4 DEF ToSet
<1>6. sels[j] \in Selections
  BY <1>2, ElementOfSeq, LenProperties
<1>7. CASE Lists1(PackagesOf(k), sels[j])
  <2>1. Found(k) /\ sels[j].name \in DOMAIN manifest[k] /\ manifest[k][sels[j].name] = RecordOf(sels[j])
    BY <1>7 DEF Lists1, PackagesOf, Found, NoPackages
  <2>2. manifest[k][sels[j].name].version \in Releases
    BY <1>6, <2>1 DEF RecordOf, Selections
  <2>3. \/ files[k][a] = manifest[k][sels[j].name].version
        \/ \E l \in DOMAIN plan[p].select[k] :
             plan[p].select[k][l] \in Selections /\ files[k][a] = plan[p].select[k][l].version
    <3> HIDE DEF k, sels
    <3> QED BY <1>2, <1>4, <2>1, RecordedIsExtracted
  <2> QED BY <2>2, <2>3 DEF Selections
<1>8. CASE \A c \in DOMAIN ArchivesOf[sels[j].name] : <<i, j, c>> \in pending[p]
  <2> DEFINE x == <<i, j, b>>
  <2>1. x \in pending[p] /\ x[1] = i /\ x[2] = j /\ x[3] = b
    BY <1>8
  <2>2. Extracted1(p, x)
    BY <1>0, <2>1 DEF Progress
  <2>3. SelectionAt(p, x) = sels[j] /\ ArchiveAt(p, x) = a
    BY <1>5, <2>1 DEF SelectionAt, ArchiveAt
  <2>4. files[k][a] = sels[j].version
    BY <2>1, <2>2, <2>3 DEF Extracted1
  <2> QED BY <1>6, <2>4 DEF Selections
<1> QED BY <1>0, <1>1, <1>2, <1>3, <1>7, <1>8 DEF WholeInv, NothingIsAdopted

\* Every package that a commit records is extracted at its release and relocated.
LEMMA CommitIsRight ==
  ASSUME Undisturbed, DInv, WholeInv, NEW p \in Procs, pc[p] = "commit",
         NEW i \in kitsLeft[p], NEW k, k = KitAt(p, i),
         NEW n \in DOMAIN records[p][k], NEW a \in ToSet(ArchivesOf[n])
  PROVE  files[k][a] = records[p][k][n].version /\ a \in relocated[k]
<1> DEFINE sels == plan[p].select[k]
           new == records[p][k]
           Right == files[k][a] = new[n].version /\ a \in relocated[k]
<1>0. /\ TypeOK /\ SInv /\ Progress /\ Outcome /\ OneRecordPerModule /\ pc[p] # "idle"
      /\ plan[p].mode = "install" /\ pc[p] \in Unfinished
  BY DInvFacts, WriterOwnsLock DEF Writing
<1>1. i \in DOMAIN plan[p].kits
  <2>1. i \in 1..Len(plan[p].kits)
    BY <1>0 DEF SInv, RecordsServe
  <2>2. plan[p].kits \in Seq(Kits)
    BY <1>0 DEF TypeOK, PlanTypes
  <2> QED BY <2>1, <2>2, LenProperties
<1>2. k \in Kits /\ sels \in Seq(Selections) /\ OnePackagePerModule(sels)
  BY <1>0, <1>1, PlanShape
<1>3. Lists(new, sels) /\ ~SelectsTwice(sels)
  BY <1>0, <1>1, <1>2 DEF Outcome, Accounted
<1>4. PackagesOf(k) \in Packages /\ (Found(k) => PackagesOf(k) = manifest[k])
  BY <1>0, <1>2, PackagesOfType DEF PackagesOf, Found
<1>5. ASSUME Found(k), n \in DOMAIN manifest[k]
      PROVE  \/ files[k][a] = manifest[k][n].version /\ a \in relocated[k]
             \/ \E j \in DOMAIN sels :
                  /\ sels[j].module = manifest[k][n].module
                  /\ files[k][a] = sels[j].version /\ a \in relocated[k]
  BY <1>2, <1>5, RecordedIsExtracted
<1>6. CASE manifest[k] = new
  <2>1. Found(k)
    <3>1. new \in Packages
      BY <1>0, <1>2 DEF TypeOK
    <3> QED BY <1>6, <3>1, InstallerAssumption DEF Found
  <2>2. ASSUME NEW j \in DOMAIN sels, sels[j].module = manifest[k][n].module
        PROVE  new[n].version = sels[j].version
    <3>1. sels[j].name \in DOMAIN manifest[k] /\ manifest[k][sels[j].name] = RecordOf(sels[j])
      BY <1>3, <1>6 DEF Lists, Lists1
    <3>2. manifest[k][sels[j].name].module = manifest[k][n].module
      BY <2>2, <3>1 DEF RecordOf
    <3>3. sels[j].name = n
      BY <1>0, <1>2, <1>6, <2>1, <3>1, <3>2 DEF OneRecordPerModule
    <3> QED BY <1>6, <3>1, <3>3 DEF RecordOf
  <2> QED BY <1>5, <1>6, <2>1, <2>2
<1>7. CASE new = Recorded(PackagesOf(k), sels)
  <2>1. CASE /\ n \in DOMAIN PackagesOf(k) /\ new[n] = PackagesOf(k)[n]
             /\ \A j \in DOMAIN sels : sels[j].name # n /\ sels[j].module # PackagesOf(k)[n].module
    <3>1. Found(k)
      BY <2>1 DEF PackagesOf, Found, NoPackages
    <3> QED BY <1>4, <1>5, <2>1, <3>1
  <2>2. CASE \E j \in DOMAIN sels : sels[j].name = n /\ new[n] = RecordOf(sels[j])
    <3>1. PICK j \in DOMAIN sels : sels[j].name = n /\ new[n] = RecordOf(sels[j])
      BY <2>2
    <3>2. CASE Lists1(PackagesOf(k), sels[j])
      <4>1. Found(k) /\ n \in DOMAIN manifest[k] /\ manifest[k][n] = RecordOf(sels[j])
        BY <3>1, <3>2 DEF Lists1, PackagesOf, Found, NoPackages
      <4>2. ASSUME NEW l \in DOMAIN sels, sels[l].module = manifest[k][n].module
            PROVE  sels[l].version = new[n].version
        <5>1. sels[l].name = sels[j].name
          BY <1>2, <4>1, <4>2 DEF OnePackagePerModule, RecordOf
        <5>2. l = j
          BY <1>3, <5>1 DEF SelectsTwice
        <5> QED BY <3>1, <5>2 DEF RecordOf
      <4> QED BY <1>5, <3>1, <4>1, <4>2
    <3>3. CASE \A c \in DOMAIN ArchivesOf[sels[j].name] : <<i, j, c>> \in pending[p]
      <4>1. PICK b \in DOMAIN ArchivesOf[n] : ArchivesOf[n][b] = a
        BY DEF ToSet
      <4> DEFINE x == <<i, j, b>>
      <4>2. x \in pending[p] /\ x[1] = i /\ x[2] = j /\ x[3] = b
        BY <3>1, <3>3, <4>1
      <4>3. Extracted1(p, x) /\ Relocated1(p, x)
        BY <1>0, <4>2 DEF Progress
      <4>4. KitAt(p, x[1]) = k /\ SelectionAt(p, x) = sels[j] /\ ArchiveAt(p, x) = a
        BY <3>1, <4>1, <4>2 DEF SelectionAt, ArchiveAt
      <4> QED BY <3>1, <4>3, <4>4 DEF Extracted1, Relocated1, RecordOf
    <3> QED BY <1>0, <1>1, <1>2, <3>2, <3>3 DEF WholeInv, NothingIsAdopted
  <2> QED BY <1>2, <1>4, <1>7, <2>1, <2>2, RecordedCases
<1> QED BY <1>0, <1>2, <1>6, <1>7 DEF SInv, RecordsServe

-----------------------------------------------------------------------------
(* Files move by rewriting only.                                           *)

\* Relocation does not fail: it is no phase that a fault hits, and the files
\* that validation looks at are there.
LEMMA RelocationSucceeds ==
  ASSUME Undisturbed, DInv, WholeInv, NEW p \in Procs
  PROVE  ~RelocateFails(p)
<1> SUFFICES ASSUME RelocateFails(p) PROVE FALSE
  OBVIOUS
<1>1. pc[p] = "relocate"
  BY DEF RelocateFails, Goto
<1>2. PICK i \in kitsLeft[p] : "relocate" \in FaultPhases \/ MayInvalidate(KitAt(p, i))
  BY DEF RelocateFails
<1>3. "relocate" \notin FaultPhases
  BY DEF Undisturbed, Writing
<1> QED BY <1>1, <1>2, <1>3, KeysAreThere

LEMMA FilesMove ==
  ASSUME Undisturbed, DInv, WholeInv, [Next]_vars, NEW k \in Kits, NEW a \in Archives
  PROVE  \/ /\ files'[k][a] = files[k][a]
            /\ a \in relocated[k] /\ files[k][a] # Absent => a \in relocated'[k]
         \/ \E p \in Procs : Rewrites(p, k, a)'
<1>t. TypeOK /\ LeftIsPending
  BY DInvFacts DEF WholeInv
<1> USE DEF Goto, local, disk
<1>1. ASSUME NEW p \in Procs, NEW x \in todo[p], KitAt(p, x[1]) = k, ArchiveAt(p, x) = a,
             pc[p] \in {"extract", "extracting"}, pc'[p] \in {"extract", "extracting"},
             plan' = plan, pending' = pending
      PROVE  Rewrites(p, k, a)'
  <2>1. KitAt(p, x[1])' = k /\ ArchiveAt(p, x)' = a
    BY <1>1 DEF KitAt, ArchiveAt, SelectionAt
  <2>2. x \in pending'[p]
    BY <1>1, <1>t DEF LeftIsPending
  <2>3. \E y \in pending'[p] : KitAt(p, y[1])' = k /\ ArchiveAt(p, y)' = a
    BY <2>1, <2>2, Zenon
  <2> QED BY <1>1, <2>3 DEF Rewrites, Writing
<1>2. ASSUME NEW p \in Procs, BeginExtract(p)
      PROVE  \/ /\ files'[k][a] = files[k][a]
                /\ a \in relocated[k] => a \in relocated'[k]
             \/ Rewrites(p, k, a)'
  <2>1. PICK x \in todo[p] :
          /\ files' = [files EXCEPT ![KitAt(p, x[1])][ArchiveAt(p, x)] = Torn]
          /\ relocated' = [relocated EXCEPT ![KitAt(p, x[1])] = @ \ {ArchiveAt(p, x)}]
    BY <1>2 DEF BeginExtract
  <2>2. CASE KitAt(p, x[1]) = k /\ ArchiveAt(p, x) = a
    <3>1. pc[p] = "extract" /\ pc'[p] = "extracting" /\ plan' = plan /\ pending' = pending
      BY <1>2, <1>t DEF BeginExtract, TypeOK
    <3> QED BY <1>1, <2>2, <3>1
  <2>3. CASE ~(KitAt(p, x[1]) = k /\ ArchiveAt(p, x) = a)
    BY <1>t, <2>1, <2>3 DEF TypeOK
  <2> QED BY <2>2, <2>3
<1>3. ASSUME NEW p \in Procs, EndExtract(p)
      PROVE  \/ /\ files'[k][a] = files[k][a]
                /\ a \in relocated[k] => a \in relocated'[k]
             \/ Rewrites(p, k, a)'
  <2>1. PICK x \in todo[p] :
          files' = [files EXCEPT ![KitAt(p, x[1])][ArchiveAt(p, x)] = SelectionAt(p, x).version]
    BY <1>3 DEF EndExtract
  <2>2. CASE KitAt(p, x[1]) = k /\ ArchiveAt(p, x) = a
    <3>1. pc[p] = "extracting" /\ pc'[p] = "extract" /\ plan' = plan /\ pending' = pending
      BY <1>3, <1>t DEF EndExtract, TypeOK
    <3> QED BY <1>1, <2>2, <3>1
  <2>3. CASE ~(KitAt(p, x[1]) = k /\ ArchiveAt(p, x) = a)
    <3>1. relocated' = relocated
      BY <1>3 DEF EndExtract
    <3> QED BY <1>t, <2>1, <2>3, <3>1 DEF TypeOK
  <2> QED BY <2>2, <2>3
<1>4. ASSUME NEW p \in Procs, Relocate(p)
      PROVE  /\ files'[k][a] = files[k][a]
             /\ a \in relocated[k] /\ files[k][a] # Absent => a \in relocated'[k]
  <2>1. PICK i \in kitsLeft[p] :
          relocated' = [relocated EXCEPT ![KitAt(p, i)] = Present(KitAt(p, i))]
    BY <1>4 DEF Relocate
  <2>2. files' = files
    BY <1>4 DEF Relocate
  <2> QED BY <1>t, <2>1, <2>2 DEF TypeOK, Present
<1>5. ASSUME NEW p \in Procs, Start(p) \/ Step(p) \/ Fail(p) \/ Crash(p),
             ~BeginExtract(p), ~EndExtract(p), ~Relocate(p)
      PROVE  UNCHANGED <<files, relocated>>
  BY <1>5, RelocationSucceeds DEF Start, Step, Acquire, Reconcile, Reject, SelectAll, Fetch,
     Fetched, Extracted, Relocated, Commit, Committed, Release, Fail, Crash
<1>6. CASE Done \/ UNCHANGED vars
  BY <1>6 DEF Done, vars
<1> QED BY <1>2, <1>3, <1>4, <1>5, <1>6 DEF Next

\* A manifest is published for a kit that its process has left, and touches no file.
LEMMA Publishing ==
  ASSUME DInv, [Next]_vars, NEW k \in Kits, manifest'[k] # manifest[k]
  PROVE  \E p \in Procs : \E i \in kitsLeft[p] :
           /\ pc[p] = "commit" /\ k = KitAt(p, i) /\ manifest'[k] = records[p][k]
           /\ UNCHANGED <<files, relocated>>
<1>t. TypeOK
  BY DInvFacts
<1>1. PICK p \in Procs : Commit(p)
  BY DEF Next, Step, Done, vars, disk, Start, Acquire, Reconcile, Reject, SelectAll, Fetch,
     Fetched, BeginExtract, EndExtract, Extracted, Relocate, RelocateFails, Relocated,
     Committed, Release, Fail, Crash
<1>2. PICK i \in kitsLeft[p] :
        manifest' = [manifest EXCEPT ![KitAt(p, i)] = records[p][KitAt(p, i)]]
  BY <1>1 DEF Commit
<1>3. k = KitAt(p, i) /\ manifest'[k] = records[p][k]
  BY <1>t, <1>2 DEF TypeOK
<1> QED BY <1>1, <1>3 DEF Commit

-----------------------------------------------------------------------------
(* Manifests are right, and kits without one hold no strange files.        *)

LEMMA RightStep ==
  Undisturbed /\ DInv /\ WholeInv /\ [Next]_vars => ManifestsAreRight'
<1> SUFFICES ASSUME Undisturbed, DInv, WholeInv, [Next]_vars, NEW k \in Kits, Found(k)',
                    NEW n \in DOMAIN manifest'[k], NEW a \in ToSet(ArchivesOf[n])
             PROVE  \/ files'[k][a] = manifest'[k][n].version /\ a \in relocated'[k]
                    \/ \E p \in Procs : Rewrites(p, k, a)'
  BY Zenon DEF ManifestsAreRight, HeldOrRewritten
<1>t. TypeOK /\ TypeOK'
  BY DInvFacts, IInvStep DEF IInv
<1>1. manifest'[k] \in Packages
  BY <1>t DEF TypeOK, Found
<1>2. n \in Names /\ manifest'[k][n].version \in Releases
  BY <1>1 DEF Packages, PackageRecords
<1>3. a \in Archives
  BY <1>2, InstallerAssumption, ElementOfSeq, LenProperties DEF ToSet
<1>4. ASSUME NEW p \in Procs, NEW i \in kitsLeft[p], pc[p] = "commit", k = KitAt(p, i),
             manifest'[k] = records[p][k], UNCHANGED <<files, relocated>>
      PROVE  files'[k][a] = manifest'[k][n].version /\ a \in relocated'[k]
  <2>1. n \in DOMAIN records[p][k]
    BY <1>4
  <2> QED BY <1>4, <2>1, CommitIsRight
<1>5. CASE manifest'[k] # manifest[k]
  BY <1>4, <1>5, Publishing
<1>6. CASE manifest'[k] = manifest[k]
  <2>1. Found(k) /\ n \in DOMAIN manifest[k]
    BY <1>6 DEF Found
  <2>2. HeldOrRewritten(k, a, manifest[k][n].version)
    BY <2>1 DEF WholeInv, ManifestsAreRight
  <2>3. CASE files[k][a] = manifest[k][n].version /\ a \in relocated[k]
    <3>1. files[k][a] # Absent
      BY <1>2, <1>6, <2>3, InstallerAssumption
    <3> QED BY <1>3, <1>6, <2>3, <3>1, FilesMove
  <2>4. CASE \E p \in Procs : Rewrites(p, k, a)
    <3>1. PICK p \in Procs : Rewrites(p, k, a)
      BY <2>4
    <3>2. ~RelocateFails(p)
      BY RelocationSucceeds
    <3>3. CASE Rewrites(p, k, a)'
      BY <3>3
    <3>4. CASE Commit(p) /\ \E i \in kitsLeft[p] :
                 /\ KitAt(p, i) = k
                 /\ manifest' = [manifest EXCEPT ![k] = records[p][k]]
      <4>1. manifest'[k] = records[p][k]
        BY <1>t, <3>4 DEF TypeOK
      <4>2. pc[p] = "commit" /\ UNCHANGED <<files, relocated>>
        BY <3>4 DEF Commit
      <4> QED BY <1>4, <3>4, <4>1, <4>2
    <3> QED BY <3>1, <3>2, <3>3, <3>4, RewritingGoesOn
  <2> QED BY <2>2, <2>3, <2>4 DEF HeldOrRewritten
<1> QED BY <1>5, <1>6

LEMMA StrangersStep ==
  Undisturbed /\ DInv /\ WholeInv /\ [Next]_vars => NoStrangers'
<1> SUFFICES ASSUME Undisturbed, DInv, WholeInv, [Next]_vars, NEW k \in Kits, ~Found(k)',
                    NEW a \in Archives, files'[k][a] # Absent
             PROVE  \E p \in Procs : Rewrites(p, k, a)'
  BY Zenon DEF NoStrangers
<1>t. TypeOK /\ SInv /\ Outcome
  BY DInvFacts
<1>1. ~Found(k)
  BY <1>t, FoundStays
<1>2. CASE files[k][a] = Absent
  BY <1>2, FilesMove
<1>3. CASE files[k][a] # Absent
  <2>1. PICK p \in Procs : Rewrites(p, k, a)
    BY <1>1, <1>3 DEF WholeInv, NoStrangers
  <2>2. manifest' # [manifest EXCEPT ![k] = records[p][k]]
    <3>1. records[p][k] \in Packages
      BY <1>t DEF TypeOK
    <3> QED BY <1>t, <3>1, InstallerAssumption DEF TypeOK, Found
  <2>3. Rewrites(p, k, a)'
    BY <2>1, <2>2, RelocationSucceeds, RewritingGoesOn
  <2> QED BY <2>3
<1> QED BY <1>2, <1>3

LEMMA WholeInvHolds ==
  ASSUME Undisturbed
  PROVE  Spec => [](DInv /\ WholeInv)
<1>1. Init => WholeInv
  <2> SUFFICES ASSUME Init PROVE WholeInv
    OBVIOUS
  <2>1. \A k \in Kits : ~Found(k)
    BY DEF Init, Found
  <2>2. \A k \in Kits, a \in Archives : files[k][a] = Absent
    BY DEF Init, Undisturbed
  <2>3. \A p \in Procs : pc[p] = "idle"
    BY DEF Init
  <2> QED BY <2>1, <2>2, <2>3 DEF WholeInv, ManifestsAreRight, NoStrangers, RecordsAreWanted,
       NothingIsAdopted, LeftIsPending, Unfinished
<1>2. DInv /\ WholeInv /\ [Next]_vars => WholeInv'
  BY RightStep, StrangersStep, WantedStep, AdoptionStep, LeftStep DEF WholeInv
<1> QED BY <1>1, <1>2, DInvHolds, PTL DEF Spec

\* When an installation reports success, every selected package is extracted at
\* the planned release and relocated: wherever no older tool left a kit, no
\* installation stops between its first extraction and its last manifest, no
\* request only extracts, and packages of different modules share no archive
\* (Materialize publishes the manifests of its kits last, and reconciliation
\* trusts them).
THEOREM UndisturbedSuccessIsComplete ==
  ASSUME Undisturbed
  PROVE  Spec => []SuccessMeansComplete
<1>1. DInv /\ WholeInv => SuccessMeansComplete
  <2> SUFFICES ASSUME DInv, WholeInv, NEW p \in Procs, pc[p] = "release",
                      result[p] \in {"installed", "satisfied"}, NEW x \in AllItems(plan[p])
               PROVE  Extracted1(p, x) /\ Relocated1(p, x)
    BY DEF SuccessMeansComplete
  <2> DEFINE k == KitAt(p, x[1])
             s == SelectionAt(p, x)
             a == ArchiveAt(p, x)
  <2>1. /\ x[1] \in DOMAIN plan[p].kits /\ k \in Kits
        /\ x[2] \in DOMAIN plan[p].select[k] /\ s = plan[p].select[k][x[2]]
        /\ a \in ToSet(ArchivesOf[s.name])
    BY ItemIsWanted
  <2>2. Lists1(PackagesOf(k), s)
    <3>1. Lists(PackagesOf(k), plan[p].select[k])
      BY <2>1, DInvFacts DEF Satisfied
    <3> QED BY <2>1, <3>1 DEF Lists
  <2>3. Found(k) /\ s.name \in DOMAIN manifest[k] /\ manifest[k][s.name].version = s.version
    BY <2>2 DEF Lists1, PackagesOf, Found, NoPackages, RecordOf
  <2>4. HeldOrRewritten(k, a, s.version)
    <3> HIDE DEF k, s, a
    <3> QED BY <2>1, <2>3 DEF WholeInv, ManifestsAreRight
  <2>5. ASSUME NEW q \in Procs, Rewrites(q, k, a) PROVE FALSE
    <3>1. pc[q] \in Writing
      BY <2>5 DEF Rewrites
    <3>2. p = q
      BY <3>1, WriterOwnsLock DEF LockedPhases
    <3> QED BY <3>1, <3>2 DEF Writing
  <2> QED BY <2>4, <2>5 DEF HeldOrRewritten, Extracted1, Relocated1
<1> QED BY <1>1, WholeInvHolds, PTL
=============================================================================
