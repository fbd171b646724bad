------------------------ MODULE MobileInstallProofs ------------------------
(***************************************************************************)
(* Installer's theorems hold with the discovery of a host Qt as well,      *)
(* since MobileInstall implements Installer; and the desktop kit that was  *)
(* discovered stays as it was found.                                       *)
(***************************************************************************)
EXTENDS MobileInstall, InstallerProofs

\* An error of the discovery is one of Installer's errors.
LEMMA RejectionFails ==
  ASSUME NEW p \in Procs, MReject(p)
  PROVE  Reject(p) \/ Fail(p)
BY DEF MReject

LEMMA StepsAreInstallers == [MNext]_mvars => [Next]_vars
<1> SUFFICES ASSUME [MNext]_mvars PROVE [Next]_vars
  OBVIOUS
<1>1. ASSUME NEW p \in Procs, MStart(p) \/ MStop(p) PROVE Next
  BY <1>1 DEF MStart, MStop, Next
<1>2. ASSUME NEW p \in Procs, Unlinked(p) PROVE Next
  BY <1>2 DEF Unlinked, Next, Step
<1>3. ASSUME NEW p \in Procs, MReject(p) PROVE Next
  BY <1>3, RejectionFails DEF Next, Step
<1>4. ASSUME NEW p \in Procs, \/ MReconcile(p) \/ MBeginExtract(p) \/ MEndExtract(p)
                              \/ MRelocate(p) \/ MRelocateFails(p) \/ MCommit(p)
      PROVE  Next
  BY <1>4 DEF MReconcile, MBeginExtract, MEndExtract, MRelocate, MRelocateFails, MCommit,
     Next, Step
<1>5. ASSUME NEW d \in Others, PutOther(d) \/ TakeOther(d) PROVE UNCHANGED vars
  BY <1>5 DEF PutOther, TakeOther
<1>6. CASE MDone
  BY <1>6 DEF MDone, mvars
<1>7. CASE UNCHANGED mvars
  BY <1>7 DEF mvars
<1> QED BY <1>1, <1>2, <1>3, <1>4, <1>5, <1>6, <1>7 DEF MNext, MStep

\* Whatever desktop Qts come and go, and whichever is found, the processes do
\* only what Installer lets them do: every theorem about Installer holds here.
THEOREM ImplementsInstaller == MSpec => Spec
<1>1. MInit => Init
  BY DEF MInit
<1> QED BY <1>1, StepsAreInstallers, PTL DEF MSpec, Spec

-----------------------------------------------------------------------------
(* The host stays as it was found.                                         *)

\* A host is a desktop Qt.
HostsAreDesktops == host \in [Procs -> HostDirs \cup {NoHost}]

LEMMA HostsStep == HostsAreDesktops /\ [MNext]_mvars => HostsAreDesktops'
<1> SUFFICES ASSUME HostsAreDesktops, [MNext]_mvars PROVE HostsAreDesktops'
  OBVIOUS
<1>1. ASSUME NEW p \in Procs, MReconcile(p) PROVE HostsAreDesktops'
  <2>1. Linkable(plan[p]) \subseteq HostDirs
    BY DEF Linkable, Decided
  <2> QED BY <1>1, <2>1 DEF MReconcile, HostsAreDesktops
<1>2. CASE host' = host
  BY <1>2 DEF HostsAreDesktops
<1>3. \/ \E p \in Procs : MReconcile(p)
      \/ host' = host
  BY DEF MNext, MStep, MDone, mvars, MStart, MStop, Unlinked, MReject, MBeginExtract,
     MEndExtract, MRelocate, MRelocateFails, MCommit, PutOther, TakeOther
<1> QED BY <1>1, <1>2, <1>3

HInv == SInv /\ HostsAreDesktops

LEMMA HInvHolds == MSpec => []HInv
<1>1. MInit => HostsAreDesktops
  BY DEF MInit, HostsAreDesktops
<1>2. Spec => []SInv
  BY SInvHolds
<1> QED BY <1>1, <1>2, HostsStep, ImplementsInstaller, PTL DEF MSpec, HInv

\* No kit of a mobile request is a desktop Qt.
LEMMA MobilePlan ==
  ASSUME SInv, NEW p \in Procs, pc[p] # "idle", IsMobile(plan[p]),
         NEW i \in 1..Len(plan[p].kits)
  PROVE  KitAt(p, i) \notin HostDirs
<1>1. PICK r \in Requests, v \in Releases : plan[p] = Resolved(r, v)
  BY DEF SInv, PlannedFromRequest
<1>2. plan[p].kits = r.kits
  BY <1>1 DEF Resolved
<1>3. PICK j \in 1..Len(plan[p].kits) : plan[p].kits[j] \in MobileKits
  BY DEF IsMobile
<1>4. Shape[r.kits[i]].marker = Shape[r.kits[j]].marker
  BY <1>2, <1>3, MobileAssumption
<1> QED BY <1>2, <1>3, <1>4 DEF KitAt, HostDirs, IsHost, MobileKits

\* A process changes the files of kits of its plan only.
LEMMA OwnKitsOnly ==
  ASSUME SInv, NEW p \in Procs, Step(p) \/ Fail(p) \/ Crash(p),
         plan[p].mode = "install", pc[p] \in Unfinished, NEW h \in Kits,
         \A i \in 1..Len(plan[p].kits) : KitAt(p, i) # h
  PROVE  files'[h] = files[h] /\ relocated'[h] = relocated[h]
<1> USE DEF SInv, IInv, TypeOK
<1>1. CASE BeginExtract(p) \/ EndExtract(p)
  <2>1. \A x \in todo[p] : KitAt(p, x[1]) # h
    BY ItemType DEF ItemsPlanned, KitAt
  <2> QED BY <1>1, <2>1 DEF BeginExtract, EndExtract
<1>2. CASE Relocate(p) \/ RelocateFails(p)
  <2>1. \A i \in kitsLeft[p] : KitAt(p, i) # h
    BY <1>2 DEF RecordsServe, Relocate, RelocateFails, Goto
  <2> QED BY <1>2, <2>1 DEF Relocate, RelocateFails
<1>3. CASE \/ Acquire(p) \/ Reconcile(p) \/ Reject(p) \/ SelectAll(p) \/ Fetch(p)
           \/ Fetched(p) \/ Extracted(p) \/ Relocated(p) \/ Commit(p) \/ Committed(p)
           \/ Release(p) \/ Fail(p) \/ Crash(p)
  BY <1>3 DEF disk, Acquire, Reconcile, Reject, SelectAll, Fetch, Fetched, Extracted,
     Relocated, Commit, Committed, Release, Fail, Crash
<1> QED BY <1>1, <1>2, <1>3 DEF Step

\* From its discovery until the installation that discovered it has ended, a
\* desktop kit is extracted into and relocated by nobody, for any number of
\* processes, kits and foreign directories, and whatever fails.
THEOREM HostStaysAsFound == MSpec => HostUnchangedWhileUsed
<1> DEFINE Kept ==
      \A p \in Procs :
        /\ pc[p] \in {"fetch", "extract", "extracting", "relocate", "commit"}
        /\ plan[p].mode = "install" /\ IsMobile(plan[p]) /\ host[p] \in Kits
        => /\ files'[host[p]] = files[host[p]]
           /\ relocated'[host[p]] = relocated[host[p]]
<1>1. HInv /\ [MNext]_mvars => [Kept]_mvars
  <2> SUFFICES ASSUME HInv, [MNext]_mvars, NEW p \in Procs, pc[p] \in Unfinished,
                      plan[p].mode = "install", IsMobile(plan[p]), host[p] \in Kits
               PROVE  files'[host[p]] = files[host[p]] /\ relocated'[host[p]] = relocated[host[p]]
    BY DEF Unfinished
  <2>1. [Next]_vars
    BY StepsAreInstallers
  <2>2. lock = p
    BY DEF HInv, SInv, IInv, OneMaterializer, InsideLock, LockedPhases, Unfinished
  <2>3. host[p] \in HostDirs
    BY MobileAssumption DEF HInv, HostsAreDesktops
  <2>4. \A i \in 1..Len(plan[p].kits) : KitAt(p, i) # host[p]
    BY <2>3, MobilePlan DEF HInv, Unfinished
  <2>5. ASSUME NEW q \in Procs \ {p}, Start(q) \/ Step(q) \/ Fail(q) \/ Crash(q)
        PROVE  disk' = disk
    <3>1. /\ pc'[p] = pc[p] /\ todo'[p] = todo[p] /\ kitsLeft'[p] = kitsLeft[p]
      BY <2>5, Zenon DEF HInv, SInv, IInv, TypeOK, Goto, local, Start, Step, Acquire, Reconcile,
         Reject, SelectAll, Fetch, Fetched, BeginExtract, EndExtract, Extracted, Relocate,
         RelocateFails, Relocated, Commit, Committed, Release, Fail, Crash
    <3>2. ~Moves(p)
      BY <3>1 DEF Moves
    <3> QED BY <2>1, <2>2, <3>2, KitsStep DEF HInv, SInv
  <2>6. ~Start(p)
    BY DEF Start, Goto, Unfinished
  <2>7. ASSUME Step(p) \/ Fail(p) \/ Crash(p)
        PROVE  files'[host[p]] = files[host[p]] /\ relocated'[host[p]] = relocated[host[p]]
    BY <2>4, <2>7, OwnKitsOnly DEF HInv
  <2>8. CASE UNCHANGED vars
    BY <2>8 DEF vars, disk
  <2> QED BY <2>1, <2>5, <2>6, <2>7, <2>8 DEF Next, Done, disk
<1> QED BY <1>1, HInvHolds, PTL DEF MSpec, HostUnchangedWhileUsed

-----------------------------------------------------------------------------
(* Links.                                                                  *)

\* p has reconciled an installation, and nothing has failed since.
Installing(p) == (plan[p].mode = "install" /\ pc[p] \in Unfinished) \/ Succeeded(p)

\* The host of a mobile installation that has reconciled is a desktop Qt.
HostFound ==
  \A p \in Procs : IsMobile(plan[p]) /\ Installing(p) => host[p] \in HostDirs

\* The kits that an installation still has to relocate or to commit are changed.
KitsLeftChange ==
  \A p \in Procs : plan[p].mode = "install" /\ pc[p] \in {"relocate", "commit"} =>
    kitsLeft[p] \subseteq changed[p]

\* The wrappers of a kit with a manifest name the build machine only when they
\* were extracted and not committed.
BuildIsUnlinked ==
  \A k \in MobileKits : Found(k) /\ Build \in wrappers[k] => k \in unlinked

\* So it is from the start of the extraction that replaces them.
ExtractionUnlinks ==
  \A p \in Procs : pc[p] = "extracting" =>
    \A x \in todo[p] : FirstItem(x, todo[p]) /\ ArchiveAt(p, x) \in KeyArchives =>
      KitAt(p, x[1]) \in unlinked

\* Kit k, the i-th of p's plan, runs the tools of p's host alone: always when it
\* is not changed and nothing is known against it, or when it was relocated.
Linked(p, i, k) ==
  /\ i \notin changed[p] /\ k \notin unlinked => wrappers[k] = {host[p]}
  /\ /\ i \in changed[p]
     /\ pc[p] \in {"commit", "release"} \/ (pc[p] = "relocate" /\ i \notin kitsLeft[p])
     => wrappers[k] = {host[p]}

KitsAreLinked ==
  \A p \in Procs : Installing(p) =>
    \A i \in DOMAIN plan[p].kits, k \in MobileKits : k = KitAt(p, i) => Linked(p, i, k)

LinkInv == HostFound /\ KitsLeftChange /\ BuildIsUnlinked /\ ExtractionUnlinks /\ KitsAreLinked

\* What one step changes: something of one process, or desktop Qts of others.
LEMMA MobileCases ==
  [MNext]_mvars => \/ \E q \in Procs : MStart(q) \/ MStep(q) \/ MStop(q)
                   \/ UNCHANGED <<vars, host, wrappers, unrecorded, unlinked>>
BY DEF MNext, PutOther, TakeOther, MDone, mvars

\* While p holds the lock, the others leave its host and all kits alone.
LEMMA OthersLinkNothing ==
  ASSUME IInv, NEW p \in Procs, lock = p, NEW q \in Procs \ {p},
         MStart(q) \/ MStep(q) \/ MStop(q)
  PROVE  /\ Start(q) \/ Step(q) \/ Fail(q) \/ Crash(q)
         /\ host'[p] = host[p] /\ wrappers' = wrappers
         /\ unlinked' = unlinked /\ unrecorded' = unrecorded
<1>1. pc[q] \notin LockedPhases
  BY DEF IInv, OneMaterializer, InsideLock
<1>2. ~MReconcile(q) /\ ~MBeginExtract(q) /\ ~MEndExtract(q) /\ ~MRelocate(q)
      /\ ~MRelocateFails(q) /\ ~MCommit(q)
  BY <1>1 DEF LockedPhases, MReconcile, Reconcile, MBeginExtract, BeginExtract, MEndExtract,
     EndExtract, MRelocate, Relocate, MRelocateFails, RelocateFails, MCommit, Commit, Goto
<1>3. Whole(q) = {}
  BY <1>1 DEF Whole, LockedPhases
<1>4. Start(q) \/ Step(q) \/ Fail(q) \/ Crash(q)
  BY <1>2, RejectionFails DEF MStep, Unlinked, MStart, MStop, Step
<1> QED BY <1>2, <1>3, <1>4 DEF MStep, Unlinked, MReject, MStart, MStop

\* The steps with which an installation goes on, or reports success.
LEMMA InstallMoves ==
  ASSUME IInv, NEW p \in Procs, MStart(p) \/ MStep(p) \/ MStop(p), Installing(p)'
  PROVE  /\ plan' = plan /\ plan[p].mode = "install"
         /\ \/ MReconcile(p)
            \/ MBeginExtract(p) \/ MEndExtract(p) \/ MRelocate(p) \/ MCommit(p)
            \/ /\ Fetch(p) \/ Fetched(p) \/ Extracted(p) \/ Relocated(p) \/ Committed(p)
               /\ UNCHANGED <<host, wrappers, unrecorded, unlinked>>
<1> USE DEF Installing, IInv
<1>1. ~MStart(p)
  <2>1. ASSUME NEW r \in Requests, NEW v \in Releases,
               plan' = [plan EXCEPT ![p] = Resolved(r, v)],
               IF r.mode = "download-only" THEN Goto(p, "idle", "fetch")
                                           ELSE Goto(p, "idle", "waiting")
        PROVE  FALSE
    BY <2>1 DEF Resolved, Unfinished, TypeOK, Goto, Succeeded
  <2> QED BY <2>1 DEF MStart, Start
<1>2. ~MStop(p)
  BY DEF MStop, Fail, Crash, Unfinished, TypeOK, Succeeded
<1>3. ~MReject(p)
  BY DEF MReject, Reject, Fail, Unfinished, TypeOK, Succeeded, Goto
<1>4. ~MRelocateFails(p)
  BY DEF MRelocateFails, RelocateFails, Unfinished, TypeOK, Succeeded, Goto
<1>5. ~Acquire(p) /\ ~Release(p)
  BY DEF Acquire, Release, Unfinished, TypeOK, Succeeded, Goto
<1>6. ~SelectAll(p)
  BY DEF SelectAll, local, Goto, TypeOK, Unfinished, Succeeded
<1>7. plan' = plan
  BY <1>1, <1>2, <1>3, <1>4, <1>5, <1>6 DEF local, MStep, Unlinked, MReconcile, Reconcile,
     Fetch, Fetched, Extracted, Relocated, Committed, MBeginExtract, BeginExtract,
     MEndExtract, EndExtract, MRelocate, Relocate, MCommit, Commit
<1>8. plan[p].mode = "install"
  <2>1. CASE MReconcile(p)
    BY <2>1 DEF MReconcile, Reconcile
  <2>2. CASE Committed(p)
    BY <2>2 DEF Committed, Goto, LockedModes
  <2>3. CASE ~MReconcile(p) /\ ~Committed(p)
    <3>1. ~Succeeded(p)'
      BY <2>3, <1>1, <1>2, <1>3, <1>4, <1>5, <1>6 DEF MStep, Unlinked, Succeeded, TypeOK, Goto,
         Fetch, Fetched, Extracted, Relocated, MBeginExtract, BeginExtract,
         MEndExtract, EndExtract, MRelocate, Relocate, MCommit, Commit
    <3> QED BY <3>1, <1>7
  <2> QED BY <2>1, <2>2, <2>3
<1> QED BY <1>1, <1>2, <1>3, <1>4, <1>5, <1>6, <1>7, <1>8 DEF MStep, Unlinked

\* What belongs to one process alone is left alone by the others.
LEMMA OthersMindTheirOwn ==
  ASSUME TypeOK, HostsAreDesktops, NEW p \in Procs, NEW q \in Procs \ {p},
         MStart(q) \/ MStep(q) \/ MStop(q)
  PROVE  /\ plan'[p] = plan[p] /\ pc'[p] = pc[p] /\ result'[p] = result[p]
         /\ host'[p] = host[p]
<1>1. Start(q) \/ Step(q) \/ Fail(q) \/ Crash(q)
  BY RejectionFails DEF MStep, Unlinked, MStart, MStop, Step, MReconcile, MBeginExtract,
     MEndExtract, MRelocate, MRelocateFails, MCommit
<1>2. /\ plan'[p] = plan[p] /\ pc'[p] = pc[p] /\ result'[p] = result[p]
  BY <1>1 DEF TypeOK, Goto, local, Start, Step, Acquire, Reconcile,
     Reject, SelectAll, Fetch, Fetched, BeginExtract, EndExtract, Extracted, Relocate,
     RelocateFails, Relocated, Commit, Committed, Release, Fail, Crash
<1>3. host'[p] = host[p]
  BY DEF HostsAreDesktops, MStep, Unlinked, MStart, MStop, MReconcile, MReject, MBeginExtract,
     MEndExtract, MRelocate, MRelocateFails, MCommit
<1> QED BY <1>2, <1>3

LEMMA HostFoundStep == HInv /\ HostFound /\ [MNext]_mvars => HostFound'
<1> SUFFICES ASSUME HInv, HostFound, [MNext]_mvars,
                    NEW p \in Procs, IsMobile(plan'[p]), Installing(p)'
             PROVE  host'[p] \in HostDirs
  BY DEF HostFound
<1>t. TypeOK /\ IInv /\ HostsAreDesktops
  BY DEF HInv, SInv, IInv
<1>1. ASSUME plan'[p] = plan[p], host'[p] = host[p],
             Installing(p)
      PROVE  host'[p] \in HostDirs
  BY <1>1 DEF HostFound
<1>2. ASSUME NEW q \in Procs \ {p}, MStart(q) \/ MStep(q) \/ MStop(q)
      PROVE  host'[p] \in HostDirs
  BY <1>1, <1>2, <1>t, OthersMindTheirOwn DEF Installing, Succeeded
<1>3. ASSUME MStart(p) \/ MStep(p) \/ MStop(p) PROVE host'[p] \in HostDirs
  <2>1. plan' = plan /\ plan[p].mode = "install"
    BY <1>3, <1>t, InstallMoves
  <2>2. CASE MReconcile(p)
    <3>1. Linkable(plan[p]) \subseteq HostDirs
      BY DEF Linkable, Decided
    <3> QED BY <1>t, <2>1, <2>2, <3>1 DEF MReconcile, HostsAreDesktops
  <2>3. CASE \/ MBeginExtract(p) \/ MEndExtract(p) \/ MRelocate(p) \/ MCommit(p)
    <3>1. host' = host /\ pc[p] \in Unfinished
      BY <2>3 DEF MBeginExtract, BeginExtract, MEndExtract, EndExtract, MRelocate, Relocate,
         MCommit, Commit, Goto, Unfinished
    <3> QED BY <1>1, <2>1, <3>1 DEF Installing
  <2>4. CASE /\ Fetch(p) \/ Fetched(p) \/ Extracted(p) \/ Relocated(p) \/ Committed(p)
             /\ host' = host
    <3>1. pc[p] \in Unfinished
      BY <2>4 DEF Fetch, Fetched, Extracted, Relocated, Committed, Goto, Unfinished
    <3> QED BY <1>1, <2>1, <2>4, <3>1 DEF Installing
  <2> QED BY <1>3, <1>t, <2>2, <2>3, <2>4, InstallMoves
<1>4. CASE UNCHANGED <<vars, host>>
  BY <1>1, <1>4 DEF vars, local, Installing, Succeeded
<1> QED BY <1>2, <1>3, <1>4, MobileCases

LEMMA FirstKitIsUnique ==
  ASSUME NEW S \in SUBSET Nat, NEW i, FirstKit(i, S), NEW j, FirstKit(j, S)
  PROVE  i = j
BY DEF FirstKit

\* A mobile kit that is left to be relocated or committed is of an installation
\* that has found a host, which is not the build machine.
LEMMA LeftHasHost ==
  ASSUME SInv, HostFound, NEW p \in Procs, pc[p] \in {"relocate", "commit"},
         NEW i \in kitsLeft[p]
  PROVE  /\ plan[p].mode = "install" /\ i \in DOMAIN plan[p].kits /\ KitAt(p, i) \in Kits
         /\ KitAt(p, i) \in MobileKits => host[p] \in HostDirs /\ host[p] # Build
<1>1. plan[p].mode = "install"
  BY DEF SInv, IInv, LockedModes
<1>2. i \in 1..Len(plan[p].kits)
  BY <1>1 DEF SInv, RecordsServe, Unfinished
<1>3. plan[p].kits \in Seq(Kits)
  BY DEF SInv, IInv, TypeOK, PlanTypes
<1>4. i \in DOMAIN plan[p].kits /\ KitAt(p, i) \in Kits
  BY <1>2, <1>3, LenProperties, ElementOfSeq DEF KitAt
<1>5. KitAt(p, i) \in MobileKits => host[p] \in HostDirs
  BY <1>1, <1>2 DEF HostFound, IsMobile, KitAt, Installing, Unfinished
<1>6. HostDirs \subseteq Kits \cup Others
  BY DEF HostDirs
<1> QED BY <1>1, <1>4, <1>5, <1>6, MobileAssumption

\* An item that a process has left names a kit and archives.
LEMMA LeftItem ==
  ASSUME SInv, NEW p \in Procs, NEW x \in todo[p] \cup pending[p]
  PROVE  /\ KitAt(p, x[1]) \in Kits /\ ArchiveAt(p, x) \in Archives
         /\ SelectionAt(p, x) \in Selections
         /\ ArchiveSet(SelectionAt(p, x).name) \subseteq Archives
<1>1. plan[p] \in PlanTypes /\ x \in AllItems(plan[p])
  BY DEF SInv, IInv, TypeOK, ItemsPlanned
<1>2. KitAt(p, x[1]) \in Kits /\ ArchiveAt(p, x) \in Archives /\ SelectionAt(p, x) \in Selections
  BY <1>1, ItemType, Zenon DEF KitAt, ArchiveAt, SelectionAt
<1>3. SelectionAt(p, x).name \in Names
  BY <1>2 DEF Selections
<1>4. ArchivesOf[SelectionAt(p, x).name] \in Seq(Archives)
  BY <1>3, InstallerAssumption
<1>5. \A a \in DOMAIN ArchivesOf[SelectionAt(p, x).name] :
        ArchivesOf[SelectionAt(p, x).name][a] \in Archives
  BY <1>4, LenProperties, ElementOfSeq
<1> QED BY <1>2, <1>5 DEF ArchiveSet

LEMMA MTypeStep == HInv /\ HostFound /\ MTypeOK /\ [MNext]_mvars => MTypeOK'
<1> SUFFICES ASSUME HInv, HostFound, MTypeOK, [MNext]_mvars PROVE MTypeOK'
  OBVIOUS
<1>0. SInv
  BY DEF HInv
<1>1. host' \in [Procs -> HostDirs \cup {NoHost}]
  BY HostsStep DEF HInv, HostsAreDesktops
<1>2. others' \subseteq Others
  BY DEF MTypeOK, MNext, MStep, MDone, mvars, MStart, MStop, Unlinked, MReconcile, MReject,
     MBeginExtract, MEndExtract, MRelocate, MRelocateFails, MCommit, PutOther, TakeOther
<1> DEFINE Rest == /\ wrappers' \in [Kits -> SUBSET (HostDirs \cup {Build})]
                   /\ unrecorded' \subseteq Kits \X Archives \X Releases
                   /\ unlinked' \subseteq Kits
<1> USE DEF MTypeOK
<1>3. ASSUME NEW p \in Procs, MBeginExtract(p) PROVE Rest
  <2>1. PICK x \in todo[p] :
          /\ IF KitAt(p, x[1]) \in MobileKits /\ ArchiveAt(p, x) \in KeyArchives
             THEN \E W \in {wrappers[KitAt(p, x[1])],
                            wrappers[KitAt(p, x[1])] \cup {Build}, {Build}} :
                    wrappers' = [wrappers EXCEPT ![KitAt(p, x[1])] = W]
             ELSE UNCHANGED wrappers
          /\ unrecorded' = unrecorded \cup
               ({KitAt(p, x[1])} \X ArchiveSet(SelectionAt(p, x).name) \X Releases)
          /\ unlinked' = IF ArchiveAt(p, x) \in KeyArchives
                         THEN unlinked \cup {KitAt(p, x[1])} ELSE unlinked
    BY <1>3 DEF MBeginExtract
  <2>2. KitAt(p, x[1]) \in Kits /\ ArchiveSet(SelectionAt(p, x).name) \subseteq Archives
    BY <1>0, LeftItem
  <2>3. wrappers' \in [Kits -> SUBSET (HostDirs \cup {Build})]
    BY <2>1, <2>2
  <2> QED BY <2>1, <2>2, <2>3
<1>4. ASSUME NEW p \in Procs, MEndExtract(p) PROVE Rest
  <2>1. UNCHANGED <<unrecorded, unlinked>>
    BY <1>4 DEF MEndExtract
  <2>2. PICK k : wrappers' = wrappers \/ wrappers' = [wrappers EXCEPT ![k] = {Build}]
    BY <1>4 DEF MEndExtract
  <2> QED BY <2>1, <2>2
<1>5. ASSUME NEW p \in Procs, MRelocate(p) PROVE Rest
  <2>1. PICK i \in kitsLeft[p] :
          IF KitAt(p, i) \in MobileKits
          THEN wrappers' = [wrappers EXCEPT ![KitAt(p, i)] = {host[p]}]
          ELSE UNCHANGED wrappers
    BY <1>5 DEF MRelocate
  <2>2. pc[p] = "relocate" /\ UNCHANGED <<unrecorded, unlinked>>
    BY <1>5 DEF MRelocate, Relocate
  <2>3. KitAt(p, i) \in MobileKits => host[p] \in HostDirs
    BY <1>0, <2>2, LeftHasHost
  <2>4. wrappers' \in [Kits -> SUBSET (HostDirs \cup {Build})]
    <3>1. CASE KitAt(p, i) \in MobileKits
      <4>1. {host[p]} \in SUBSET (HostDirs \cup {Build})
        BY <2>3, <3>1
      <4> QED BY <2>1, <3>1, <4>1
    <3>2. CASE KitAt(p, i) \notin MobileKits
      BY <2>1, <3>2
    <3> QED BY <3>1, <3>2
  <2> QED BY <2>2, <2>4
<1>6. ASSUME NEW p \in Procs, MRelocateFails(p) PROVE Rest
  <2>1. PICK i \in kitsLeft[p] :
          IF KitAt(p, i) \in MobileKits /\ Accepts(KitAt(p, i), host[p])
          THEN \E W \in {wrappers[KitAt(p, i)],
                         wrappers[KitAt(p, i)] \cup {host[p]}, {host[p]}} :
                 wrappers' = [wrappers EXCEPT ![KitAt(p, i)] = W]
          ELSE UNCHANGED wrappers
    BY <1>6 DEF MRelocateFails
  <2>2. pc[p] = "relocate" /\ unlinked' = unlinked /\ unrecorded' \subseteq unrecorded
    BY <1>6 DEF MRelocateFails, RelocateFails, Goto
  <2>3. KitAt(p, i) \in Kits /\ (KitAt(p, i) \in MobileKits => host[p] \in HostDirs)
    BY <1>0, <2>2, LeftHasHost
  <2>4. wrappers' \in [Kits -> SUBSET (HostDirs \cup {Build})]
    BY <2>1, <2>3
  <2> QED BY <2>2, <2>4
<1>7. ASSUME NEW p \in Procs, \/ MCommit(p) \/ MStart(p) \/ MStop(p) \/ Unlinked(p)
                              \/ MReconcile(p) \/ MReject(p)
      PROVE  Rest
  <2>1. wrappers' = wrappers /\ unlinked' \subseteq unlinked /\ unrecorded' \subseteq unrecorded
    BY <1>7 DEF MCommit, MStart, MStop, Unlinked, MReconcile, MReject
  <2> QED BY <2>1
<1>8. ASSUME UNCHANGED <<vars, host, wrappers, unrecorded, unlinked>> PROVE Rest
  <2>1. wrappers' = wrappers /\ unrecorded' = unrecorded /\ unlinked' = unlinked
    BY <1>8
  <2> QED BY <2>1
<1>9. Rest
  BY <1>3, <1>4, <1>5, <1>6, <1>7, <1>8, MobileCases DEF MStep
<1> QED BY <1>1, <1>2, <1>9

LEMMA KitsLeftStep == HInv /\ KitsLeftChange /\ [MNext]_mvars => KitsLeftChange'
<1> SUFFICES ASSUME HInv, KitsLeftChange, [MNext]_mvars, NEW p \in Procs,
                    plan'[p].mode = "install", pc'[p] \in {"relocate", "commit"}
             PROVE  kitsLeft'[p] \subseteq changed'[p]
  BY DEF KitsLeftChange
<1>t. TypeOK /\ IInv /\ HostsAreDesktops
  BY DEF HInv, SInv, IInv
<1>1. ASSUME plan'[p] = plan[p], pc'[p] = pc[p], kitsLeft'[p] \subseteq kitsLeft[p],
             changed'[p] = changed[p]
      PROVE  kitsLeft'[p] \subseteq changed'[p]
  BY <1>1 DEF KitsLeftChange
<1>2. ASSUME NEW q \in Procs \ {p}, MStart(q) \/ MStep(q) \/ MStop(q)
      PROVE  kitsLeft'[p] \subseteq changed'[p]
  <2>1. plan'[p] = plan[p] /\ pc'[p] = pc[p]
    BY <1>2, <1>t, OthersMindTheirOwn
  <2>2. lock = p
    BY <1>t, <2>1 DEF IInv, OneMaterializer, InsideLock, LockedPhases
  <2>3. Start(q) \/ Step(q) \/ Fail(q) \/ Crash(q)
    BY <1>2, <1>t, <2>2, OthersLinkNothing
  <2>4. changed'[p] = changed[p] /\ kitsLeft'[p] = kitsLeft[p]
    BY <1>t, <2>2, <2>3, OthersStandAside, StepsAreInstallers
  <2> QED BY <1>1, <2>1, <2>4
<1>3. ASSUME MStart(p) \/ MStep(p) \/ MStop(p) PROVE kitsLeft'[p] \subseteq changed'[p]
  <2>1. plan' = plan
    BY <1>3, <1>t, InstallMoves DEF Installing, Unfinished
  <2>2. CASE MReconcile(p)
    BY <1>t, <2>2 DEF MReconcile, Reconcile, Goto, TypeOK
  <2>3. CASE MBeginExtract(p) \/ MEndExtract(p)
    BY <1>t, <2>3 DEF MBeginExtract, BeginExtract, MEndExtract, EndExtract, Goto, TypeOK
  <2>4. CASE MRelocate(p) \/ MCommit(p)
    <3>1. pc' = pc /\ changed' = changed /\ kitsLeft'[p] \subseteq kitsLeft[p]
      BY <1>t, <2>4 DEF MRelocate, Relocate, MCommit, Commit, local, TypeOK
    <3> QED BY <1>1, <2>1, <3>1
  <2>5. CASE Fetch(p) \/ Fetched(p) \/ Committed(p)
    BY <1>t, <2>5 DEF Fetch, Fetched, Committed, Goto, TypeOK
  <2>6. CASE Extracted(p) \/ Relocated(p)
    BY <1>t, <2>1, <2>6 DEF Extracted, Relocated, Goto, local, TypeOK
  <2> QED BY <1>3, <1>t, <2>2, <2>3, <2>4, <2>5, <2>6, InstallMoves DEF Installing, Unfinished
<1>4. CASE UNCHANGED vars
  BY <1>1, <1>4 DEF vars, local
<1> QED BY <1>2, <1>3, <1>4, MobileCases

\* MRelocate and MCommit handle the kit that Installer handles.
LEMMA RelocatesFirst ==
  ASSUME TypeOK, NEW p \in Procs, MRelocate(p)
  PROVE  \E i \in kitsLeft[p] :
           /\ kitsLeft' = [kitsLeft EXCEPT ![p] = @ \ {i}]
           /\ MayValidate(KitAt(p, i))
           /\ relocated' = [relocated EXCEPT ![KitAt(p, i)] = Present(KitAt(p, i))]
           /\ wrappers' = IF KitAt(p, i) \in MobileKits
                          THEN [wrappers EXCEPT ![KitAt(p, i)] = {host[p]}] ELSE wrappers
<1>1. PICK i \in kitsLeft[p] :
        /\ FirstKit(i, kitsLeft[p])
        /\ kitsLeft' = [kitsLeft EXCEPT ![p] = @ \ {i}]
        /\ MayValidate(KitAt(p, i))
        /\ relocated' = [relocated EXCEPT ![KitAt(p, i)] = Present(KitAt(p, i))]
  BY Zenon DEF MRelocate, Relocate
<1>2. PICK j \in kitsLeft[p] :
        /\ FirstKit(j, kitsLeft[p])
        /\ wrappers' = IF KitAt(p, j) \in MobileKits
                       THEN [wrappers EXCEPT ![KitAt(p, j)] = {host[p]}] ELSE wrappers
  BY DEF MRelocate
<1>3. i = j
  BY <1>1, <1>2, FirstKitIsUnique DEF TypeOK
<1> QED BY <1>1, <1>2, <1>3

LEMMA CommitsFirst ==
  ASSUME TypeOK, NEW p \in Procs, MCommit(p)
  PROVE  \E i \in kitsLeft[p] :
           /\ kitsLeft' = [kitsLeft EXCEPT ![p] = @ \ {i}]
           /\ manifest' = [manifest EXCEPT ![KitAt(p, i)] = records[p][KitAt(p, i)]]
           /\ unrecorded' = unrecorded \ HeldBy(p, KitAt(p, i))
           /\ unlinked' = unlinked \ {KitAt(p, i)}
<1>1. PICK i \in kitsLeft[p] :
        /\ FirstKit(i, kitsLeft[p])
        /\ kitsLeft' = [kitsLeft EXCEPT ![p] = @ \ {i}]
        /\ manifest' = [manifest EXCEPT ![KitAt(p, i)] = records[p][KitAt(p, i)]]
  BY Zenon DEF MCommit, Commit
<1>2. PICK j \in kitsLeft[p] :
        /\ FirstKit(j, kitsLeft[p])
        /\ unrecorded' = unrecorded \ HeldBy(p, KitAt(p, j))
        /\ unlinked' = unlinked \ {KitAt(p, j)}
  BY DEF MCommit
<1>3. i = j
  BY <1>1, <1>2, FirstKitIsUnique DEF TypeOK
<1> QED BY <1>1, <1>2, <1>3

\* The extraction that begins, or ends, is that of the first item.
LEMMA BeginsFirst ==
  ASSUME TypeOK, MTypeOK, NEW p \in Procs, MBeginExtract(p)
  PROVE  \E x \in todo[p] :
           /\ FirstItem(x, todo[p])
           /\ files' = [files EXCEPT ![KitAt(p, x[1])][ArchiveAt(p, x)] = Torn]
           /\ relocated' = [relocated EXCEPT ![KitAt(p, x[1])] = @ \ {ArchiveAt(p, x)}]
           /\ \A k \in Kits : wrappers'[k] # wrappers[k] =>
                k = KitAt(p, x[1]) /\ ArchiveAt(p, x) \in KeyArchives
           /\ unrecorded' = unrecorded \cup
                ({KitAt(p, x[1])} \X ArchiveSet(SelectionAt(p, x).name) \X Releases)
           /\ unlinked' = IF ArchiveAt(p, x) \in KeyArchives
                          THEN unlinked \cup {KitAt(p, x[1])} ELSE unlinked
<1>1. PICK x \in todo[p] :
        /\ FirstItem(x, todo[p])
        /\ files' = [files EXCEPT ![KitAt(p, x[1])][ArchiveAt(p, x)] = Torn]
        /\ relocated' = [relocated EXCEPT ![KitAt(p, x[1])] = @ \ {ArchiveAt(p, x)}]
  BY Zenon DEF MBeginExtract, BeginExtract
<1>2. PICK y \in todo[p] :
        /\ FirstItem(y, todo[p])
        /\ IF KitAt(p, y[1]) \in MobileKits /\ ArchiveAt(p, y) \in KeyArchives
           THEN \E W \in {wrappers[KitAt(p, y[1])],
                          wrappers[KitAt(p, y[1])] \cup {Build}, {Build}} :
                  wrappers' = [wrappers EXCEPT ![KitAt(p, y[1])] = W]
           ELSE UNCHANGED wrappers
        /\ unrecorded' = unrecorded \cup
             ({KitAt(p, y[1])} \X ArchiveSet(SelectionAt(p, y).name) \X Releases)
        /\ unlinked' = IF ArchiveAt(p, y) \in KeyArchives
                       THEN unlinked \cup {KitAt(p, y[1])} ELSE unlinked
  BY DEF MBeginExtract
<1>3. x = y
  BY <1>1, <1>2, FirstIsUnique DEF TypeOK
<1>4. \A k \in Kits : wrappers'[k] # wrappers[k] =>
        k = KitAt(p, y[1]) /\ ArchiveAt(p, y) \in KeyArchives
  BY <1>2 DEF MTypeOK
<1> QED BY <1>1, <1>2, <1>3, <1>4

LEMMA EndsFirst ==
  ASSUME TypeOK, MTypeOK, NEW p \in Procs, MEndExtract(p)
  PROVE  \E x \in todo[p] :
           /\ FirstItem(x, todo[p])
           /\ files' = [files EXCEPT ![KitAt(p, x[1])][ArchiveAt(p, x)] =
                                       SelectionAt(p, x).version]
           /\ todo' = [todo EXCEPT ![p] = @ \ {x}]
           /\ \A k \in Kits : wrappers'[k] # wrappers[k] =>
                k = KitAt(p, x[1]) /\ ArchiveAt(p, x) \in KeyArchives
<1>1. PICK x \in todo[p] :
        /\ FirstItem(x, todo[p])
        /\ files' = [files EXCEPT ![KitAt(p, x[1])][ArchiveAt(p, x)] =
                                    SelectionAt(p, x).version]
        /\ todo' = [todo EXCEPT ![p] = @ \ {x}]
  BY Zenon DEF MEndExtract, EndExtract
<1>2. PICK y \in todo[p] :
        /\ FirstItem(y, todo[p])
        /\ wrappers' = IF KitAt(p, y[1]) \in MobileKits /\ ArchiveAt(p, y) \in KeyArchives
                       THEN [wrappers EXCEPT ![KitAt(p, y[1])] = {Build}] ELSE wrappers
  BY DEF MEndExtract
<1>3. x = y
  BY <1>1, <1>2, FirstIsUnique DEF TypeOK
<1>4. \A k \in Kits : wrappers'[k] # wrappers[k] =>
        k = KitAt(p, y[1]) /\ ArchiveAt(p, y) \in KeyArchives
  BY <1>2 DEF MTypeOK
<1> QED BY <1>1, <1>3, <1>4

MInv == HInv /\ MTypeOK

\* An extraction that is under way was begun by this step, or goes on.
LEMMA ExtractionGoesOn ==
  ASSUME MInv, [MNext]_mvars, NEW p \in Procs, pc'[p] = "extracting"
  PROVE  /\ plan'[p] = plan[p] /\ todo'[p] = todo[p] /\ todo[p] \in SUBSET Items
         /\ \/ MBeginExtract(p)
            \/ /\ pc[p] = "extracting" /\ disk' = disk
               /\ unlinked' = unlinked /\ unrecorded' = unrecorded
<1>t. TypeOK /\ IInv /\ HostsAreDesktops /\ todo[p] \in SUBSET Items
  BY DEF MInv, HInv, SInv, IInv, TypeOK
<1>1. ASSUME NEW q \in Procs \ {p}, MStart(q) \/ MStep(q) \/ MStop(q)
      PROVE  /\ plan'[p] = plan[p] /\ todo'[p] = todo[p]
             /\ pc[p] = "extracting" /\ disk' = disk
             /\ unlinked' = unlinked /\ unrecorded' = unrecorded
  <2>1. plan'[p] = plan[p] /\ pc'[p] = pc[p]
    BY <1>1, <1>t, OthersMindTheirOwn
  <2>2. lock = p
    BY <1>t, <2>1 DEF IInv, OneMaterializer, InsideLock, LockedPhases
  <2>3. /\ Start(q) \/ Step(q) \/ Fail(q) \/ Crash(q)
        /\ unlinked' = unlinked /\ unrecorded' = unrecorded
    BY <1>1, <1>t, <2>2, OthersLinkNothing
  <2>4. disk' = disk /\ todo'[p] = todo[p]
    BY <1>t, <2>2, <2>3, OthersStandAside, StepsAreInstallers
  <2> QED BY <2>1, <2>3, <2>4
<1>2. ASSUME MStart(p) \/ MStep(p) \/ MStop(p)
      PROVE  plan' = plan /\ todo' = todo /\ MBeginExtract(p)
  <2>1. ~(Start(p) \/ Fail(p) \/ Crash(p) \/ Acquire(p) \/ Reconcile(p) \/ Reject(p)
          \/ SelectAll(p) \/ Fetch(p) \/ Fetched(p) \/ EndExtract(p) \/ Extracted(p)
          \/ Relocate(p) \/ RelocateFails(p) \/ Relocated(p) \/ Commit(p) \/ Committed(p)
          \/ Release(p))
    BY <1>t, Zenon DEF TypeOK, Goto, Start, Acquire, Reconcile, Reject, SelectAll, Fetch, Fetched, EndExtract,
       Extracted, Relocate, RelocateFails, Relocated, Commit, Committed, Release, Fail, Crash
  <2>2. MBeginExtract(p)
    BY <1>2, <2>1, RejectionFails DEF MStep, Unlinked, MStart, MStop, MReconcile, MEndExtract,
       MRelocate, MRelocateFails, MCommit
  <2> QED BY <2>2 DEF MBeginExtract, BeginExtract, local
<1>3. ASSUME UNCHANGED <<vars, host, wrappers, unrecorded, unlinked>>
      PROVE  /\ plan' = plan /\ todo' = todo /\ pc' = pc /\ disk' = disk
             /\ unlinked' = unlinked /\ unrecorded' = unrecorded
  BY <1>3 DEF vars, local
<1> QED BY <1>t, <1>1, <1>2, <1>3, MobileCases

LEMMA UnlinksStep == MInv /\ ExtractionUnlinks /\ [MNext]_mvars => ExtractionUnlinks'
<1> SUFFICES ASSUME MInv, ExtractionUnlinks, [MNext]_mvars, NEW p \in Procs,
                    pc'[p] = "extracting", NEW x \in todo'[p], FirstItem(x, todo'[p]),
                    ArchiveAt(p, x)' \in KeyArchives
             PROVE  KitAt(p, x[1])' \in unlinked'
  BY DEF ExtractionUnlinks
<1>1. plan'[p] = plan[p] /\ todo'[p] = todo[p] /\ todo[p] \in SUBSET Items
  BY ExtractionGoesOn
<1>2. KitAt(p, x[1])' = KitAt(p, x[1]) /\ ArchiveAt(p, x)' = ArchiveAt(p, x)
  BY <1>1, Zenon DEF KitAt, ArchiveAt, SelectionAt
<1>3. CASE MBeginExtract(p)
  <2>1. PICK y \in todo[p] :
          /\ FirstItem(y, todo[p])
          /\ unlinked' = IF ArchiveAt(p, y) \in KeyArchives
                         THEN unlinked \cup {KitAt(p, y[1])} ELSE unlinked
    BY <1>3, BeginsFirst DEF MInv, HInv, SInv, IInv
  <2>2. y = x
    BY <1>1, <2>1, FirstIsUnique
  <2> QED BY <1>2, <2>1, <2>2
<1>4. CASE pc[p] = "extracting" /\ unlinked' = unlinked
  BY <1>1, <1>2, <1>4 DEF ExtractionUnlinks
<1> QED BY <1>3, <1>4, ExtractionGoesOn

LEMMA BuildStep ==
  MInv /\ LinkInv /\ [MNext]_mvars => BuildIsUnlinked'
<1> SUFFICES ASSUME MInv, LinkInv, [MNext]_mvars, NEW k \in MobileKits, Found(k)',
                    Build \in wrappers'[k]
             PROVE  k \in unlinked'
  BY DEF BuildIsUnlinked
<1>t. TypeOK /\ SInv /\ MTypeOK /\ k \in Kits /\ HostFound
  BY DEF MInv, HInv, SInv, IInv, MobileKits, LinkInv
<1>1. ASSUME manifest'[k] = manifest[k], wrappers'[k] = wrappers[k], k \in unlinked => k \in unlinked'
      PROVE  k \in unlinked'
  BY <1>1 DEF LinkInv, BuildIsUnlinked, Found
<1>2. ASSUME NEW p \in Procs, MBeginExtract(p) PROVE k \in unlinked'
  <2>1. PICK x \in todo[p] :
          /\ wrappers'[k] # wrappers[k] =>
               k = KitAt(p, x[1]) /\ ArchiveAt(p, x) \in KeyArchives
          /\ unlinked' = IF ArchiveAt(p, x) \in KeyArchives
                         THEN unlinked \cup {KitAt(p, x[1])} ELSE unlinked
    BY <1>2, <1>t, BeginsFirst
  <2>2. manifest' = manifest
    BY <1>2 DEF MBeginExtract, BeginExtract
  <2> QED BY <1>1, <2>1, <2>2
<1>3. ASSUME NEW p \in Procs, MEndExtract(p) PROVE k \in unlinked'
  <2>1. PICK x \in todo[p] :
          /\ FirstItem(x, todo[p])
          /\ wrappers'[k] # wrappers[k] =>
               k = KitAt(p, x[1]) /\ ArchiveAt(p, x) \in KeyArchives
    BY <1>3, <1>t, EndsFirst
  <2>2. manifest' = manifest /\ unlinked' = unlinked /\ pc[p] = "extracting"
    BY <1>3 DEF MEndExtract, EndExtract, Goto
  <2>3. ArchiveAt(p, x) \in KeyArchives => KitAt(p, x[1]) \in unlinked
    BY <2>1, <2>2 DEF LinkInv, ExtractionUnlinks
  <2> QED BY <1>1, <2>1, <2>2, <2>3
<1>4. ASSUME NEW p \in Procs, MRelocate(p) PROVE k \in unlinked'
  <2>1. PICK i \in kitsLeft[p] :
          wrappers' = IF KitAt(p, i) \in MobileKits
                      THEN [wrappers EXCEPT ![KitAt(p, i)] = {host[p]}] ELSE wrappers
    BY <1>4, <1>t, RelocatesFirst
  <2>2. manifest' = manifest /\ unlinked' = unlinked /\ pc[p] = "relocate"
    BY <1>4 DEF MRelocate, Relocate
  <2>3. KitAt(p, i) \in MobileKits => host[p] # Build
    BY <1>t, <2>2, LeftHasHost
  <2>4. wrappers'[k] = wrappers[k]
    BY <1>t, <2>1, <2>3 DEF MTypeOK
  <2> QED BY <1>1, <2>2, <2>4
<1>5. ASSUME NEW p \in Procs, MRelocateFails(p) PROVE k \in unlinked'
  <2>1. PICK i \in kitsLeft[p] :
          IF KitAt(p, i) \in MobileKits /\ Accepts(KitAt(p, i), host[p])
          THEN \E W \in {wrappers[KitAt(p, i)],
                         wrappers[KitAt(p, i)] \cup {host[p]}, {host[p]}} :
                 wrappers' = [wrappers EXCEPT ![KitAt(p, i)] = W]
          ELSE UNCHANGED wrappers
    BY <1>5 DEF MRelocateFails
  <2>2. manifest' = manifest /\ unlinked' = unlinked /\ pc[p] = "relocate"
    BY <1>5 DEF MRelocateFails, RelocateFails, Goto
  <2>3. KitAt(p, i) \in MobileKits => host[p] # Build
    BY <1>t, <2>2, LeftHasHost
  <2>4. Build \in wrappers[k]
    BY <1>t, <2>1, <2>3 DEF MTypeOK
  <2> QED BY <2>2, <2>4 DEF LinkInv, BuildIsUnlinked, Found
<1>6. ASSUME NEW p \in Procs, MCommit(p) PROVE k \in unlinked'
  <2>1. PICK i \in kitsLeft[p] :
          /\ manifest' = [manifest EXCEPT ![KitAt(p, i)] = records[p][KitAt(p, i)]]
          /\ unlinked' = unlinked \ {KitAt(p, i)}
    BY <1>6, <1>t, CommitsFirst
  <2>2. wrappers' = wrappers /\ pc[p] = "commit"
    BY <1>6 DEF MCommit, Commit
  <2>3. /\ plan[p].mode = "install" /\ i \in DOMAIN plan[p].kits
        /\ KitAt(p, i) \in MobileKits => host[p] # Build
    BY <1>t, <2>2, LeftHasHost
  <2>4. i \in changed[p]
    BY <2>2, <2>3 DEF LinkInv, KitsLeftChange
  <2>5. CASE k = KitAt(p, i)
    <3>1. Linked(p, i, k)
      BY <2>2, <2>3, <2>5 DEF LinkInv, KitsAreLinked, Installing, Unfinished
    <3> QED BY <2>2, <2>3, <2>4, <2>5, <3>1 DEF Linked
  <2>6. CASE k # KitAt(p, i)
    BY <1>1, <1>t, <2>1, <2>2, <2>6 DEF TypeOK
  <2> QED BY <2>5, <2>6
<1>7. ASSUME NEW p \in Procs, \/ MStart(p) \/ MStop(p) \/ Unlinked(p)
                              \/ MReconcile(p) \/ MReject(p)
      PROVE  k \in unlinked'
  <2>1. wrappers' = wrappers /\ unlinked' = unlinked
    BY <1>7 DEF MStart, MStop, Unlinked, MReconcile, MReject
  <2>2. manifest' = manifest
    BY <1>7, RejectionFails DEF MStart, MStop, Unlinked, MReconcile, disk, Start, Acquire, Reconcile,
       Reject, SelectAll, Fetch, Fetched, Extracted, Relocated, Committed, Release, Fail, Crash
  <2> QED BY <1>1, <2>1, <2>2
<1>8. ASSUME UNCHANGED <<vars, host, wrappers, unrecorded, unlinked>> PROVE k \in unlinked'
  <2>1. wrappers' = wrappers /\ unlinked' = unlinked /\ manifest' = manifest
    BY <1>8 DEF vars, disk
  <2> QED BY <1>1, <2>1
<1> QED BY <1>2, <1>3, <1>4, <1>5, <1>6, <1>7, <1>8, MobileCases DEF MStep

\* A kit whose selections its manifest lists has a manifest.
LEMMA ListedIsFound ==
  ASSUME SInv, NEW p \in Procs, pc[p] # "idle", NEW i \in DOMAIN plan[p].kits,
         Lists(PackagesOf(KitAt(p, i)), plan[p].select[KitAt(p, i)])
  PROVE  Found(KitAt(p, i))
<1>1. PICK j \in DOMAIN plan[p].select[KitAt(p, i)] : TRUE
  BY PlanShape DEF OnePackagePerModule
<1>2. Lists1(PackagesOf(KitAt(p, i)), plan[p].select[KitAt(p, i)][j])
  BY DEF Lists
<1> QED BY <1>2 DEF Lists1, PackagesOf, Found, NoPackages

LEMMA LinksStep == MInv /\ LinkInv /\ [MNext]_mvars => KitsAreLinked'
<1> SUFFICES ASSUME MInv, LinkInv, [MNext]_mvars, NEW p \in Procs,
                    Installing(p)',
                    NEW i \in DOMAIN plan'[p].kits, NEW k \in MobileKits, k = KitAt(p, i)'
             PROVE  Linked(p, i, k)'
  BY DEF KitsAreLinked
<1>t. TypeOK /\ IInv /\ SInv /\ HostsAreDesktops /\ MTypeOK /\ k \in Kits
  BY DEF MInv, HInv, SInv, IInv, MobileKits
<1>1. ASSUME plan'[p] = plan[p], Installing(p)
      PROVE  k = KitAt(p, i) /\ i \in DOMAIN plan[p].kits /\ Linked(p, i, k)
  BY <1>1 DEF LinkInv, KitsAreLinked, KitAt
<1>2. ASSUME NEW q \in Procs \ {p}, MStart(q) \/ MStep(q) \/ MStop(q)
      PROVE  Linked(p, i, k)'
  <2>1. plan'[p] = plan[p] /\ pc'[p] = pc[p] /\ result'[p] = result[p] /\ host'[p] = host[p]
    BY <1>2, <1>t, OthersMindTheirOwn
  <2>2. lock = p
    BY <1>t, <2>1 DEF IInv, OneMaterializer, InsideLock, LockedPhases, Unfinished, Installing, Succeeded, LockedModes
  <2>3. /\ Start(q) \/ Step(q) \/ Fail(q) \/ Crash(q)
        /\ wrappers' = wrappers /\ unlinked' = unlinked
    BY <1>2, <1>t, <2>2, OthersLinkNothing
  <2>4. changed'[p] = changed[p] /\ kitsLeft'[p] = kitsLeft[p]
    BY <1>t, <2>2, <2>3, OthersStandAside, StepsAreInstallers
  <2>5. Linked(p, i, k)
    BY <1>1, <2>1 DEF Installing, Succeeded
  <2> QED BY <2>1, <2>3, <2>4, <2>5 DEF Linked
<1>3. ASSUME MStart(p) \/ MStep(p) \/ MStop(p) PROVE Linked(p, i, k)'
  <2>0. plan' = plan /\ plan[p].mode = "install"
    BY <1>3, <1>t, InstallMoves
  <2>1. CASE MReconcile(p)
    <3>1. Reconcile(p) /\ wrappers' = wrappers /\ unlinked' = unlinked
      BY <2>1 DEF MReconcile
    <3>2. /\ pc[p] = "reconcile" /\ manifest' = manifest
          /\ changed'[p] = ChangedKits(plan[p])
          /\ pc'[p] = "fetch" \/ (ChangedKits(plan[p]) = {} /\ pc'[p] = "release")
      BY <1>t, <3>1 DEF Reconcile, Goto, disk, TypeOK
    <3>3. k = KitAt(p, i) /\ i \in DOMAIN plan[p].kits
      BY <2>0 DEF KitAt
    <3>4. ASSUME i \notin ChangedKits(plan[p]), k \notin unlinked
          PROVE  wrappers[k] = {host'[p]}
      <4>1. Lists(PackagesOf(k), plan[p].select[k])
        BY <1>t, <3>1, <3>3, <3>4, ReconcileFinds
      <4>2. Found(k)
        BY <1>t, <3>2, <3>3, <4>1, ListedIsFound
      <4>3. i \in 1..Len(plan[p].kits)
        BY <1>t, <3>2, <3>3, PlanShape
      <4>4. IsMobile(plan[p]) /\ k \in ExistingKits(plan[p])
        BY <1>t, <3>3, <4>2, <4>3 DEF IsMobile, ExistingKits, Existing, KitAt
      <4>5. PICK d \in Linkable(plan[p]) : host' = [host EXCEPT ![p] = d]
        BY <2>1, <4>4 DEF MReconcile
      <4>6. host'[p] = d /\ Accepts(k, d)
        BY <1>t, <4>4, <4>5 DEF Linkable, HostsAreDesktops
      <4>7. Build \notin wrappers[k]
        BY <3>4, <4>2 DEF LinkInv, BuildIsUnlinked
      <4> QED BY <4>6, <4>7 DEF Accepts
    <3> QED BY <3>1, <3>2, <3>4 DEF Linked
  <2>2. CASE MBeginExtract(p)
    <3>1. PICK x \in todo[p] :
            /\ wrappers'[k] # wrappers[k] =>
                 k = KitAt(p, x[1]) /\ ArchiveAt(p, x) \in KeyArchives
            /\ unlinked' = IF ArchiveAt(p, x) \in KeyArchives
                           THEN unlinked \cup {KitAt(p, x[1])} ELSE unlinked
      BY <1>t, <2>2, BeginsFirst
    <3>2. pc[p] = "extract" /\ pc'[p] = "extracting" /\ changed' = changed /\ host' = host
      BY <1>t, <2>2 DEF MBeginExtract, BeginExtract, Goto, local, TypeOK
    <3>3. Linked(p, i, k)
      BY <1>1, <2>0, <3>2 DEF Installing, Unfinished
    <3> QED BY <3>1, <3>2, <3>3 DEF Linked
  <2>3. CASE MEndExtract(p)
    <3>1. PICK x \in todo[p] :
            /\ FirstItem(x, todo[p])
            /\ wrappers'[k] # wrappers[k] =>
                 k = KitAt(p, x[1]) /\ ArchiveAt(p, x) \in KeyArchives
      BY <1>t, <2>3, EndsFirst
    <3>2. /\ pc[p] = "extracting" /\ pc'[p] = "extract" /\ changed' = changed /\ host' = host
          /\ unlinked' = unlinked
      BY <1>t, <2>3 DEF MEndExtract, EndExtract, Goto, local, TypeOK
    <3>3. Linked(p, i, k)
      BY <1>1, <2>0, <3>2 DEF Installing, Unfinished
    <3>4. ArchiveAt(p, x) \in KeyArchives => KitAt(p, x[1]) \in unlinked
      BY <3>1, <3>2 DEF LinkInv, ExtractionUnlinks
    <3> QED BY <3>1, <3>2, <3>3, <3>4 DEF Linked
  <2>4. CASE MRelocate(p)
    <3>1. PICK c \in kitsLeft[p] :
            /\ kitsLeft' = [kitsLeft EXCEPT ![p] = @ \ {c}]
            /\ wrappers' = IF KitAt(p, c) \in MobileKits
                           THEN [wrappers EXCEPT ![KitAt(p, c)] = {host[p]}] ELSE wrappers
      BY <1>t, <2>4, RelocatesFirst
    <3>2. /\ pc[p] = "relocate" /\ pc' = pc /\ changed' = changed /\ host' = host
          /\ unlinked' = unlinked
      BY <2>4 DEF MRelocate, Relocate, local
    <3>3. Linked(p, i, k) /\ k = KitAt(p, i)
      BY <1>1, <2>0, <3>2 DEF Installing, Unfinished
    <3>4. CASE k = KitAt(p, c)
      <4>1. wrappers'[k] = {host[p]}
        BY <1>t, <3>1, <3>4 DEF MTypeOK
      <4> QED BY <3>2, <4>1 DEF Linked
    <3>5. CASE k # KitAt(p, c)
      <4>1. wrappers'[k] = wrappers[k] /\ (i \notin kitsLeft'[p] => i \notin kitsLeft[p])
        BY <1>t, <3>1, <3>3, <3>5 DEF MTypeOK, TypeOK
      <4> QED BY <3>2, <3>3, <4>1 DEF Linked
    <3> QED BY <3>4, <3>5
  <2>5. CASE MCommit(p)
    <3>1. PICK c \in kitsLeft[p] : unlinked' = unlinked \ {KitAt(p, c)}
      BY <1>t, <2>5, CommitsFirst
    <3>2. /\ pc[p] = "commit" /\ pc' = pc /\ changed' = changed /\ host' = host
          /\ wrappers' = wrappers
      BY <2>5 DEF MCommit, Commit, local
    <3>3. Linked(p, i, k) /\ k = KitAt(p, i)
      BY <1>1, <2>0, <3>2 DEF Installing, Unfinished
    <3>4. CASE k = KitAt(p, c)
      <4>1. plan[p].mode = "install" /\ c \in DOMAIN plan[p].kits
        BY <1>t, <3>2, LeftHasHost DEF LinkInv
      <4>2. c \in changed[p] /\ Linked(p, c, k)
        BY <3>2, <3>4, <4>1 DEF LinkInv, KitsLeftChange, KitsAreLinked, Installing, Unfinished
      <4>3. wrappers[k] = {host[p]}
        BY <3>2, <4>2 DEF Linked
      <4> QED BY <3>2, <4>3 DEF Linked
    <3>5. CASE k # KitAt(p, c)
      BY <3>1, <3>2, <3>3, <3>5 DEF Linked
    <3> QED BY <3>4, <3>5
  <2>6. CASE /\ Fetch(p) \/ Fetched(p) \/ Extracted(p) \/ Relocated(p) \/ Committed(p)
             /\ UNCHANGED <<host, wrappers, unrecorded, unlinked>>
    <3>1. /\ pc[p] \in Unfinished /\ changed' = changed
          /\ pc'[p] \in {"fetch", "extract", "relocate", "commit", "release"}
          /\ pc'[p] = "relocate" => kitsLeft'[p] = changed[p]
          /\ pc'[p] = "commit" => pc[p] = "relocate" /\ kitsLeft[p] = {}
          /\ pc'[p] = "release" => pc[p] = "commit"
      <4>1. ~(Extracted(p) /\ pc'[p] = "release")
        BY <1>t, <2>0 DEF Extracted, TypeOK, Goto
      <4>2. ~(Fetched(p) /\ pc'[p] = "done")
        BY <1>t, <2>0 DEF Fetched, TypeOK, Goto
      <4> QED BY <1>t, <2>0, <2>6, <4>1, <4>2 DEF Fetch, Fetched, Extracted, Relocated, Committed,
             Goto, local, Unfinished, TypeOK
    <3>2. Linked(p, i, k)
      BY <1>1, <2>0, <3>1 DEF Installing
    <3>3. host' = host /\ wrappers' = wrappers /\ unlinked' = unlinked
      BY <2>6
    <3> QED BY <3>1, <3>2, <3>3 DEF Linked
  <2> QED BY <1>3, <1>t, <2>1, <2>2, <2>3, <2>4, <2>5, <2>6, InstallMoves
<1>4. ASSUME UNCHANGED <<vars, host, wrappers, unrecorded, unlinked>> PROVE Linked(p, i, k)'
  <2>1. /\ plan' = plan /\ pc' = pc /\ result' = result /\ changed' = changed
        /\ kitsLeft' = kitsLeft /\ host' = host /\ wrappers' = wrappers /\ unlinked' = unlinked
    BY <1>4 DEF vars, local
  <2>2. Linked(p, i, k)
    BY <1>1, <2>1 DEF Installing, Succeeded
  <2> QED BY <2>1, <2>2 DEF Linked
<1> QED BY <1>2, <1>3, <1>4, MobileCases

LEMMA LinkInvHolds == MSpec => [](MInv /\ LinkInv)
<1>1. MInit => MTypeOK /\ LinkInv
  <2> SUFFICES ASSUME MInit PROVE MTypeOK /\ LinkInv
    OBVIOUS
  <2>1. pc = [p \in Procs |-> "idle"] /\ manifest = [k \in Kits |-> NoManifest]
    BY DEF MInit, Init
  <2>2. LinkInv
    BY <2>1 DEF LinkInv, HostFound, KitsLeftChange, BuildIsUnlinked, ExtractionUnlinks,
       KitsAreLinked, Found, MobileKits, Unfinished, Installing, Succeeded
  <2>3. MTypeOK
    BY InstallerAssumption DEF MInit, MTypeOK
  <2> QED BY <2>2, <2>3
<1>2. HInv /\ MTypeOK /\ LinkInv /\ [MNext]_mvars => MTypeOK' /\ LinkInv'
  BY HostFoundStep, MTypeStep, KitsLeftStep, BuildStep, UnlinksStep, LinksStep
  DEF LinkInv, MInv
<1> QED BY <1>1, <1>2, HInvHolds, PTL DEF MSpec, MInv

\* Hosts are desktop Qts, wrappers name them or the build machine, and what is on
\* no record are archives of kits.
THEOREM MobileTypeCorrect == MSpec => []MTypeOK
BY LinkInvHolds, PTL DEF MInv

\* All wrappers of a mobile kit that an installation reports as installed or as
\* satisfied run the tools of the one desktop Qt this installation found, for any
\* processes, kits, requests and releases, whatever desktop Qts come and go and
\* whatever fails or dies, unless its wrappers were extracted without a commit.
THEOREM SuccessIsLinked == MSpec => []LinkedToTheHost
<1>1. MInv /\ LinkInv => LinkedToTheHost
  <2> SUFFICES ASSUME MInv, LinkInv, NEW p \in Procs, Succeeded(p),
                      NEW k \in (KitsOf(plan[p]) \cap MobileKits) \ unlinked
               PROVE  wrappers[k] = {host[p]}
    BY DEF LinkedToTheHost
  <2>2. PICK i \in 1..Len(plan[p].kits) : k = plan[p].kits[i]
    BY DEF KitsOf
  <2>3. i \in DOMAIN plan[p].kits
    BY <2>2, LenProperties DEF MInv, HInv, SInv, IInv, TypeOK, PlanTypes
  <2>4. Linked(p, i, k)
    BY <2>2, <2>3 DEF LinkInv, KitsAreLinked, Installing, KitAt
  <2> QED BY <2>4 DEF Linked, Succeeded
<1> QED BY <1>1, LinkInvHolds, PTL
-----------------------------------------------------------------------------
(* Records.                                                                *)

\* The archive that is being extracted is torn and on no record.
ExtractionUnrecords ==
  \A p \in Procs : pc[p] = "extracting" =>
    \A x \in todo[p] : FirstItem(x, todo[p]) =>
      /\ files[KitAt(p, x[1])][ArchiveAt(p, x)] = Torn
      /\ \A v \in Releases : <<KitAt(p, x[1]), ArchiveAt(p, x), v>> \in unrecorded

\* What a manifest says is so, but for the archives that are on no record.
ManifestsAreTrue ==
  \A k \in Kits : Found(k) =>
    \A n \in DOMAIN manifest[k] : \A a \in ArchiveSet(n) :
      <<k, a, manifest[k][n].version>> \notin unrecorded =>
        files[k][a] = manifest[k][n].version /\ a \in relocated[k]

\* The archives of the base package of kit k.
BaseArchives(k) ==
  UNION {UNION {ArchiveSet(r.select[k][j].name) :
                  j \in {j \in DOMAIN r.select[k] : r.select[k][j].module = Base}} :
           r \in Requests}

\* A kit without a manifest that has key files holds its base package, at every
\* release but those that are on no record.
BasesAreWhole ==
  \A k \in Kits : ~Found(k) /\ (\E a \in KeyArchives : files[k][a] # Absent) =>
    \A b \in BaseArchives(k), v \in Releases :
      <<k, b, v>> \notin unrecorded => files[k][b] = v

\* What an installation has relocated is validated and relocated as a whole.
RelocatedKits ==
  \A p \in Procs : plan[p].mode = "install" /\ pc[p] \in {"relocate", "commit"} =>
    \A i \in changed[p] : pc[p] = "commit" \/ i \notin kitsLeft[p] =>
      MayValidate(KitAt(p, i)) /\ relocated[KitAt(p, i)] = Present(KitAt(p, i))

RecordInv == ExtractionUnrecords /\ ManifestsAreTrue /\ BasesAreWhole /\ RelocatedKits

\* All that the inductive steps below build on.
AllInv == MInv /\ LinkInv /\ DInv

LEMMA AllInvFacts ==
  ASSUME AllInv
  PROVE  /\ TypeOK /\ IInv /\ SInv /\ Progress /\ Outcome /\ DInv /\ MTypeOK /\ MInv
         /\ HostsAreDesktops /\ KitsLeftChange
BY DEF AllInv, MInv, HInv, DInv, CInv, SInv, IInv, LinkInv

\* An item left to a process is one of its package's archives.
LEMMA LeftArchive ==
  ASSUME SInv, NEW p \in Procs, NEW x \in todo[p] \cup pending[p]
  PROVE  ArchiveAt(p, x) \in ArchiveSet(SelectionAt(p, x).name)
<1>1. plan[p] \in PlanTypes /\ x \in AllItems(plan[p])
  BY DEF SInv, IInv, TypeOK, ItemsPlanned
<1>2. x[3] \in DOMAIN ArchivesOf[SelectionAt(p, x).name]
  BY <1>1, ItemType, Zenon DEF KitAt, SelectionAt
<1> QED BY <1>2 DEF ArchiveSet, ArchiveAt

\* What belongs to a kit's base package are archives.
LEMMA BaseArchivesType ==
  ASSUME NEW k \in Kits
  PROVE  BaseArchives(k) \subseteq Archives
<1> SUFFICES ASSUME NEW r \in Requests, NEW j \in DOMAIN r.select[k]
             PROVE  ArchiveSet(r.select[k][j].name) \subseteq Archives
  BY DEF BaseArchives
<1>1. r.select \in [Kits -> Seq([name : Names, module : Modules])]
  BY InstallerAssumption
<1>2. r.select[k] \in Seq([name : Names, module : Modules])
  BY <1>1
<1>3. r.select[k][j] \in [name : Names, module : Modules]
  BY <1>2, ElementOfSeq, LenProperties
<1>4. ArchivesOf[r.select[k][j].name] \in Seq(Archives)
  BY <1>3, InstallerAssumption
<1>5. \A a \in DOMAIN ArchivesOf[r.select[k][j].name] :
        ArchivesOf[r.select[k][j].name][a] \in Archives
  BY <1>4, LenProperties, ElementOfSeq
<1> QED BY <1>5 DEF ArchiveSet

\* A package that brings key files is the kit's base package, and has all of its
\* archives.
LEMMA KeysComeWithTheBase ==
  ASSUME SInv, NEW p \in Procs, pc[p] # "idle", NEW x \in todo[p],
         ArchiveAt(p, x) \in KeyArchives
  PROVE  BaseArchives(KitAt(p, x[1])) \subseteq ArchiveSet(SelectionAt(p, x).name)
<1> DEFINE k == KitAt(p, x[1])
           s == SelectionAt(p, x)
<1>1. plan[p] \in PlanTypes /\ x \in AllItems(plan[p])
  BY DEF SInv, IInv, TypeOK, ItemsPlanned
<1>2. x[1] \in 1..Len(plan[p].kits) /\ x[2] \in 1..Len(plan[p].select[k]) /\ k \in Kits
  BY <1>1, ItemType, Zenon DEF KitAt
<1>3. plan[p].kits \in Seq(Kits) /\ plan[p].select[k] \in Seq(Selections)
  BY <1>1, <1>2 DEF PlanTypes
<1>4. x[1] \in DOMAIN plan[p].kits /\ x[2] \in DOMAIN plan[p].select[k]
  BY <1>2, <1>3, LenProperties
<1>5. PICK r \in Requests :
        /\ x[2] \in DOMAIN r.select[k]
        /\ r.select[k][x[2]].name = s.name
        /\ r.select[k][x[2]].module = s.module
  BY <1>4, PlannedSelection DEF SelectionAt
<1>6. ArchiveAt(p, x) \in ArchiveSet(s.name)
  BY LeftArchive
<1>7. r.select[k][x[2]].module = Base
  BY <1>2, <1>5, <1>6, KeyFilesAssumption
<1> SUFFICES ASSUME NEW t \in Requests, NEW j \in DOMAIN t.select[k],
                    t.select[k][j].module = Base
             PROVE  ArchiveSet(t.select[k][j].name) = ArchiveSet(s.name)
  BY DEF BaseArchives
<1> QED BY <1>2, <1>5, <1>7, KeyFilesAssumption

\* What kit k holds when all that p extracts into it is extracted, and when it is
\* relocated as well.
LEMMA HeldIsExtracted ==
  ASSUME SInv, Progress, NEW p \in Procs, NEW k, plan[p].mode = "install",
         \/ pc[p] \in {"relocate", "commit"}
         \/ pc[p] \in {"extract", "extracting"} /\ \A x \in todo[p] : KitAt(p, x[1]) # k,
         NEW a, NEW v, <<k, a, v>> \in HeldBy(p, k)
  PROVE  files[k][a] = v /\ (pc[p] = "commit" => a \in relocated[k])
<1>1. PICK x \in pending[p] :
        KitAt(p, x[1]) = k /\ <<k, a, v>> = <<k, ArchiveAt(p, x), SelectionAt(p, x).version>>
  BY DEF HeldBy
<1>2. Extracted1(p, x)
  <2>1. CASE pc[p] \in {"relocate", "commit"}
    BY <2>1 DEF Progress, Unfinished
  <2>2. CASE pc[p] \in {"extract", "extracting"} /\ \A y \in todo[p] : KitAt(p, y[1]) # k
    <3>1. x \in pending[p] \ todo[p]
      BY <1>1, <2>2
    <3>2. ~\E y \in todo[p] : FirstItem(y, todo[p]) /\ SameFiles(p, x, y)
      BY <1>1, <2>2 DEF SameFiles
    <3> QED BY <2>2, <3>1, <3>2 DEF Progress, Unfinished
  <2> QED BY <2>1, <2>2
<1>3. pc[p] = "commit" => Relocated1(p, x)
  BY DEF Progress, Unfinished
<1> QED BY <1>1, <1>2, <1>3 DEF Extracted1, Relocated1

LEMMA UnrecordsStep == AllInv /\ ExtractionUnrecords /\ [MNext]_mvars => ExtractionUnrecords'
<1> SUFFICES ASSUME AllInv, ExtractionUnrecords, [MNext]_mvars, NEW p \in Procs,
                    pc'[p] = "extracting", NEW x \in todo'[p], FirstItem(x, todo'[p])
             PROVE  /\ files'[KitAt(p, x[1])'][ArchiveAt(p, x)'] = Torn
                    /\ \A v \in Releases :
                         <<KitAt(p, x[1])', ArchiveAt(p, x)', v>> \in unrecorded'
  BY DEF ExtractionUnrecords
<1>t. TypeOK /\ SInv /\ MTypeOK /\ MInv
  BY AllInvFacts
<1>1. plan'[p] = plan[p] /\ todo'[p] = todo[p] /\ todo[p] \in SUBSET Items
  BY <1>t, ExtractionGoesOn
<1>2. KitAt(p, x[1])' = KitAt(p, x[1]) /\ ArchiveAt(p, x)' = ArchiveAt(p, x)
  BY <1>1, Zenon DEF KitAt, ArchiveAt, SelectionAt
<1>3. CASE MBeginExtract(p)
  <2>1. PICK y \in todo[p] :
          /\ FirstItem(y, todo[p])
          /\ files' = [files EXCEPT ![KitAt(p, y[1])][ArchiveAt(p, y)] = Torn]
          /\ unrecorded' = unrecorded \cup
               ({KitAt(p, y[1])} \X ArchiveSet(SelectionAt(p, y).name) \X Releases)
    BY <1>3, <1>t, BeginsFirst
  <2>2. y = x
    BY <1>1, <2>1, FirstIsUnique
  <2>3. KitAt(p, x[1]) \in Kits /\ ArchiveAt(p, x) \in Archives
    BY <1>t, <1>1, LeftItem
  <2>4. ArchiveAt(p, x) \in ArchiveSet(SelectionAt(p, x).name)
    BY <1>t, <1>1, LeftArchive
  <2>5. files'[KitAt(p, x[1])][ArchiveAt(p, x)] = Torn
    BY <1>t, <2>1, <2>2, <2>3 DEF TypeOK
  <2>6. \A v \in Releases : <<KitAt(p, x[1]), ArchiveAt(p, x), v>> \in unrecorded'
    BY <2>1, <2>2, <2>4
  <2> QED BY <1>2, <2>5, <2>6
<1>4. CASE pc[p] = "extracting" /\ disk' = disk /\ unrecorded' = unrecorded
  BY <1>1, <1>2, <1>4 DEF ExtractionUnrecords, disk
<1> QED BY <1>t, <1>3, <1>4, ExtractionGoesOn

\* What a step does to manifests, files and records: apart from four actions, it
\* relocates archives of a kit, and puts on record what a kit without a manifest
\* holds.
LEMMA RecordMoves ==
  ASSUME AllInv, [MNext]_mvars
  PROVE  \/ \E p \in Procs : MBeginExtract(p) \/ MEndExtract(p) \/ MRelocate(p) \/ MCommit(p)
         \/ /\ manifest' = manifest /\ files' = files
            /\ \A k \in Kits : relocated[k] \subseteq relocated'[k]
            /\ unrecorded' \subseteq unrecorded
            /\ \A k, a, v : <<k, a, v>> \in unrecorded \ unrecorded' =>
                 ~Found(k) /\ files[k][a] = v
<1> DEFINE Kept == /\ manifest' = manifest /\ files' = files
                   /\ \A k \in Kits : relocated[k] \subseteq relocated'[k]
                   /\ unrecorded' \subseteq unrecorded
                   /\ \A k, a, v : <<k, a, v>> \in unrecorded \ unrecorded' =>
                        ~Found(k) /\ files[k][a] = v
<1>t. TypeOK /\ SInv /\ Progress
  BY AllInvFacts
<1>1. ASSUME NEW p \in Procs, unrecorded' = unrecorded \ Whole(p)
      PROVE  \A k, a, v : <<k, a, v>> \in unrecorded \ unrecorded' =>
               ~Found(k) /\ files[k][a] = v
  <2> SUFFICES ASSUME NEW k, NEW a, NEW v, <<k, a, v>> \in Whole(p)
               PROVE  ~Found(k) /\ files[k][a] = v
    BY <1>1
  <2>1. PICK l \in Kits :
          /\ <<k, a, v>> \in HeldBy(p, l) /\ ~Found(l) /\ plan[p].mode = "install"
          /\ pc[p] \in {"extract", "extracting", "relocate", "commit"}
          /\ \A x \in todo[p] : KitAt(p, x[1]) # l
    BY DEF Whole
  <2>2. k = l
    BY <2>1 DEF HeldBy
  <2> QED BY <1>t, <2>1, <2>2, HeldIsExtracted
<1>2. ASSUME NEW p \in Procs, MRelocateFails(p) PROVE Kept
  <2>1. manifest' = manifest /\ files' = files /\ unrecorded' = unrecorded \ Whole(p)
    BY <1>2 DEF MRelocateFails, RelocateFails
  <2>2. \A k \in Kits : relocated[k] \subseteq relocated'[k]
    BY <1>2, <1>t DEF MRelocateFails, RelocateFails, TypeOK
  <2> QED BY <1>1, <2>1, <2>2
<1>3. ASSUME NEW p \in Procs, MStop(p) PROVE Kept
  <2>1. disk' = disk /\ unrecorded' = unrecorded \ Whole(p)
    BY <1>3 DEF MStop, Fail, Crash
  <2> QED BY <1>1, <2>1 DEF disk
<1>4. ASSUME NEW p \in Procs, MStart(p) \/ Unlinked(p) \/ MReconcile(p) \/ MReject(p)
      PROVE  Kept
  <2>1. disk' = disk /\ unrecorded' = unrecorded
    BY <1>4, RejectionFails DEF MStart, Unlinked, MReconcile, MReject, disk, Start, Acquire,
       Reconcile, Reject, SelectAll, Fetch, Fetched, Extracted, Relocated, Committed,
       Release, Fail
  <2> QED BY <2>1 DEF disk
<1>5. ASSUME UNCHANGED <<vars, host, wrappers, unrecorded, unlinked>> PROVE Kept
  BY <1>5 DEF vars, disk
<1> QED BY <1>2, <1>3, <1>4, <1>5, MobileCases DEF MStep

LEMMA BasesStep ==
  AllInv /\ ExtractionUnrecords /\ BasesAreWhole /\ [MNext]_mvars => BasesAreWhole'
<1> SUFFICES ASSUME AllInv, ExtractionUnrecords, BasesAreWhole, [MNext]_mvars,
                    NEW k \in Kits, ~Found(k)', NEW a \in KeyArchives, files'[k][a] # Absent,
                    NEW b \in BaseArchives(k), NEW v \in Releases,
                    <<k, b, v>> \notin unrecorded'
             PROVE  files'[k][b] = v
  BY DEF BasesAreWhole, BaseArchives
<1>t. TypeOK /\ SInv /\ Progress /\ Outcome /\ MTypeOK
  BY AllInvFacts
<1>0. /\ ~Found(k) /\ a \in Archives /\ b \in Archives /\ Torn # Absent
  BY <1>t, FoundStays, StepsAreInstallers, BaseArchivesType, InstallerAssumption
<1>1. ASSUME files[k][a] # Absent, <<k, b, v>> \notin unrecorded PROVE files[k][b] = v
  BY <1>0, <1>1 DEF BasesAreWhole
<1>2. ASSUME NEW p \in Procs, MBeginExtract(p) PROVE files'[k][b] = v
  <2>1. PICK x \in todo[p] :
          /\ files' = [files EXCEPT ![KitAt(p, x[1])][ArchiveAt(p, x)] = Torn]
          /\ unrecorded' = unrecorded \cup
               ({KitAt(p, x[1])} \X ArchiveSet(SelectionAt(p, x).name) \X Releases)
    BY <1>2, <1>t, BeginsFirst
  <2>2. ArchiveAt(p, x) \in ArchiveSet(SelectionAt(p, x).name)
    BY <1>t, LeftArchive
  <2>3. k = KitAt(p, x[1]) => b # ArchiveAt(p, x)
    BY <2>1, <2>2
  <2>4. files'[k][b] = files[k][b]
    BY <1>t, <1>0, <2>1, <2>3 DEF TypeOK
  <2>5. pc[p] # "idle"
    BY <1>2 DEF MBeginExtract, BeginExtract, Goto
  <2>6. k = KitAt(p, x[1]) => a # ArchiveAt(p, x)
    <3>1. ASSUME k = KitAt(p, x[1]), a = ArchiveAt(p, x) PROVE FALSE
      <4>1. b \in ArchiveSet(SelectionAt(p, x).name)
        BY <1>t, <2>5, <3>1, KeysComeWithTheBase
      <4> QED BY <2>1, <3>1, <4>1
    <3> QED BY <3>1
  <2>7. files'[k][a] = files[k][a]
    BY <1>t, <1>0, <2>1, <2>6 DEF TypeOK
  <2> QED BY <1>1, <2>1, <2>4, <2>7
<1>3. ASSUME NEW p \in Procs, MEndExtract(p) PROVE files'[k][b] = v
  <2>1. PICK x \in todo[p] :
          /\ FirstItem(x, todo[p])
          /\ files' = [files EXCEPT ![KitAt(p, x[1])][ArchiveAt(p, x)] =
                                      SelectionAt(p, x).version]
    BY <1>3, <1>t, EndsFirst
  <2>2. unrecorded' = unrecorded /\ pc[p] = "extracting"
    BY <1>3 DEF MEndExtract, EndExtract, Goto
  <2>3. /\ files[KitAt(p, x[1])][ArchiveAt(p, x)] = Torn
        /\ <<KitAt(p, x[1]), ArchiveAt(p, x), v>> \in unrecorded
    BY <2>1, <2>2 DEF ExtractionUnrecords
  <2>4. files[k][a] # Absent
    BY <1>t, <1>0, <2>1, <2>3 DEF TypeOK
  <2>5. files'[k][b] = files[k][b]
    BY <1>t, <1>0, <2>1, <2>2, <2>3 DEF TypeOK
  <2> QED BY <1>1, <2>2, <2>4, <2>5
<1>4. ASSUME NEW p \in Procs, MRelocate(p) PROVE files'[k][b] = v
  BY <1>1, <1>4 DEF MRelocate, Relocate
<1>5. ASSUME NEW p \in Procs, MCommit(p) PROVE files'[k][b] = v
  <2>1. PICK i \in kitsLeft[p] : unrecorded' = unrecorded \ HeldBy(p, KitAt(p, i))
    BY <1>5, <1>t, CommitsFirst
  <2>2. files' = files /\ pc[p] = "commit"
    BY <1>5 DEF MCommit, Commit
  <2>3. CASE <<k, b, v>> \in HeldBy(p, KitAt(p, i))
    <3>1. k = KitAt(p, i)
      BY <2>3 DEF HeldBy
    <3>2. plan[p].mode = "install"
      BY <1>t, <2>2 DEF IInv, LockedModes, SInv
    <3> QED BY <1>t, <2>2, <2>3, <3>1, <3>2, HeldIsExtracted
  <2> QED BY <1>1, <2>1, <2>2, <2>3
<1>6. CASE /\ files' = files
           /\ \A l, c, w : <<l, c, w>> \in unrecorded \ unrecorded' =>
                ~Found(l) /\ files[l][c] = w
  BY <1>1, <1>6
<1> QED BY <1>2, <1>3, <1>4, <1>5, <1>6, RecordMoves

LEMMA RelocatedKitsStep == AllInv /\ RelocatedKits /\ [MNext]_mvars => RelocatedKits'
<1> SUFFICES ASSUME AllInv, RelocatedKits, [MNext]_mvars, NEW p \in Procs,
                    plan'[p].mode = "install", pc'[p] \in {"relocate", "commit"},
                    NEW i \in changed'[p], pc'[p] = "commit" \/ i \notin kitsLeft'[p]
             PROVE  MayValidate(KitAt(p, i))' /\ relocated'[KitAt(p, i)'] = Present(KitAt(p, i))'
  BY DEF RelocatedKits
<1> DEFINE Goal == MayValidate(KitAt(p, i))' /\ relocated'[KitAt(p, i)'] = Present(KitAt(p, i))'
<1>t. TypeOK /\ IInv /\ SInv /\ HostsAreDesktops
  BY AllInvFacts
<1>1. ASSUME plan'[p] = plan[p], files' = files, relocated' = relocated,
             changed'[p] = changed[p], pc[p] \in {"relocate", "commit"},
             pc[p] = "commit" \/ i \notin kitsLeft[p]
      PROVE  Goal
  <2>1. MayValidate(KitAt(p, i)) /\ relocated[KitAt(p, i)] = Present(KitAt(p, i))
    BY <1>1 DEF RelocatedKits
  <2>2. KitAt(p, i)' = KitAt(p, i)
    BY <1>1, Zenon DEF KitAt
  <2> QED BY <1>1, <2>1, <2>2 DEF MayValidate, Present
<1>2. ASSUME NEW q \in Procs \ {p}, MStart(q) \/ MStep(q) \/ MStop(q) PROVE Goal
  <2>1. plan'[p] = plan[p] /\ pc'[p] = pc[p]
    BY <1>2, <1>t, OthersMindTheirOwn
  <2>2. lock = p
    BY <1>t, <2>1 DEF IInv, OneMaterializer, InsideLock, LockedPhases
  <2>3. Start(q) \/ Step(q) \/ Fail(q) \/ Crash(q)
    BY <1>2, <1>t, <2>2, OthersLinkNothing
  <2>4. disk' = disk /\ changed'[p] = changed[p] /\ kitsLeft'[p] = kitsLeft[p]
    BY <1>t, <2>2, <2>3, OthersStandAside, StepsAreInstallers
  <2> QED BY <1>1, <2>1, <2>4 DEF disk
<1>3. ASSUME MStart(p) \/ MStep(p) \/ MStop(p) PROVE Goal
  <2>0. plan' = plan
    BY <1>3, <1>t, InstallMoves DEF Installing, Unfinished
  <2>1. CASE \/ MReconcile(p) \/ MBeginExtract(p) \/ MEndExtract(p)
             \/ Fetch(p) \/ Fetched(p) \/ Committed(p)
    BY <1>t, <2>1 DEF MReconcile, Reconcile, MBeginExtract, BeginExtract, MEndExtract,
       EndExtract, Fetch, Fetched, Committed, Goto, TypeOK
  <2>2. CASE Extracted(p)
    <3>1. pc'[p] = "relocate" /\ kitsLeft'[p] = changed[p] /\ changed' = changed
      BY <1>t, <2>2 DEF Extracted, Goto, local, TypeOK
    <3> QED BY <3>1
  <2>3. CASE MRelocate(p)
    <3>1. PICK c \in kitsLeft[p] :
            /\ kitsLeft' = [kitsLeft EXCEPT ![p] = @ \ {c}]
            /\ MayValidate(KitAt(p, c))
            /\ relocated' = [relocated EXCEPT ![KitAt(p, c)] = Present(KitAt(p, c))]
      BY <1>t, <2>3, RelocatesFirst
    <3>2. pc[p] = "relocate" /\ pc' = pc /\ changed' = changed /\ files' = files
      BY <2>3 DEF MRelocate, Relocate, local
    <3>3. plan[p].mode = "install" /\ i \in changed[p] /\ kitsLeft'[p] = kitsLeft[p] \ {c}
      BY <1>t, <2>0, <3>1, <3>2 DEF TypeOK
    <3>4. KitAt(p, c) \in Kits
      BY <1>t, <3>2, LeftHasHost DEF AllInv, LinkInv
    <3>5. KitAt(p, i) \in Kits
      <4>1. i \in 1..Len(plan[p].kits)
        BY <1>t, <3>2, <3>3 DEF SInv, RecordsServe, Unfinished
      <4>2. plan[p].kits \in Seq(Kits)
        BY <1>t DEF TypeOK, PlanTypes
      <4> QED BY <4>1, <4>2, ElementOfSeq DEF KitAt
    <3>6. MayValidate(KitAt(p, i)) /\ relocated'[KitAt(p, i)] = Present(KitAt(p, i))
      <4>1. CASE KitAt(p, i) = KitAt(p, c)
        BY <1>t, <3>1, <3>4, <4>1 DEF TypeOK
      <4>2. CASE KitAt(p, i) # KitAt(p, c)
        <5>1. i \notin kitsLeft[p]
          BY <3>2, <3>3, <4>2
        <5>2. MayValidate(KitAt(p, i)) /\ relocated[KitAt(p, i)] = Present(KitAt(p, i))
          BY <3>2, <3>3, <5>1 DEF RelocatedKits
        <5> QED BY <1>t, <3>1, <3>5, <4>2, <5>2 DEF TypeOK
      <4> QED BY <4>1, <4>2
    <3>7. KitAt(p, i)' = KitAt(p, i)
      BY <2>0, Zenon DEF KitAt
    <3> QED BY <3>2, <3>6, <3>7 DEF MayValidate, Present
  <2>4. CASE Relocated(p)
    <3>1. /\ pc[p] = "relocate" /\ kitsLeft[p] = {} /\ changed' = changed
          /\ files' = files /\ relocated' = relocated
      BY <2>4 DEF Relocated, Goto, local, disk
    <3> QED BY <1>1, <2>0, <3>1
  <2>5. CASE MCommit(p)
    <3>1. /\ pc[p] = "commit" /\ changed' = changed
          /\ files' = files /\ relocated' = relocated
      BY <2>5 DEF MCommit, Commit, local
    <3> QED BY <1>1, <2>0, <3>1
  <2> QED BY <1>3, <1>t, <2>1, <2>2, <2>3, <2>4, <2>5, InstallMoves DEF Installing, Unfinished
<1>4. CASE UNCHANGED vars
  BY <1>1, <1>4 DEF vars, disk, local
<1> QED BY <1>2, <1>3, <1>4, MobileCases

\* A manifest that is published for the first time names as its base package one
\* of the base packages of the requests, and the kit was validated.
LEMMA AdoptedBase ==
  ASSUME AllInv, RelocatedKits, NEW p \in Procs, pc[p] = "commit", NEW i \in kitsLeft[p],
         ~Found(KitAt(p, i)), NEW n \in DOMAIN records[p][KitAt(p, i)],
         records[p][KitAt(p, i)][n].module = Base
  PROVE  /\ ArchiveSet(n) \subseteq BaseArchives(KitAt(p, i))
         /\ MayValidate(KitAt(p, i))
         /\ relocated[KitAt(p, i)] = Present(KitAt(p, i))
<1> DEFINE k == KitAt(p, i)
           sels == plan[p].select[k]
<1>t. TypeOK /\ IInv /\ SInv /\ KitsLeftChange
  BY AllInvFacts
<1>1. plan[p].mode = "install" /\ i \in DOMAIN plan[p].kits /\ k \in Kits
  BY <1>t, LeftHasHost DEF AllInv, LinkInv
<1>2. MayValidate(k) /\ relocated[k] = Present(k)
  BY <1>t, <1>1 DEF KitsLeftChange, RelocatedKits
<1>3. sels \in Seq(Selections)
  BY <1>t, <1>1, PlanShape
<1>4. records[p][k] \in Packages
  BY <1>t, <1>1 DEF TypeOK
<1>5. manifest[k] # records[p][k]
  BY <1>4, InstallerAssumption DEF Found
<1>6. records[p][k] = Recorded(NoPackages, sels)
  BY <1>t, <1>1, <1>5 DEF SInv, RecordsServe, Unfinished, PackagesOf, Found
<1>7. PICK j \in DOMAIN sels : sels[j].name = n /\ records[p][k][n] = RecordOf(sels[j])
  <2>1. n \notin DOMAIN NoPackages
    BY DEF NoPackages
  <2> QED BY <1>3, <1>6, <2>1, NoPackagesType, RecordedCases
<1>8. sels[j].module = Base
  BY <1>7 DEF RecordOf
<1>9. PICK r \in Requests :
        /\ j \in DOMAIN r.select[k]
        /\ r.select[k][j].name = n
        /\ r.select[k][j].module = Base
  BY <1>t, <1>1, <1>7, <1>8, PlannedSelection
<1>10. ArchiveSet(n) \subseteq BaseArchives(k)
  BY <1>9 DEF BaseArchives
<1> QED BY <1>2, <1>10

LEMMA ManifestsStep == AllInv /\ RecordInv /\ [MNext]_mvars => ManifestsAreTrue'
<1> SUFFICES ASSUME AllInv, RecordInv, [MNext]_mvars,
                    NEW k \in Kits, Found(k)', NEW n \in DOMAIN manifest'[k],
                    NEW a \in ArchiveSet(n), <<k, a, manifest'[k][n].version>> \notin unrecorded'
             PROVE  files'[k][a] = manifest'[k][n].version /\ a \in relocated'[k]
  BY DEF ManifestsAreTrue, ArchiveSet
<1> DEFINE v    == manifest'[k][n].version
           Goal == files'[k][a] = v /\ a \in relocated'[k]
<1>t. TypeOK /\ SInv /\ Progress /\ Outcome /\ DInv /\ MTypeOK /\ KitsLeftChange
  BY AllInvFacts
<1>n. [Next]_vars
  BY StepsAreInstallers
<1>0. a \in Archives /\ v \in Releases
  <2>1. TypeOK'
    BY <1>t, <1>n, TypeStep DEF SInv, IInv
  <2>2. manifest'[k] \in Packages
    BY <2>1 DEF TypeOK, Found
  <2>3. n \in Names /\ manifest'[k][n] \in PackageRecords
    BY <2>2 DEF Packages
  <2>4. ArchivesOf[n] \in Seq(Archives)
    BY <2>3, InstallerAssumption
  <2>5. \A l \in DOMAIN ArchivesOf[n] : ArchivesOf[n][l] \in Archives
    BY <2>4, LenProperties, ElementOfSeq
  <2> QED BY <2>3, <2>5 DEF PackageRecords, ArchiveSet
<1>1. ASSUME manifest'[k] = manifest[k], <<k, a, v>> \notin unrecorded
      PROVE  files[k][a] = v /\ a \in relocated[k]
  BY <1>1 DEF RecordInv, ManifestsAreTrue, Found
<1>2. ASSUME NEW p \in Procs, MBeginExtract(p) PROVE Goal
  <2>1. PICK x \in todo[p] :
          /\ files' = [files EXCEPT ![KitAt(p, x[1])][ArchiveAt(p, x)] = Torn]
          /\ relocated' = [relocated EXCEPT ![KitAt(p, x[1])] = @ \ {ArchiveAt(p, x)}]
          /\ unrecorded' = unrecorded \cup
               ({KitAt(p, x[1])} \X ArchiveSet(SelectionAt(p, x).name) \X Releases)
    BY <1>2, <1>t, BeginsFirst
  <2>2. ArchiveAt(p, x) \in ArchiveSet(SelectionAt(p, x).name)
    BY <1>t, LeftArchive
  <2>3. k = KitAt(p, x[1]) => a # ArchiveAt(p, x)
    BY <1>0, <2>1, <2>2
  <2>4. manifest' = manifest
    BY <1>2 DEF MBeginExtract, BeginExtract
  <2>5. files[k][a] = v /\ a \in relocated[k]
    BY <1>1, <2>1, <2>4
  <2>6. files'[k][a] = files[k][a] /\ (a \in relocated[k] => a \in relocated'[k])
    BY <1>t, <1>0, <2>1, <2>3 DEF TypeOK
  <2> QED BY <2>5, <2>6
<1>3. ASSUME NEW p \in Procs, MEndExtract(p) PROVE Goal
  <2>1. PICK x \in todo[p] :
          /\ FirstItem(x, todo[p])
          /\ files' = [files EXCEPT ![KitAt(p, x[1])][ArchiveAt(p, x)] =
                                      SelectionAt(p, x).version]
    BY <1>3, <1>t, EndsFirst
  <2>2. /\ unrecorded' = unrecorded /\ pc[p] = "extracting"
        /\ manifest' = manifest /\ relocated' = relocated
    BY <1>3 DEF MEndExtract, EndExtract, Goto
  <2>3. <<KitAt(p, x[1]), ArchiveAt(p, x), v>> \in unrecorded
    BY <1>0, <2>1, <2>2 DEF RecordInv, ExtractionUnrecords
  <2>4. files'[k][a] = files[k][a]
    BY <1>t, <1>0, <2>1, <2>2, <2>3 DEF TypeOK
  <2> QED BY <1>1, <2>2, <2>4
<1>4. ASSUME NEW p \in Procs, MRelocate(p) PROVE Goal
  <2>1. PICK i \in kitsLeft[p] :
          relocated' = [relocated EXCEPT ![KitAt(p, i)] = Present(KitAt(p, i))]
    BY <1>4, <1>t, RelocatesFirst
  <2>2. manifest' = manifest /\ files' = files /\ unrecorded' = unrecorded
    BY <1>4 DEF MRelocate, Relocate
  <2>3. files[k][a] = v /\ a \in relocated[k]
    BY <1>1, <2>2
  <2>4. a \in Present(k)
    BY <1>0, <2>3, InstallerAssumption DEF Present
  <2> QED BY <1>t, <2>1, <2>2, <2>3, <2>4 DEF TypeOK
<1>5. ASSUME NEW p \in Procs, MCommit(p) PROVE Goal
  <2>1. PICK i \in kitsLeft[p] :
          /\ manifest' = [manifest EXCEPT ![KitAt(p, i)] = records[p][KitAt(p, i)]]
          /\ unrecorded' = unrecorded \ HeldBy(p, KitAt(p, i))
    BY <1>5, <1>t, CommitsFirst
  <2>2. files' = files /\ relocated' = relocated /\ pc[p] = "commit"
    BY <1>5 DEF MCommit, Commit
  <2>3. CASE <<k, a, v>> \in HeldBy(p, KitAt(p, i))
    <3>1. k = KitAt(p, i)
      BY <2>3 DEF HeldBy
    <3>2. plan[p].mode = "install"
      BY <1>t, <2>2 DEF IInv, LockedModes, SInv
    <3> QED BY <1>t, <2>2, <2>3, <3>1, <3>2, HeldIsExtracted
  <2>4. CASE <<k, a, v>> \notin HeldBy(p, KitAt(p, i))
    <3>0. <<k, a, v>> \notin unrecorded
      BY <2>1, <2>4
    <3>1. CASE manifest'[k] = manifest[k]
      BY <1>1, <2>2, <3>0, <3>1
    <3>2. CASE n \in DOMAIN PackagesOf(k) /\ PackagesOf(k)[n] = manifest'[k][n]
      <4>1. Found(k) /\ n \in DOMAIN manifest[k] /\ manifest[k][n] = manifest'[k][n]
        BY <3>2 DEF PackagesOf, Found, NoPackages
      <4>2. files[k][a] = v /\ a \in relocated[k]
        BY <3>0, <4>1 DEF RecordInv, ManifestsAreTrue
      <4> QED BY <2>2, <4>2
    <3>3. CASE Complete(k, n, v)
      BY <2>2, <3>3 DEF Complete, ArchiveSet
    <3>4. CASE manifest'[k] # manifest[k] /\ ~Found(k) /\ manifest'[k][n].module = Base
      <4>1. k = KitAt(p, i) /\ manifest'[k] = records[p][k]
        BY <1>t, <2>1, <3>4 DEF TypeOK
      <4>2. /\ ArchiveSet(n) \subseteq BaseArchives(k)
            /\ MayValidate(k) /\ relocated[k] = Present(k)
        BY <2>2, <3>4, <4>1, AdoptedBase DEF RecordInv
      <4>3. \E key \in KeyArchives : files[k][key] # Absent
        BY <4>2, KeyFilesAssumption DEF MayValidate, Present
      <4>4. files[k][a] = v
        BY <1>0, <3>0, <3>4, <4>2, <4>3 DEF RecordInv, BasesAreWhole
      <4>5. a \in Present(k)
        BY <1>0, <4>4, InstallerAssumption DEF Present
      <4> QED BY <2>2, <4>2, <4>4, <4>5
    <3> QED BY <1>t, <1>n, <3>1, <3>2, <3>3, <3>4, NewRecordsStep
  <2> QED BY <2>3, <2>4
<1>6. CASE /\ manifest' = manifest /\ files' = files
           /\ \A l \in Kits : relocated[l] \subseteq relocated'[l]
           /\ \A l, c, w : <<l, c, w>> \in unrecorded \ unrecorded' =>
                ~Found(l) /\ files[l][c] = w
  <2>1. <<k, a, v>> \notin unrecorded
    BY <1>6 DEF Found
  <2> QED BY <1>1, <1>6, <2>1
<1> QED BY <1>2, <1>3, <1>4, <1>5, <1>6, RecordMoves

LEMMA RecordInvHolds == MSpec => [](AllInv /\ RecordInv)
<1>1. MInit => RecordInv
  <2> SUFFICES ASSUME MInit PROVE RecordInv
    OBVIOUS
  <2>1. /\ pc = [p \in Procs |-> "idle"] /\ manifest = [k \in Kits |-> NoManifest]
        /\ unrecorded = LegacyKits \X Archives \X Releases
    BY DEF MInit, Init
  <2>2. BasesAreWhole
    <3> SUFFICES ASSUME NEW k \in Kits, NEW a \in KeyArchives, files[k][a] # Absent,
                        NEW b \in BaseArchives(k), NEW v \in Releases
                 PROVE  <<k, b, v>> \in unrecorded
      BY DEF BasesAreWhole, BaseArchives
    <3>1. k \in LegacyKits
      BY InstallerAssumption DEF MInit, Init
    <3> QED BY <2>1, <3>1, BaseArchivesType
  <2> QED BY <2>1, <2>2 DEF RecordInv, ExtractionUnrecords, ManifestsAreTrue, RelocatedKits,
      Found
<1>2. AllInv /\ RecordInv /\ [MNext]_mvars => RecordInv'
  BY UnrecordsStep, ManifestsStep, BasesStep, RelocatedKitsStep DEF RecordInv
<1>3. Spec => []DInv
  BY DInvHolds
<1> QED BY <1>1, <1>2, <1>3, LinkInvHolds, ImplementsInstaller, PTL DEF MSpec, AllInv

\* Every package that an installation reports as installed or as satisfied is
\* extracted at the planned release and relocated, for any processes, kits,
\* requests and releases and wherever earlier ones failed or died, unless the
\* package was extracted behind the back of its kit's manifest.
THEOREM SuccessIsComplete == MSpec => []CompleteIfRecorded
<1>1. AllInv /\ RecordInv => CompleteIfRecorded
  <2> SUFFICES ASSUME AllInv, RecordInv, NEW p \in Procs, Succeeded(p),
                      NEW x \in AllItems(plan[p]),
                      <<KitAt(p, x[1]), ArchiveAt(p, x), SelectionAt(p, x).version>>
                        \notin unrecorded
               PROVE  Extracted1(p, x) /\ Relocated1(p, x)
    BY DEF CompleteIfRecorded
  <2> DEFINE k == KitAt(p, x[1])
             s == SelectionAt(p, x)
  <2>t. TypeOK /\ SInv /\ Satisfied
    BY AllInvFacts DEF DInv
  <2>1. plan[p] \in PlanTypes
    BY <2>t DEF TypeOK
  <2>2. /\ x[1] \in 1..Len(plan[p].kits) /\ x[2] \in 1..Len(plan[p].select[k])
        /\ k \in Kits /\ x[3] \in DOMAIN ArchivesOf[s.name]
    BY <2>1, ItemType, Zenon DEF KitAt, SelectionAt
  <2>3. plan[p].kits \in Seq(Kits) /\ plan[p].select[k] \in Seq(Selections)
    BY <2>1, <2>2 DEF PlanTypes
  <2>4. x[1] \in DOMAIN plan[p].kits /\ x[2] \in DOMAIN plan[p].select[k]
    BY <2>2, <2>3, LenProperties
  <2>5. Lists1(PackagesOf(k), s)
    BY <2>t, <2>2, <2>4 DEF Satisfied, Succeeded, Lists, SelectionAt
  <2>6. Found(k) /\ s.name \in DOMAIN manifest[k] /\ manifest[k][s.name] = RecordOf(s)
    BY <2>5 DEF Lists1, PackagesOf, Found, NoPackages
  <2>7. ArchiveAt(p, x) \in ArchiveSet(s.name)
    BY <2>2 DEF ArchiveAt, ArchiveSet
  <2>8. manifest[k][s.name].version = s.version
    BY <2>6 DEF RecordOf
  <2> QED BY <2>2, <2>6, <2>7, <2>8 DEF RecordInv, ManifestsAreTrue, Extracted1, Relocated1
<1> QED BY <1>1, RecordInvHolds, PTL
=============================================================================
