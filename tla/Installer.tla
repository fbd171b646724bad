----------------------------- MODULE Installer -----------------------------
(***************************************************************************)
(* Installer.Materialize (internal/qtinstall/installer.go) run by several  *)
(* yaqt processes on the kits of one Qt version: the version lock, the     *)
(* reconciliation with the kit manifests, and the phases fetch, extract,   *)
(* relocate and commit, any of which may fail or be killed.                *)
(*                                                                         *)
(* A kit's files are kept per archive: Absent, Torn (an extraction began   *)
(* and has not finished), or the release whose contents were extracted     *)
(* last.  relocated[k] holds the archives of kit k whose files carry the   *)
(* paths of this installation instead of those of Qt's build machine.      *)
(***************************************************************************)
EXTENDS Reconcile

CONSTANTS
  Procs,        \* yaqt invocations, each of which makes one request
  Nobody,       \* owner of a free version lock
  Kits,         \* kit directories below <root>/<version>
  NoManifest,   \* a kit without .yaqt/manifest.json
  Archives,     \* archives of the repository, by logical name
  ArchivesOf,   \* the archives of each package, in metadata order
  KeyArchives,  \* archives with the files Relocator.Validate looks at
  Absent, Torn, \* contents of an archive's files besides a release
  Requests,     \* what users ask for: [mode, kits, select]
  LegacyKits,   \* kits that an older installer left without a manifest
  FaultPhases   \* phases in which a process may fail or be killed

Modes  == {"install", "download-only", "extract-only"}
Phases == {"idle", "waiting", "reconcile", "fetch", "extract", "extracting",
           "relocate", "commit", "release", "done"}
Results == {"none", "failed", "satisfied", "installed", "downloaded", "extracted"}

Contents == Releases \cup {Absent, Torn}

\* One archive to fetch and extract: its kit, package and archive indexes.
Items == Nat \X Nat \X Nat

PlanTypes == [mode : Modes, kits : Seq(Kits), select : [Kits -> Seq(Selections)]]

\* What ResolveInstall selects for a kit: its base package, and one package for
\* each of the modules asked for, which are listed once.
OnePackagePerModule(sels) ==
  /\ \E i \in DOMAIN sels : sels[i].module = Base
  /\ \A i, j \in DOMAIN sels : sels[i].module = sels[j].module => sels[i].name = sels[j].name

ASSUME InstallerAssumption ==
  /\ Nobody \notin Procs
  /\ NoManifest \notin Packages
  /\ {Absent, Torn} \cap Releases = {} /\ Absent # Torn
  /\ ArchivesOf \in [Names -> Seq(Archives)]
  /\ KeyArchives \subseteq Archives
  /\ LegacyKits \subseteq Kits
  /\ FaultPhases \subseteq Phases
  /\ \A r \in Requests :
       /\ r.mode \in Modes
       /\ r.kits \in Seq(Kits)
       /\ r.select \in [Kits -> Seq([name : Names, module : Modules])]
       /\ \A i \in 1..Len(r.kits) : OnePackagePerModule(r.select[r.kits[i]])

VARIABLES
  manifest,   \* manifest[k]: the packages recorded for kit k, or NoManifest
  files,      \* files[k][a]: what the kit holds of archive a
  relocated,  \* relocated[k]: the archives whose files were relocated
  lock,       \* owner of <root>/<version>/.yaqt/install.lock
  pc,         \* phase of each process
  plan,       \* plan[p]: the resolved request: [mode, kits, select]
  records,    \* records[p][k]: the packages that p will commit for k
  changed,    \* changed[p]: indexes of the kits with a change
  pending,    \* pending[p]: the archives that p extracts
  todo,       \* todo[p]: those not yet handled in the current phase
  kitsLeft,   \* kitsLeft[p]: changed kits not yet handled in the phase
  result      \* result[p]: what the process reports

disk  == <<manifest, files, relocated>>
local == <<plan, records, changed, pending>>
vars  == <<disk, lock, pc, local, todo, kitsLeft, result>>

-----------------------------------------------------------------------------

NoPlan == [mode |-> "install", kits |-> <<>>, select |-> [k \in Kits |-> <<>>]]

\* Contents of a kit as installed by a tool that keeps no manifest: every
\* archive with a key file, relocated, and nothing else.
LegacyFiles(v) == [a \in Archives |-> IF a \in KeyArchives THEN v ELSE Absent]

Init ==
  /\ manifest = [k \in Kits |-> NoManifest]
  /\ \E v \in Releases :
       files = [k \in Kits |-> IF k \in LegacyKits THEN LegacyFiles(v)
                               ELSE [a \in Archives |-> Absent]]
  /\ relocated = [k \in Kits |-> IF k \in LegacyKits THEN KeyArchives ELSE {}]
  /\ lock = Nobody
  /\ pc = [p \in Procs |-> "idle"]
  /\ plan = [p \in Procs |-> NoPlan]
  /\ records = [p \in Procs |-> [k \in Kits |-> NoPackages]]
  /\ changed = [p \in Procs |-> {}]
  /\ pending = [p \in Procs |-> {}]
  /\ todo = [p \in Procs |-> {}]
  /\ kitsLeft = [p \in Procs |-> {}]
  /\ result = [p \in Procs |-> "none"]

-----------------------------------------------------------------------------
(* What a plan says.                                                       *)

\* The request as ResolveInstall plans it when the metadata it reads offers
\* packages at release v.  Metadata may be up to 15 minutes old or come from a
\* mirror, so v is any release.
Resolved(r, v) ==
  [mode   |-> r.mode,
   kits   |-> r.kits,
   select |-> [k \in Kits |-> [i \in 1..Len(r.select[k]) |->
                [name    |-> r.select[k][i].name,
                 module  |-> r.select[k][i].module,
                 version |-> v]]]]

KitAt(p, i)       == plan[p].kits[i]
SelectionAt(p, x) == plan[p].select[KitAt(p, x[1])][x[2]]
ArchiveAt(p, x)   == ArchivesOf[SelectionAt(p, x).name][x[3]]

\* The archives of the selections of q that satisfy Test.
ItemsOf(q, Test(_, _)) ==
  UNION {UNION {{<<i, j, a>> : a \in 1..Len(ArchivesOf[q.select[q.kits[i]][j].name])} :
                  j \in {j \in 1..Len(q.select[q.kits[i]]) : Test(i, j)}} :
           i \in 1..Len(q.kits)}

AllItems(q) == ItemsOf(q, LAMBDA i, j : TRUE)

\* x is the first of the items left, in the order in which the plan lists them.
Precedes(x, y) ==
  \/ x[1] < y[1]
  \/ x[1] = y[1] /\ x[2] < y[2]
  \/ x[1] = y[1] /\ x[2] = y[2] /\ x[3] <= y[3]

FirstItem(x, S) == x \in S /\ \A y \in S : Precedes(x, y)
FirstKit(i, S)  == i \in S /\ \A j \in S : i <= j

(* What a kit directory shows.                                             *)

PackagesOf(k) == IF manifest[k] = NoManifest THEN NoPackages ELSE manifest[k]
Found(k)      == manifest[k] # NoManifest
Present(k)    == {a \in Archives : files[k][a] # Absent}
Existing(k)   == Found(k) \/ Present(k) # {}

\* Relocator.Validate checks that a few files exist.  They do when the archives
\* that carry them were extracted, they do not when one is absent, and a torn
\* archive may or may not hold them already.
MayValidate(k)   == KeyArchives \subseteq Present(k)
MayInvalidate(k) == \E a \in KeyArchives : files[k][a] \notin Releases

ActionIn(q, k, j) ==
  PackageAction(Found(k), Existing(k), PackagesOf(k), q.select[k], j)

\* pendingPackages of every kit, and the kits with hasChanges.
PendingItems(q) ==
  ItemsOf(q, LAMBDA i, j : ActionIn(q, q.kits[i], j) \in {"install", "update"})

\* Mutated form: a kit that only adopts its base counts as unchanged.
ChangedByArchives(q) ==
  {i \in 1..Len(q.kits) : \E j \in 1..Len(q.select[q.kits[i]]) :
     ActionIn(q, q.kits[i], j) \in {"install", "update"}}

ChangedKits(q) ==
  {i \in 1..Len(q.kits) :
     \E j \in 1..Len(q.select[q.kits[i]]) : ActionIn(q, q.kits[i], j) # "skip"}

-----------------------------------------------------------------------------
(* Steps of one process.                                                   *)

Goto(p, from, to) == pc[p] = from /\ pc' = [pc EXCEPT ![p] = to]

\* The process resolves its request, then queues for the version lock;
\* a download only fetches archives and takes no lock.
Start(p) ==
  \E r \in Requests, v \in Releases :
    /\ plan' = [plan EXCEPT ![p] = Resolved(r, v)]
    /\ IF r.mode = "download-only"
       THEN /\ Goto(p, "idle", "fetch")
            /\ todo' = [todo EXCEPT ![p] = AllItems(Resolved(r, v))]
       ELSE /\ Goto(p, "idle", "waiting")
            /\ UNCHANGED todo
    /\ UNCHANGED <<disk, lock, records, changed, pending, kitsLeft, result>>

\* Mutated form: the process does not wait for the owner of the lock.
AcquireAnyway(p) ==
  /\ Goto(p, "waiting", "reconcile")
  /\ lock' = p
  /\ UNCHANGED <<disk, local, todo, kitsLeft, result>>

\* acquireVersionLock.
Acquire(p) ==
  /\ Goto(p, "waiting", "reconcile")
  /\ lock = Nobody
  /\ lock' = p
  /\ UNCHANGED <<disk, local, todo, kitsLeft, result>>

Rejected(q) ==
  \E i \in 1..Len(q.kits) :
    \/ SelectsTwice(q.select[q.kits[i]])
    \/ Existing(q.kits[i]) /\ MayInvalidate(q.kits[i])

\* ReconcileInstallation, the validation of every existing kit, and the early
\* return of a satisfied request.
Reconcile(p) ==
  LET q    == plan[p]
      kits == {q.kits[i] : i \in 1..Len(q.kits)}
      work == PendingItems(q)
      new  == ChangedKits(q)
  IN  /\ pc[p] = "reconcile"
      /\ q.mode = "install"
      /\ \A k \in kits : ~SelectsTwice(q.select[k]) /\ (Existing(k) => MayValidate(k))
      /\ records' = [records EXCEPT ![p] =
                       [k \in Kits |-> Recorded(PackagesOf(k), q.select[k])]]
      /\ changed' = [changed EXCEPT ![p] = new]
      /\ IF new = {}
         THEN /\ Goto(p, "reconcile", "release")
              /\ result' = [result EXCEPT ![p] = "satisfied"]
              /\ UNCHANGED <<pending, todo>>
         ELSE /\ Goto(p, "reconcile", "fetch")
              /\ pending' = [pending EXCEPT ![p] = work]
              /\ todo' = [todo EXCEPT ![p] = work]
              /\ UNCHANGED result
      /\ UNCHANGED <<disk, lock, plan, kitsLeft>>

\* Duplicate names, or an existing kit that does not validate.
Reject(p) ==
  /\ plan[p].mode = "install" /\ Rejected(plan[p])
  /\ Goto(p, "reconcile", "release")
  /\ result' = [result EXCEPT ![p] = "failed"]
  /\ UNCHANGED <<disk, lock, local, todo, kitsLeft>>

\* An extraction-only request takes every package and looks at no manifest.
SelectAll(p) ==
  /\ plan[p].mode = "extract-only"
  /\ Goto(p, "reconcile", "fetch")
  /\ pending' = [pending EXCEPT ![p] = AllItems(plan[p])]
  /\ todo' = [todo EXCEPT ![p] = AllItems(plan[p])]
  /\ UNCHANGED <<disk, lock, plan, records, changed, kitsLeft, result>>

\* ArchiveFetcher.Fetch of one archive.
Fetch(p) ==
  /\ pc[p] = "fetch"
  /\ \E x \in todo[p] : FirstItem(x, todo[p]) /\ todo' = [todo EXCEPT ![p] = @ \ {x}]
  /\ UNCHANGED <<disk, lock, pc, local, kitsLeft, result>>

\* Every archive is in the cache: the end of a download, or extraction begins.
Fetched(p) ==
  /\ todo[p] = {}
  /\ IF plan[p].mode = "download-only"
     THEN /\ Goto(p, "fetch", "done")
          /\ result' = [result EXCEPT ![p] = "downloaded"]
          /\ UNCHANGED todo
     ELSE /\ Goto(p, "fetch", "extract")
          /\ todo' = [todo EXCEPT ![p] = pending[p]]
          /\ UNCHANGED result
  /\ UNCHANGED <<disk, lock, local, kitsLeft>>

\* ArchiveExtractor.Extract passes its preflight and starts to write files.
BeginExtract(p) ==
  /\ \E x \in todo[p] :
       LET k == KitAt(p, x[1])
           a == ArchiveAt(p, x)
       IN  /\ FirstItem(x, todo[p])
           /\ files' = [files EXCEPT ![k][a] = Torn]
           /\ relocated' = [relocated EXCEPT ![k] = @ \ {a}]
  /\ Goto(p, "extract", "extracting")
  /\ UNCHANGED <<manifest, lock, local, todo, kitsLeft, result>>

EndExtract(p) ==
  /\ \E x \in todo[p] :
       /\ FirstItem(x, todo[p])
       /\ files' = [files EXCEPT ![KitAt(p, x[1])][ArchiveAt(p, x)] =
                                   SelectionAt(p, x).version]
       /\ todo' = [todo EXCEPT ![p] = @ \ {x}]
  /\ Goto(p, "extracting", "extract")
  /\ UNCHANGED <<manifest, relocated, lock, local, kitsLeft, result>>

\* Every archive is extracted: the end of an extraction-only request, or
\* relocation of the changed kits begins.
Extracted(p) ==
  /\ todo[p] = {}
  /\ IF plan[p].mode = "extract-only"
     THEN /\ Goto(p, "extract", "release")
          /\ result' = [result EXCEPT ![p] = "extracted"]
          /\ UNCHANGED kitsLeft
     ELSE /\ Goto(p, "extract", "relocate")
          /\ kitsLeft' = [kitsLeft EXCEPT ![p] = changed[p]]
          /\ UNCHANGED result
  /\ UNCHANGED <<disk, lock, local, todo>>

\* Relocator.Relocate of the next changed kit, which validates it first.
Relocate(p) ==
  /\ pc[p] = "relocate"
  /\ \E i \in kitsLeft[p] :
       LET k == KitAt(p, i)
       IN  /\ FirstKit(i, kitsLeft[p])
           /\ MayValidate(k)
           /\ relocated' = [relocated EXCEPT ![k] = Present(k)]
           /\ kitsLeft' = [kitsLeft EXCEPT ![p] = @ \ {i}]
  /\ UNCHANGED <<manifest, files, lock, pc, local, todo, result>>

\* Relocate returns an error after it rewrote some of the kit's files.
RelocateFails(p) ==
  /\ \E i \in kitsLeft[p] :
       LET k == KitAt(p, i)
       IN  /\ FirstKit(i, kitsLeft[p])
           /\ "relocate" \in FaultPhases \/ MayInvalidate(k)
           /\ \E S \in SUBSET Present(k) :
                relocated' = [relocated EXCEPT ![k] = @ \cup S]
  /\ Goto(p, "relocate", "release")
  /\ result' = [result EXCEPT ![p] = "failed"]
  /\ UNCHANGED <<manifest, files, lock, local, todo, kitsLeft>>

\* Mutated form: the first relocated kit is enough to start committing.
RelocatedOne(p) ==
  /\ kitsLeft[p] # changed[p] \/ kitsLeft[p] = {}
  /\ Goto(p, "relocate", "commit")
  /\ kitsLeft' = [kitsLeft EXCEPT ![p] = changed[p]]
  /\ UNCHANGED <<disk, lock, local, todo, result>>

\* Every changed kit is relocated: manifests are published from here on.
Relocated(p) ==
  /\ kitsLeft[p] = {}
  /\ Goto(p, "relocate", "commit")
  /\ kitsLeft' = [kitsLeft EXCEPT ![p] = changed[p]]
  /\ UNCHANGED <<disk, lock, local, todo, result>>

\* ReconciledKit.commit: the manifest of the next changed kit is renamed into
\* place.
Commit(p) ==
  /\ pc[p] = "commit"
  /\ \E i \in kitsLeft[p] :
       LET k == KitAt(p, i)
       IN  /\ FirstKit(i, kitsLeft[p])
           /\ manifest' = [manifest EXCEPT ![k] = records[p][k]]
           /\ kitsLeft' = [kitsLeft EXCEPT ![p] = @ \ {i}]
  /\ UNCHANGED <<files, relocated, lock, pc, local, todo, result>>

Committed(p) ==
  /\ kitsLeft[p] = {}
  /\ Goto(p, "commit", "release")
  /\ result' = [result EXCEPT ![p] = "installed"]
  /\ UNCHANGED <<disk, lock, local, todo, kitsLeft>>

\* The deferred Release of withVersionLock.
Release(p) ==
  /\ Goto(p, "release", "done")
  /\ lock' = Nobody
  /\ UNCHANGED <<disk, local, todo, kitsLeft, result>>

\* An error or a cancelled context: the call returns, and where the lock is
\* held the deferred Release is still to run.
Fail(p) ==
  /\ pc[p] \in FaultPhases \ {"idle", "release", "done"}
  /\ pc' = [pc EXCEPT ![p] = IF lock = p THEN "release" ELSE "done"]
  /\ result' = [result EXCEPT ![p] = "failed"]
  /\ UNCHANGED <<disk, lock, local, todo, kitsLeft>>

\* Mutated form: the end of any process frees the lock, whoever owns it.
CrashFreesLock(p) ==
  /\ pc[p] \in FaultPhases \ {"idle", "done"}
  /\ pc' = [pc EXCEPT ![p] = "done"]
  /\ result' = [result EXCEPT ![p] = "failed"]
  /\ lock' = Nobody
  /\ UNCHANGED <<disk, local, todo, kitsLeft>>

\* Mutated form: the lock outlives the process that held it.
CrashKeepsLock(p) ==
  /\ pc[p] \in FaultPhases \ {"idle", "done"}
  /\ pc' = [pc EXCEPT ![p] = "done"]
  /\ result' = [result EXCEPT ![p] = "failed"]
  /\ UNCHANGED <<disk, lock, local, todo, kitsLeft>>

\* The process is killed; the operating system drops its lock.
Crash(p) ==
  /\ pc[p] \in FaultPhases \ {"idle", "done"}
  /\ pc' = [pc EXCEPT ![p] = "done"]
  /\ result' = [result EXCEPT ![p] = "failed"]
  /\ lock' = IF lock = p THEN Nobody ELSE lock
  /\ UNCHANGED <<disk, local, todo, kitsLeft>>

-----------------------------------------------------------------------------

Step(p) ==
  \/ Acquire(p) \/ Reconcile(p) \/ Reject(p) \/ SelectAll(p)
  \/ Fetch(p) \/ Fetched(p)
  \/ BeginExtract(p) \/ EndExtract(p) \/ Extracted(p)
  \/ Relocate(p) \/ RelocateFails(p) \/ Relocated(p)
  \/ Commit(p) \/ Committed(p) \/ Release(p)

Done == (\A p \in Procs : pc[p] \in {"idle", "done"}) /\ UNCHANGED vars

Next ==
  \/ \E p \in Procs : Start(p) \/ Step(p) \/ Fail(p) \/ Crash(p)
  \/ Done

Spec == Init /\ [][Next]_vars

\* A process that was started keeps running until it ends; nothing obliges a
\* user to start one, and nothing obliges a fault to happen.
FairSpec == Spec /\ \A p \in Procs : WF_vars(Step(p))

-----------------------------------------------------------------------------
(* Type invariant.                                                         *)

\* Every variable has its type.
TypeOK ==
  /\ manifest \in [Kits -> Packages \cup {NoManifest}]
  /\ files \in [Kits -> [Archives -> Contents]]
  /\ relocated \in [Kits -> SUBSET Archives]
  /\ lock \in Procs \cup {Nobody}
  /\ pc \in [Procs -> Phases]
  /\ plan \in [Procs -> PlanTypes]
  /\ records \in [Procs -> [Kits -> Packages]]
  /\ changed \in [Procs -> SUBSET Nat]
  /\ pending \in [Procs -> SUBSET Items]
  /\ todo \in [Procs -> SUBSET Items]
  /\ kitsLeft \in [Procs -> SUBSET Nat]
  /\ result \in [Procs -> Results]

-----------------------------------------------------------------------------
(* Properties.                                                             *)

\* Archive x of p's plan is extracted at the planned release and relocated.
Extracted1(p, x) == files[KitAt(p, x[1])][ArchiveAt(p, x)] = SelectionAt(p, x).version
Relocated1(p, x) == ArchiveAt(p, x) \in relocated[KitAt(p, x[1])]

\* The archives of package n of kit k hold release v, relocated.
Complete(k, n, v) ==
  \A a \in DOMAIN ArchivesOf[n] :
    files[k][ArchivesOf[n][a]] = v /\ ArchivesOf[n][a] \in relocated[k]

\* Phases in which a process that takes the version lock works under it.
LockedPhases == {"reconcile", "extract", "extracting", "relocate", "commit", "release"}

InsideLock(p) ==
  \/ pc[p] \in LockedPhases
  \/ pc[p] = "fetch" /\ plan[p].mode # "download-only"

\* At most one process of the version is between acquiring and releasing the
\* version lock, and it is the owner of the lock (withVersionLock: the lock
\* serializes changes across all kits of one Qt version).
OneMaterializer == \A p \in Procs : InsideLock(p) <=> lock = p

\* A kit's files and manifests change only by a step of the owner of the
\* version lock, and never by a download-only request: what a process reads
\* when it reconciles stays true until it commits.
Moves(p) == <<pc'[p], todo'[p], kitsLeft'[p]>> # <<pc[p], todo[p], kitsLeft[p]>>
KitsChangeUnderLock ==
  [][disk' # disk =>
       \E p \in Procs : lock = p /\ plan[p].mode # "download-only" /\ Moves(p)]_vars

\* When a manifest of any kit is published, every package that the process
\* installs or updates, in every kit of its request, is extracted at the
\* planned release and relocated (Materialize: "Complete installation state is
\* committed only after successful relocation").
PublishesOnlyCompleteKits ==
  [][manifest' # manifest =>
       \E p \in Procs : lock = p /\ \A x \in pending[p] : Extracted1(p, x) /\ Relocated1(p, x)]_vars

\* A record that enters or changes a manifest describes a complete package;
\* the one exception is the base package adopted by the first manifest of a
\* kit (reconcileKit never adopts a module, nor a base it has a manifest for).
NewRecordsAreComplete ==
  [][\A k \in Kits : manifest'[k] # manifest[k] =>
       \A n \in DOMAIN manifest'[k] :
         LET new == manifest'[k][n]
         IN  \/ n \in DOMAIN PackagesOf(k) /\ PackagesOf(k)[n] = new
             \/ Complete(k, n, new.version)
             \/ ~Found(k) /\ new.module = Base]_vars

\* What the requests may select for a kit.
SelectionsWanted ==
  UNION {UNION {{Resolved(r, v).select[k] : k \in Kits} : v \in Releases} : r \in Requests}

Reg == INSTANCE Registry WITH Wanted <- SelectionsWanted

\* The manifests are those of requests applied one after the other: although
\* each process computes its manifest long before it writes it, no process
\* undoes what another recorded, and modules a request omits stay recorded.
SerialManifests == Reg!Spec

\* A manifest names one base package, and no module twice, whatever the order
\* of requests that name packages by their old and new repository names.
OneRecordPerModule ==
  \A k \in Kits : Found(k) =>
    /\ \A m, n \in DOMAIN manifest[k] :
         manifest[k][m].module = manifest[k][n].module => m = n
    /\ \E n \in DOMAIN manifest[k] : manifest[k][n].module = Base

\* A request that succeeded is satisfied: repeated at once, it would download,
\* extract and relocate nothing.
RepeatIsSatisfied ==
  \A p \in Procs :
    pc[p] = "release" /\ result[p] \in {"installed", "satisfied"} =>
      ChangedKits(plan[p]) = {}

\* When an installation reports success, every selected package is extracted
\* at the planned release and relocated.
SuccessMeansComplete ==
  \A p \in Procs :
    pc[p] = "release" /\ result[p] \in {"installed", "satisfied"} =>
      \A x \in AllItems(plan[p]) : Extracted1(p, x) /\ Relocated1(p, x)

\* A process that waits for the version lock ends, whoever held the lock and
\* however that process ended.
WaitersEnd == \A p \in Procs : pc[p] = "waiting" ~> pc[p] = "done"
=============================================================================
