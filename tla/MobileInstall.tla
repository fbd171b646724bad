--------------------------- MODULE MobileInstall ---------------------------
(***************************************************************************)
(* Installer composed with the discovery of the desktop Qt whose tools a   *)
(* mobile kit runs (internal/qtinstall/host_qt_discovery.go and            *)
(* mobile_relocator.go).                                                   *)
(*                                                                         *)
(* A mobile kit has wrappers instead of tools; wrappers[k] is the set of   *)
(* places whose tools they name: Build, or desktop Qt directories of the   *)
(* version.  A process discovers its host after it reconciled and before   *)
(* it validates the existing kits, under the version lock, also when its   *)
(* request turns out to be satisfied.  Users and other tools put desktop   *)
(* Qts into the version directory and take them away at any time.          *)
(***************************************************************************)
EXTENDS Installer, FiniteSets

CONSTANTS
  Others,  \* directories of the version that yaqt does not write
  Shape,   \* what each directory looks like when it is complete
  Build,   \* the place that wrappers name as they come from the archives
  NoHost   \* host of a process that has not discovered one

Shapes == [marker : BOOLEAN,                         \* mkspecs/qdevice.pri
           tools  : {"native", "foreign", "wrapper"}, \* bin/qmake6, qtpaths6
           version : {"requested", "other"}]         \* mkspecs/qconfig.pri

ASSUME MobileAssumption ==
  /\ Kits \cap Others = {}
  /\ Shape \in [Kits \cup Others -> Shapes]
  /\ Build \notin Kits \cup Others /\ NoHost \notin Kits \cup Others
  /\ {"reconcile", "relocate"} \subseteq FaultPhases
  /\ \A r \in Requests : \A i, j \in 1..Len(r.kits) :  \* all kits are of one target
       Shape[r.kits[i]].marker = Shape[r.kits[j]].marker

\* The archives of a package.
ArchiveSet(n) == {ArchivesOf[n][a] : a \in DOMAIN ArchivesOf[n]}

\* The files that Relocator.Validate looks at come with the base package of a
\* kit, of which there is one (basePackageName): reconcileKit takes a kit that
\* has them for one that has the base package.
ASSUME KeyFilesAssumption ==
  /\ KeyArchives # {}
  /\ \A r, s \in Requests, k \in Kits :
       \A i \in DOMAIN r.select[k], j \in DOMAIN s.select[k] :
         /\ r.select[k][i].module # Base => ArchiveSet(r.select[k][i].name) \cap KeyArchives = {}
         /\ r.select[k][i].module = Base /\ s.select[k][j].module = Base =>
              ArchiveSet(r.select[k][i].name) = ArchiveSet(s.select[k][j].name)

VARIABLES
  host,       \* host[p]: the desktop Qt that p discovered
  wrappers,   \* wrappers[k]: places whose tools the wrappers of kit k name
  others,     \* the directories of Others that are there
  unrecorded, \* <<k, a, v>>: no manifest was published since a package of kit k
              \* with archive a was extracted over, which may not be release v now
  unlinked    \* kits whose wrappers were extracted since their last manifest

mvars == <<vars, host, wrappers, others, unrecorded, unlinked>>

-----------------------------------------------------------------------------
(* What a directory and a plan say.                                        *)

\* validateHostQtDirectory of a complete directory.
IsHost(s) == ~s.marker /\ s.tools = "native" /\ s.version = "requested"

HostDirs == {d \in Kits \cup Others : IsHost(Shape[d])}

MobileKits == {k \in Kits : Shape[k].marker}

IsMobile(q) == \E i \in 1..Len(q.kits) : q.kits[i] \in MobileKits

\* Directories that validate, and those that may: the files that are looked at
\* are in the key archives, of which a torn one may have brought them already.
CertainHosts ==
  {d \in HostDirs : IF d \in Kits THEN ~MayInvalidate(d) ELSE d \in others}
PossibleHosts ==
  {d \in HostDirs : IF d \in Kits THEN MayValidate(d) ELSE d \in others}

\* The candidates of findHostQtDirectory, and those among which it can decide.
Candidates == {C \in SUBSET PossibleHosts : CertainHosts \subseteq C}
Decided    == {d \in HostDirs : {d} \in Candidates}

\* rewriteQtToolScript: every wrapper names the build machine, or the host already.
Accepts(k, d) == wrappers[k] # {} /\ wrappers[k] \subseteq {Build, d}

ExistingKits(q) == {k \in Kits : Existing(k) /\ \E i \in 1..Len(q.kits) : q.kits[i] = k}

\* Hosts to which every existing kit of the request can be linked.
Linkable(q) == {d \in Decided : \A k \in ExistingKits(q) : Accepts(k, d)}

\* The discovery, or the validation of a kit with the host it found, may fail.
MayBeRejected(q) ==
  \/ \E C \in Candidates : Cardinality(C) # 1
  \/ Decided # Linkable(q)

(* What the extractions of a process leave in a kit.                       *)

\* What kit k holds when p has extracted all it has for it.
HeldBy(p, k) ==
  {<<k, ArchiveAt(p, x), SelectionAt(p, x).version>> :
     x \in {x \in pending[p] : KitAt(p, x[1]) = k}}

\* An installation stops, and kits without a manifest hold all of it: the next
\* one, which takes such a kit for a complete one of its release, may be right.
Whole(p) ==
  UNION {HeldBy(p, k) : k \in
    {k \in Kits : /\ ~Found(k) /\ plan[p].mode = "install"
                  /\ pc[p] \in {"extract", "extracting", "relocate", "commit"}
                  /\ \A x \in todo[p] : KitAt(p, x[1]) # k}}

-----------------------------------------------------------------------------

MInit ==
  /\ Init
  /\ host = [p \in Procs |-> NoHost]
  /\ \E d \in HostDirs :
       wrappers = [k \in Kits |-> IF k \in MobileKits \cap LegacyKits THEN {d} ELSE {}]
  /\ others \in SUBSET Others
  /\ unrecorded = LegacyKits \X Archives \X Releases
  /\ unlinked = {}

\* The steps that neither read nor change what this module adds.
Unlinked(p) ==
  /\ \/ Acquire(p) \/ SelectAll(p) \/ Fetch(p) \/ Fetched(p) \/ Extracted(p)
     \/ Relocated(p) \/ Committed(p) \/ Release(p)
  /\ UNCHANGED <<host, wrappers, others, unrecorded, unlinked>>

\* The relocator is made between the reconciliation and the validation.
MReconcile(p) ==
  /\ Reconcile(p)
  /\ IF IsMobile(plan[p])
     THEN \E d \in Linkable(plan[p]) : host' = [host EXCEPT ![p] = d]
     ELSE UNCHANGED host
  /\ UNCHANGED <<wrappers, others, unrecorded, unlinked>>

MReject(p) ==
  /\ \/ Reject(p)
     \/ /\ pc[p] = "reconcile"
        /\ plan[p].mode = "install" /\ IsMobile(plan[p]) /\ MayBeRejected(plan[p])
        /\ Fail(p)
  /\ UNCHANGED <<host, wrappers, others, unrecorded, unlinked>>

\* The wrappers are in a key archive: some, all or none are replaced by the
\* archive's when the extraction stops.
MBeginExtract(p) ==
  /\ BeginExtract(p)
  /\ \E x \in todo[p] :
       /\ FirstItem(x, todo[p])
       /\ IF KitAt(p, x[1]) \in MobileKits /\ ArchiveAt(p, x) \in KeyArchives
          THEN \E W \in {wrappers[KitAt(p, x[1])], {Build},
                         wrappers[KitAt(p, x[1])] \cup {Build}} :
                 wrappers' = [wrappers EXCEPT ![KitAt(p, x[1])] = W]
          ELSE UNCHANGED wrappers
       /\ unrecorded' = unrecorded \cup
            {KitAt(p, x[1])} \X ArchiveSet(SelectionAt(p, x).name) \X Releases
       /\ unlinked' = IF ArchiveAt(p, x) \in KeyArchives
                      THEN unlinked \cup {KitAt(p, x[1])} ELSE unlinked
  /\ UNCHANGED <<host, others>>

MEndExtract(p) ==
  /\ EndExtract(p)
  /\ \E x \in todo[p] :
       /\ FirstItem(x, todo[p])
       /\ wrappers' = IF KitAt(p, x[1]) \in MobileKits /\ ArchiveAt(p, x) \in KeyArchives
                      THEN [wrappers EXCEPT ![KitAt(p, x[1])] = {Build}] ELSE wrappers
  /\ UNCHANGED <<host, others, unrecorded, unlinked>>

\* Mutated form: a kit that runs another host's tools is left as it is.
MRelocateKeepingLinks(p) ==
  /\ Relocate(p)
  /\ \E i \in kitsLeft[p] :
       /\ FirstKit(i, kitsLeft[p])
       /\ LET k == KitAt(p, i)
          IN  wrappers' = IF k \in MobileKits /\ wrappers[k] = {Build}
                          THEN [wrappers EXCEPT ![k] = {host[p]}] ELSE wrappers
  /\ UNCHANGED <<host, others, unrecorded, unlinked>>

MRelocate(p) ==
  /\ Relocate(p)
  /\ \E i \in kitsLeft[p] :
       /\ FirstKit(i, kitsLeft[p])
       /\ LET k == KitAt(p, i)
          IN  IF k \in MobileKits
              THEN /\ Accepts(k, host[p])
                   /\ wrappers' = [wrappers EXCEPT ![k] = {host[p]}]
              ELSE UNCHANGED wrappers
  /\ UNCHANGED <<host, others, unrecorded, unlinked>>

\* Wrappers are replaced one at a time, when all of them can be.
MRelocateFails(p) ==
  /\ RelocateFails(p)
  /\ \E i \in kitsLeft[p] :
       /\ FirstKit(i, kitsLeft[p])
       /\ LET k == KitAt(p, i)
          IN  IF k \in MobileKits /\ Accepts(k, host[p])
              THEN \E W \in {wrappers[k], wrappers[k] \cup {host[p]}, {host[p]}} :
                     wrappers' = [wrappers EXCEPT ![k] = W]
              ELSE UNCHANGED wrappers
  /\ unrecorded' = unrecorded \ Whole(p)
  /\ UNCHANGED <<host, others, unlinked>>

\* The manifest of the kit speaks of what p extracted and linked.
MCommit(p) ==
  /\ Commit(p)
  /\ \E i \in kitsLeft[p] :
       /\ FirstKit(i, kitsLeft[p])
       /\ unrecorded' = unrecorded \ HeldBy(p, KitAt(p, i))
       /\ unlinked' = unlinked \ {KitAt(p, i)}
  /\ UNCHANGED <<host, wrappers, others>>

MStart(p) == Start(p) /\ UNCHANGED <<host, wrappers, others, unrecorded, unlinked>>

MStop(p) ==
  /\ Fail(p) \/ Crash(p)
  /\ unrecorded' = unrecorded \ Whole(p)
  /\ UNCHANGED <<host, wrappers, others, unlinked>>

\* A user or another tool installs or removes a Qt beside the kits.
PutOther(d) ==
  /\ d \notin others
  /\ others' = others \cup {d}
  /\ UNCHANGED <<vars, host, wrappers, unrecorded, unlinked>>

TakeOther(d) ==
  /\ d \in others
  /\ others' = others \ {d}
  /\ UNCHANGED <<vars, host, wrappers, unrecorded, unlinked>>

-----------------------------------------------------------------------------

MStep(p) ==
  \/ Unlinked(p) \/ MReconcile(p) \/ MReject(p)
  \/ MBeginExtract(p) \/ MEndExtract(p)
  \/ MRelocate(p) \/ MRelocateFails(p) \/ MCommit(p)

MDone == (\A p \in Procs : pc[p] \in {"idle", "done"}) /\ UNCHANGED mvars

MNext ==
  \/ \E p \in Procs : MStart(p) \/ MStep(p) \/ MStop(p)
  \/ \E d \in Others : PutOther(d) \/ TakeOther(d)
  \/ MDone

MSpec == MInit /\ [][MNext]_mvars

-----------------------------------------------------------------------------
(* Type invariant.                                                         *)

\* The variables that this module adds have their types.
MTypeOK ==
  /\ host \in [Procs -> HostDirs \cup {NoHost}]
  /\ wrappers \in [Kits -> SUBSET (HostDirs \cup {Build})]
  /\ others \subseteq Others
  /\ unrecorded \subseteq Kits \X Archives \X Releases
  /\ unlinked \subseteq Kits

-----------------------------------------------------------------------------
(* Properties.                                                             *)

Succeeded(p) == pc[p] = "release" /\ result[p] \in {"installed", "satisfied"}

KitsOf(q) == {q.kits[i] : i \in 1..Len(q.kits)}

\* When a mobile installation reports success, all wrappers of each of its kits
\* run the tools of the one desktop Qt that this installation discovered
\* (README.md:137, "exactly one desktop Qt installation"), although the desktop
\* Qts of the version came and went and earlier installations were cut short,
\* unless its wrappers were extracted behind the back of the kit's manifest: by
\* an update that never got to publish one, or by an extraction-only request.
LinkedToTheHost ==
  \A p \in Procs : Succeeded(p) =>
    \A k \in (KitsOf(plan[p]) \cap MobileKits) \ unlinked : wrappers[k] = {host[p]}

\* The desktop kit that a mobile installation discovered is not extracted into
\* or relocated by anybody until that installation has ended: discovery is under
\* the version lock, which is shared by all kits of the version.
HostUnchangedWhileUsed ==
  [][\A p \in Procs :
       /\ pc[p] \in {"fetch", "extract", "extracting", "relocate", "commit"}
       /\ plan[p].mode = "install" /\ IsMobile(plan[p]) /\ host[p] \in Kits
       => /\ files'[host[p]] = files[host[p]]
          /\ relocated'[host[p]] = relocated[host[p]]]_mvars

\* When an installation reports success, every selected package is extracted at
\* the planned release and relocated, wherever earlier ones failed or died,
\* unless the package was extracted behind the back of the kit's manifest and
\* this installation relied on that manifest, or on there being none: after an
\* extraction into a kit without one that was cut short or was of another
\* release (installer_partial_base), an update that was cut short, or an
\* extraction-only request (installer_extract_over).  No other way leads there.
CompleteIfRecorded ==
  \A p \in Procs : Succeeded(p) =>
    \A x \in AllItems(plan[p]) :
      <<KitAt(p, x[1]), ArchiveAt(p, x), SelectionAt(p, x).version>> \notin unrecorded
        => Extracted1(p, x) /\ Relocated1(p, x)
=============================================================================
