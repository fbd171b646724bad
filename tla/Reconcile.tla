----------------------------- MODULE Reconcile -----------------------------
(***************************************************************************)
(* What ReconcileInstallation decides for one kit: the action for every    *)
(* selected package and the manifest the installation will commit.         *)
(* (internal/qtinstall/installation_state.go)                              *)
(*                                                                         *)
(* A selection is a record [name, module, version]; module is Base for the *)
(* base package of a kit (selection.Module == "").  The packages of a      *)
(* manifest are a function from package names to [version, module].  The   *)
(* archive list of a record is left out: it is a function of the package   *)
(* name and its version.                                                   *)
(***************************************************************************)
EXTENDS Naturals, Sequences, SequencesExt

CONSTANTS
  Names,     \* repository package names
  Modules,   \* Qt modules, Base included
  Base,      \* the module of a base package: the empty string of the code
  Releases   \* repository versions of packages

ASSUME BaseAssumption == Base \in Modules

Selections == [name : Names, module : Modules, version : Releases]

PackageRecords == [version : Releases, module : Modules]

\* What a manifest can record: a map from some of the names to records.
Packages == UNION {[N -> PackageRecords] : N \in SUBSET Names}

NoPackages == [n \in {} |-> n]

RecordOf(s) == [version |-> s.version, module |-> s.module]

\* A kit's request that names a package more than once is rejected.
SelectsTwice(sels) ==
  \E i, j \in DOMAIN sels : i # j /\ sels[i].name = sels[j].name

-----------------------------------------------------------------------------

(***************************************************************************)
(* replacePackageRecord: the record of the selection replaces the one of   *)
(* its name, and drops every other record of the same module; for a base   *)
(* package that is every other base package.                               *)
(***************************************************************************)
ReplaceRecord(packages, s) ==
  LET kept == {n \in DOMAIN packages : packages[n].module # s.module}
  IN  [n \in kept \cup {s.name} |->
         IF n = s.name THEN RecordOf(s) ELSE packages[n]]

(***************************************************************************)
(* The loop of reconcileKit over the selections, which updates the         *)
(* manifest it reads from while it walks them.                             *)
(***************************************************************************)
RecordLoop(packages, sels) == FoldLeft(ReplaceRecord, packages, sels)

(***************************************************************************)
(* The same loop without the recursion: a selection's record survives      *)
(* unless a later selection has its module or its name, an old record      *)
(* unless any selection has.                                               *)
(***************************************************************************)
\* Mutated form: the first selection of a module wins, not the last.
RecordedFirst(packages, sels) ==
  LET kept  == {n \in DOMAIN packages : \A i \in DOMAIN sels :
                  sels[i].name # n /\ sels[i].module # packages[n].module}
      added == {i \in DOMAIN sels : \A j \in DOMAIN sels : j < i =>
                  sels[j].module # sels[i].module /\ sels[j].name # sels[i].name}
  IN  [n \in kept \cup {sels[i].name : i \in added} |->
         IF n \in kept THEN packages[n]
         ELSE RecordOf(sels[CHOOSE i \in added : sels[i].name = n])]

\* Mutated form: the record of a module's earlier package name stays.
RecordedBeside(packages, sels) ==
  [n \in DOMAIN packages \cup {sels[i].name : i \in DOMAIN sels} |->
     IF \E i \in DOMAIN sels : sels[i].name = n
     THEN RecordOf(sels[CHOOSE i \in DOMAIN sels : sels[i].name = n])
     ELSE packages[n]]

\* Mutated form: a record of the selected name keeps its old version.
RecordedKeepsVersion(packages, sels) ==
  [n \in DOMAIN packages \cup {sels[i].name : i \in DOMAIN sels} |->
     IF n \in DOMAIN packages THEN packages[n]
     ELSE RecordOf(sels[CHOOSE i \in DOMAIN sels : sels[i].name = n])]

Recorded(packages, sels) ==
  LET kept  == {n \in DOMAIN packages : \A i \in DOMAIN sels :
                  sels[i].name # n /\ sels[i].module # packages[n].module}
      added == {i \in DOMAIN sels : \A j \in DOMAIN sels : j > i =>
                  sels[j].module # sels[i].module /\ sels[j].name # sels[i].name}
  IN  [n \in kept \cup {sels[i].name : i \in added} |->
         IF n \in kept THEN packages[n]
         ELSE RecordOf(sels[CHOOSE i \in added : sels[i].name = n])]

-----------------------------------------------------------------------------

(***************************************************************************)
(* The action for the i-th selection of a kit.  "found" says that the kit  *)
(* has a manifest, "existing" that it has a manifest or a directory.       *)
(***************************************************************************)
\* Mutated form: an existing kit without a manifest adopts its modules too.
AdoptModules(found, existing, packages, sels, i) ==
  LET s      == sels[i]
      before == Recorded(packages, SubSeq(sels, 1, i - 1))
  IN  IF ~found /\ existing THEN "adopt"
      ELSE IF s.name \notin DOMAIN before THEN "install"
      ELSE IF before[s.name] = RecordOf(s) THEN "skip" ELSE "update"

\* Mutated form: a recorded package is skipped whatever its version.
SkipAnyVersion(found, existing, packages, sels, i) ==
  LET s      == sels[i]
      before == Recorded(packages, SubSeq(sels, 1, i - 1))
  IN  IF ~found /\ existing /\ s.module = Base THEN "adopt"
      ELSE IF s.name \notin DOMAIN before THEN "install" ELSE "skip"

PackageAction(found, existing, packages, sels, i) ==
  LET s      == sels[i]
      before == Recorded(packages, SubSeq(sels, 1, i - 1))
  IN  IF ~found /\ existing /\ s.module = Base THEN "adopt"
      ELSE IF s.name \notin DOMAIN before THEN "install"
      ELSE IF before[s.name] = RecordOf(s) THEN "skip" ELSE "update"
=============================================================================
