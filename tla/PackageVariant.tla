--------------------------- MODULE PackageVariant ---------------------------
(***************************************************************************)
(* What one Updates.xml of a repository says of a package variant: the     *)
(* modules it has, the packages that a request selects, where their        *)
(* archives are extracted and which directory becomes the kit.             *)
(* (internal/qtrepo/package_metadata.go, package_variant.go, modules.go,   *)
(* install_plan.go)                                                        *)
(*                                                                         *)
(* A package name is a prefix, which stands for a release or for one of    *)
(* its extension modules, and the parts behind it, which dots separate.    *)
(* An update is [version, archives, extract]: its archives in order, by    *)
(* logical name, and its Extract operations [to, archive].  A path is the  *)
(* sequence of its segments below @TargetDir@, cleaned.                    *)
(***************************************************************************)
EXTENDS QtVersions, FiniteSetsExt, Functions

CONSTANTS
  Identifiers,      \* name parts of letters, digits and underscores only
  VersionDirectory  \* name of the release's directory below @TargetDir@

ASSUME IdentifierAssumption == "" \notin Identifiers

LegacyLayout == Version(6, 8, 0)

Paths == Seq(STRING)

Updates == [version : Nat, archives : Seq(STRING), extract : Seq([archive : STRING, to : Paths])]

\* A document lists updates; of those with one name the last one stays.
PackagesOf(document) ==
  [name \in {document[i].name : i \in DOMAIN document} |->
     document[Max({i \in DOMAIN document : document[i].name = name})].update]

\* A variant: [prefix, architecture, version, fallback].
BaseName(variant) == [prefix |-> variant.prefix, parts |-> <<variant.architecture>>]

ModuleNames(variant, module) ==
  << [prefix |-> variant.prefix, parts |-> <<"addons", module, variant.architecture>>],
     [prefix |-> variant.prefix, parts |-> <<module, variant.architecture>>] >>

-----------------------------------------------------------------------------
(* Where archives are extracted.                                           *)

Escapes(path) == path # <<>> /\ path[1] = ".."

\* An archive that several operations extract goes where the last one says.
ExtractPaths(update) ==
  [a \in {update.extract[i].archive : i \in DOMAIN update.extract} |->
     update.extract[Max({i \in DOMAIN update.extract : update.extract[i].archive = a})].to]

ExtractTo(update, archive) ==
  IF update.extract = <<>> THEN <<>> ELSE ExtractPaths(update)[archive]

\* resolvePackageSelections: the update has archives, none is extracted above
\* @TargetDir@, and each has its operation; only the archives of 6.8.0 may come
\* without operations.
Resolves(update, version) ==
  /\ update.archives # <<>>
  /\ \A i \in DOMAIN update.extract : ~Escapes(update.extract[i].to)
  /\ IF update.extract = <<>> THEN version = LegacyLayout
     ELSE ToSet(update.archives) \subseteq DOMAIN ExtractPaths(update)

\* Mutated form: the directory is that of the first archive.
BaseArchiveFirst(update) == Head(update.archives)

BaseArchive(update) ==
  IF Contains(update.archives, "qtbase") THEN "qtbase" ELSE Head(update.archives)

NoDirectory == "none"

\* packageInstallDirectory: the directory below that of the version in which the
\* base archive lands.
InstallDirectory(update, fallback) ==
  LET path == ExtractTo(update, BaseArchive(update))
  IN  IF path = <<>> THEN fallback
      ELSE IF Len(path) < 2 \/ path[1] # VersionDirectory THEN NoDirectory
      ELSE path[2]

-----------------------------------------------------------------------------
(* Variants, their modules and their packages.                             *)

HasVariant(packages, variant) ==
  /\ BaseName(variant) \in DOMAIN packages
  /\ LET base == packages[BaseName(variant)]
     IN  /\ Resolves(base, variant.version)
         /\ InstallDirectory(base, variant.fallback) # NoDirectory

Named(packages, variant, module) ==
  {i \in 1..2 : ModuleNames(variant, module)[i] \in DOMAIN packages}

HasModule(packages, variant, module) == Named(packages, variant, module) # {}

\* selectModulePackageUpdate: the name with "addons" wins.
ModuleName(packages, variant, module) ==
  ModuleNames(variant, module)[Min(Named(packages, variant, module))]

\* Mutated form: a module is listed whether or not its package resolves.
AvailableModulesByName(packages, variant) ==
  {module \in Identifiers : HasModule(packages, variant, module)}

\* availableModuleNames.
AvailableModules(packages, variant) ==
  {module \in Identifiers :
     /\ HasModule(packages, variant, module)
     /\ Resolves(packages[ModuleName(packages, variant, module)], variant.version)}

Selection(packages, name, module) ==
  [name |-> name, module |-> module, version |-> packages[name].version,
   archives |-> packages[name].archives,
   to |-> [i \in DOMAIN packages[name].archives |->
             ExtractTo(packages[name], packages[name].archives[i])]]

\* The base package first, then the modules as they were asked for.
SelectPackages(packages, variant, modules) ==
  <<Selection(packages, BaseName(variant), "")>> \o
  [i \in DOMAIN modules |->
     Selection(packages, ModuleName(packages, variant, modules[i]), modules[i])]

CanSelect(packages, variant, modules) ==
  /\ HasVariant(packages, variant)
  /\ \A i \in DOMAIN modules :
       /\ HasModule(packages, variant, modules[i])
       /\ Resolves(packages[ModuleName(packages, variant, modules[i])], variant.version)

\* packageVariantsFromMetadata: the architectures that a document advertises.
Advertised(packages, prefix) ==
  {architecture \in Identifiers :
     LET name == [prefix |-> prefix, parts |-> <<architecture>>]
     IN  name \in DOMAIN packages /\ packages[name].archives # <<>>}
=============================================================================
