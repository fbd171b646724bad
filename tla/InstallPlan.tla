---------------------------- MODULE InstallPlan ----------------------------
(***************************************************************************)
(* From a command line to what is listed and to the plan that Installer    *)
(* gets: hosts, targets and their repositories, architectures and ABIs,    *)
(* the documents that are read, and the kits of the plan.                  *)
(* (cmd/yaqt, internal/qtrepo/repository.go, desktop.go, android.go,       *)
(* ios.go, install_plan.go, modules.go, extension_modules.go,              *)
(* package_variant.go)                                                     *)
(*                                                                         *)
(* A site is the content of the server: a function from addresses to       *)
(* documents.  An address [segment, target, version, extension, child]     *)
(* is Updates.xml below <segment>/<target>/qt6_<version>[_<extension>]/    *)
(* qt6_<version>[_<child>]; that of an extension module has its name as    *)
(* target.  A command is [host, target, arch, abis, modules, flags,        *)
(* version].                                                               *)
(***************************************************************************)
EXTENDS PackageVariant

CONSTANTS
  ThisHost,  \* the host that yaqt runs on
  Spelling,  \* other spellings of names on a command line, and what they mean
  Shelved    \* directory extensions with "preview" or "backup" in them

\* What trimming and lowering makes of a value.
Normal(value) == IF value \in DOMAIN Spelling THEN Spelling[value] ELSE value

\* The values in their order, each of them once.
Once(values) ==
  FoldLeft(LAMBDA done, x : IF Contains(done, x) THEN done ELSE Append(done, x), <<>>, values)

-----------------------------------------------------------------------------
(* Hosts, targets and variants.                                            *)

Segment ==
  [windows |-> "windows_x86", windows_arm64 |-> "windows_arm64", mac |-> "mac_x64",
   linux |-> "linux_x64", linux_arm64 |-> "linux_arm64"]

Hosts   == DOMAIN Segment
Targets == {"desktop", "android", "winrt", "ios", "wasm", "qt"}

Available(target, host) ==
  /\ target = "winrt" => host = "windows"
  /\ target = "ios" => host = "mac"

RootSegment(host, target) ==
  IF target \in {"android", "wasm", "qt"} THEN "all_os" ELSE Segment[host]

Desktops ==
  LET desktop(host, directory, child, extensions) ==
        [host |-> host, directory |-> directory, child |-> child, extensions |-> extensions]
  IN  [clang_64             |-> desktop("mac", "macos", "", "clang_64"),
       linux_gcc_64         |-> desktop("linux", "gcc_64", "", "x86_64"),
       linux_gcc_arm64      |-> desktop("linux_arm64", "gcc_arm64", "", "arm64"),
       win64_msvc2022_64    |-> desktop("windows", "msvc2022_64", "msvc2022_64", "msvc2022_64"),
       win64_msvc2022_arm64 |-> desktop("windows_arm64", "msvc2022_arm64", "", "msvc2022_arm64")]

\* ResolveDesktopArchitecture; each host has one architecture, its default.
Architecture(host, arch) ==
  IF arch = "" THEN CHOOSE a \in DOMAIN Desktops : Desktops[a].host = host ELSE Normal(arch)

IsArchitectureOf(host, arch) ==
  /\ Architecture(host, arch) \in DOMAIN Desktops
  /\ Desktops[Architecture(host, arch)].host = host

\* An ABI by its standard spelling: its directory, and its package architecture.
AndroidABIs ==
  [abi \in {"arm64-v8a", "armeabi-v7a", "x86", "x86_64"} |->
     CASE abi = "arm64-v8a"   -> [child |-> "arm64_v8a", architecture |-> "android_arm64_v8a"]
       [] abi = "armeabi-v7a" -> [child |-> "armv7", architecture |-> "android_armv7"]
       [] abi = "x86"         -> [child |-> "x86", architecture |-> "android_x86"]
       [] abi = "x86_64"      -> [child |-> "x86_64", architecture |-> "android_x86_64"]]

MainPrefix(version)              == [family |-> "qt", version |-> Compact(version)]
ExtensionPrefix(module, version) == [family |-> module, version |-> Compact(version)]

Address(c, child) ==
  [segment |-> RootSegment(c.host, c.target), target |-> c.target,
   version |-> Compact(c.version), extension |-> "", child |-> child]

\* Documents of Windows desktops are split by architecture since 6.11.
SplitSince == Version(6, 11, 0)

DesktopChild(c) ==
  IF c.host = "windows" /\ AtLeast(c.version, SplitSince)
  THEN Desktops[Architecture(c.host, c.arch)].child ELSE ""

\* Architectures, and extensions of the directories that their documents are in.
Architectures == DOMAIN Desktops \cup {"ios"} \cup {AndroidABIs[abi].architecture : abi \in DOMAIN AndroidABIs}

Children ==
  {""} \cup {Desktops[arch].child : arch \in DOMAIN Desktops}
       \cup {AndroidABIs[abi].child : abi \in DOMAIN AndroidABIs}

\* Identifiers are lower case and trimmed, and no directory of a release is shelved.
ASSUME NamesAssumption ==
  /\ Identifiers \cap DOMAIN Spelling = {}
  /\ Architectures \subseteq Identifiers
  /\ Shelved \cap Children = {}

Variant(c, child, architecture, directory, extensions) ==
  [address |-> Address(c, child), prefix |-> MainPrefix(c.version), architecture |-> architecture,
   version |-> c.version, fallback |-> directory, extensions |-> extensions]

AndroidVariant(c, abi) ==
  LET a == AndroidABIs[abi]
  IN  Variant(c, a.child, a.architecture, a.architecture, a.child)

\* The variants that a command is about, in the order of the ABIs.
Variants(c) ==
  LET arch == Architecture(c.host, c.arch)
      abis == Once([i \in DOMAIN c.abis |-> Normal(c.abis[i])])
  IN  CASE c.target = "desktop" ->
             <<Variant(c, DesktopChild(c), arch, Desktops[arch].directory, Desktops[arch].extensions)>>
        [] c.target = "ios" -> <<Variant(c, "", "ios", "ios", "ios")>>
        [] OTHER -> [i \in DOMAIN abis |-> AndroidVariant(c, abis[i])]

-----------------------------------------------------------------------------
(* Commands.                                                               *)

Requests ==
  [host : Hosts, target : Targets, version : QtReleases, arch : STRING, abis : Seq(STRING),
   modules : Seq(STRING), flags : SUBSET {"download-only", "extract-only"}]

\* repositoryFromCommand, and what the target handlers ask of the options.
NamesVariants(c) ==
  /\ Available(c.target, c.host)
  /\ CASE c.target = "desktop" -> c.abis = <<>> /\ IsArchitectureOf(c.host, c.arch)
       [] c.target = "android" ->
            /\ c.arch = "" /\ c.abis # <<>>
            /\ \A i \in DOMAIN c.abis : Normal(c.abis[i]) \in DOMAIN AndroidABIs
       [] c.target = "ios" -> c.arch = "" /\ c.abis = <<>>
       [] OTHER -> FALSE

\* Only a complete installation runs tools of the host.
AcceptsInstall(c) ==
  /\ Cardinality(c.flags) <= 1
  /\ c.flags = {} => c.host = ThisHost
  /\ NamesVariants(c)
  /\ Supported(c.version)
  /\ \A i \in DOMAIN c.modules : Normal(c.modules[i]) \in Identifiers

\* Mutated form: a module that is asked for twice is selected twice.
ModulesAsGiven(c) == [i \in DOMAIN c.modules |-> Normal(c.modules[i])]

ModulesOf(c) == Once([i \in DOMAIN c.modules |-> Normal(c.modules[i])])

-----------------------------------------------------------------------------
(* Plans.                                                                  *)

PackagesAt(site, variant) == PackagesOf(site[variant.address])

CanPlan(site, c) ==
  /\ AcceptsInstall(c)
  /\ \A variant \in ToSet(Variants(c)) :
       /\ variant.address \in DOMAIN site
       /\ CanSelect(PackagesAt(site, variant), variant, ModulesOf(c))

KitOf(site, variant, modules) ==
  LET packages == PackagesAt(site, variant)
  IN  [architecture |-> variant.architecture,
       destination  |-> <<VersionDirectory,
                          InstallDirectory(packages[BaseName(variant)], variant.fallback)>>,
       packages     |-> SelectPackages(packages, variant, modules)]

\* The kits of a plan, as installKitRequests hands them to Installer.
KitsPlanned(site, c) ==
  LET variants == Variants(c)
  IN  [i \in DOMAIN variants |-> KitOf(site, variants[i], ModulesOf(c))]

-----------------------------------------------------------------------------
(* Listings.                                                               *)

\* ListVersions: the index of the target's repository names its directories.
IndexOf(site, host, target) ==
  {[family |-> 6, version |-> a.version, extension |-> a.extension] :
     a \in {b \in DOMAIN site : b.segment = RootSegment(host, target) /\ b.target = target}}

VersionsListed(site, host, target) == VersionsIn(target, IndexOf(site, host, target))

ExtensionModules == {"qtwebengine", "qtpdf"}

ExtensionVariant(site, c, variant, module) ==
  [address      |-> [segment |-> variant.address.segment, target |-> module,
                     version |-> Compact(c.version), extension |-> "", child |-> variant.extensions],
   prefix       |-> ExtensionPrefix(module, c.version),
   architecture |-> variant.architecture,
   version      |-> c.version,
   fallback     |-> InstallDirectory(PackagesAt(site, variant)[BaseName(variant)], variant.fallback)]

\* Extension modules whose document has the package of the variant.
Offered(site, c, variant) ==
  {module \in ExtensionModules :
     LET extension == ExtensionVariant(site, c, variant, module)
     IN  /\ extension.address \in DOMAIN site
         /\ BaseName(extension) \in DOMAIN PackagesAt(site, extension)}

\* An extension module that is offered and is no good fails the whole listing.
CanListModules(site, c) ==
  /\ NamesVariants(c) /\ Supported(c.version)
  /\ Len(c.abis) <= 1
  /\ LET variant == Variants(c)[1]
     IN  /\ variant.address \in DOMAIN site
         /\ HasVariant(PackagesAt(site, variant), variant)
         /\ \A module \in Offered(site, c, variant) :
              LET extension == ExtensionVariant(site, c, variant, module)
              IN  HasVariant(PackagesAt(site, extension), extension)

ModulesListed(site, c) ==
  LET variant == Variants(c)[1]
  IN  AvailableModules(PackagesAt(site, variant), variant) \cup Offered(site, c, variant)

\* Mutated form: only the directory of the release itself is read.
CanHoldVariantsItself(child) == child = ""

CanHoldVariants(child) == child \notin SourceExtensions \cup Shelved

\* architectureMetadataURLsFromIndex, of the index of the release's directory.
ArchitectureAddresses(site, c) ==
  {a \in DOMAIN site :
     /\ a = Address(c, a.child)
     /\ ParseCompact(6, a.version) = c.version
     /\ CanHoldVariants(a.child)}

AdvertisedAt(site, c, address) == Advertised(PackagesOf(site[address]), MainPrefix(c.version))

PlainVariant(c, architecture) ==
  [prefix |-> MainPrefix(c.version), architecture |-> architecture,
   version |-> c.version, fallback |-> ""]

\* Every advertised variant resolves, and none is in two directories.
AllAreVariants(site, c, addresses) ==
  \A a \in addresses : \A architecture \in AdvertisedAt(site, c, a) :
    /\ HasVariant(PackagesOf(site[a]), PlainVariant(c, architecture))
    /\ \A b \in addresses : architecture \in AdvertisedAt(site, c, b) => b = a

ArchitecturesListed(site, c) ==
  UNION {AdvertisedAt(site, c, a) : a \in ArchitectureAddresses(site, c)}

CanListArchitectures(site, c) ==
  /\ c.target \in {"desktop", "android", "ios", "wasm"}
  /\ Available(c.target, c.host) /\ Supported(c.version)
  /\ AllAreVariants(site, c, ArchitectureAddresses(site, c))
  /\ ArchitecturesListed(site, c) # {}
=============================================================================
