------------------------------ MODULE Planning ------------------------------
(***************************************************************************)
(* A server on which releases appear package by package, and what yaqt     *)
(* lists and plans from what is there: InstallPlan over every site that    *)
(* can be made of Offers.                                                  *)
(***************************************************************************)
EXTENDS InstallPlan, Reconcile

CONSTANTS
  Offers,        \* what may be published: [address, name, update]
  Commands,      \* what users ask
  KnownVersions, \* the versions of the offers
  MaxPublished   \* bound on the updates that are published

ASSUME PlanningAssumption ==
  /\ KnownVersions \subseteq QtReleases
  /\ Commands \subseteq Requests
  /\ \A offer \in Offers :
       /\ \E v \in KnownVersions : offer.address.version = Compact(v)
       /\ offer.update \in Updates

VARIABLE site

Empty == [a \in {} |-> <<>>]

Published == FoldFunction(LAMBDA document, n : Len(document) + n, 0, site)

Publish(offer) ==
  /\ Published < MaxPublished
  /\ LET document == IF offer.address \in DOMAIN site THEN site[offer.address] ELSE <<>>
         update   == [name |-> offer.name, update |-> offer.update]
     IN  site' = [a \in DOMAIN site \cup {offer.address} |->
                    IF a = offer.address THEN Append(document, update) ELSE site[a]]

-----------------------------------------------------------------------------
(* Properties.                                                             *)

\* list-modules and install-qt agree (README.md:88): a module of the main
\* repository that is listed for a variant can be installed with it, and one that
\* can be installed is listed, whichever of its two names its packages have and
\* however many of them are no good (modules.go:141).
ListedModulesInstall ==
  \A c \in Commands : CanListModules(site, c) =>
    \A module \in Identifiers :
      LET install == [c EXCEPT !.modules = <<module>>, !.flags = {"download-only"}]
          listed  == module \in ModulesListed(site, c)
      IN  /\ listed /\ module \notin ExtensionModules => CanPlan(site, install)
          /\ CanPlan(site, install) => listed

\* The archive that carries the tools of a kit is extracted into the directory
\* that is reconciled, validated and relocated as the kit, although that
\* directory is read from one archive's operation and every archive has its own
\* (package_variant.go:338).
BaseLandsInKit ==
  \A c \in Commands : CanPlan(site, c) =>
    \A kit \in ToSet(KitsPlanned(site, c)) :
      LET base == kit.packages[1]
      IN  \A j \in DOMAIN base.archives :
            base.archives[j] = "qtbase" /\ base.to[j] # <<>> => IsPrefix(kit.destination, base.to[j])

\* A plan is one that Installer takes and that its reconciliation does not
\* refuse: it has kits, each once, each with its base package first, and each
\* package and module once, with archives, however the user spelled or repeated
\* the names (installation_state.go:212, install_plan.go:436).
PlansAreAccepted ==
  \A c \in Commands : CanPlan(site, c) =>
    LET kits == KitsPlanned(site, c)
    IN  /\ kits # <<>>
        /\ \A i, j \in DOMAIN kits : i # j => kits[i].architecture # kits[j].architecture
        /\ \A kit \in ToSet(kits) :
             LET packages == kit.packages
             IN  /\ ~SelectsTwice(packages)
                 /\ \A j \in DOMAIN packages : packages[j].archives # <<>>
                 /\ \A j, k \in DOMAIN packages : packages[j].module = packages[k].module => j = k
                 /\ packages[1].module = ""

\* An architecture that can be installed is listed for its release, although its
\* document is found by its address when it is installed and in the index of the
\* release when it is listed (package_metadata.go:179, package_variant.go:146),
\* unless another variant of the release is broken or the index misreads the
\* version.
InstallableIsListed ==
  \A c \in Commands : CanPlan(site, c) =>
    LET release == {a \in DOMAIN site : a = Address(c, a.child)}
        stable  == {a \in release : a.child \notin Shelved \cup SourceExtensions}
    IN  AllAreVariants(site, c, stable) /\ ~Misread(c.version) =>
          /\ CanListArchitectures(site, c)
          /\ \A variant \in ToSet(Variants(c)) :
               variant.architecture \in ArchitecturesListed(site, c)

\* The versions that are listed are the releases that the server has, although
\* the index spells them without dots, unless a release there is one of Misread:
\* 6.8.10 is listed as 6.81.0 (version.go:98).
ListedVersionsAreReleases ==
  \A target \in Targets : \A host \in {h \in Hosts : Available(target, h)} :
    LET there == {v \in KnownVersions : \E name \in IndexOf(site, host, target) :
                    /\ name.version = Compact(v)
                    /\ name.extension # "" => target = "qt" /\ name.extension \in SourceExtensions}
    IN  (\A v \in there : ~Misread(v)) =>
          VersionsListed(site, host, target) = {v \in there : Supported(v)}
=============================================================================
