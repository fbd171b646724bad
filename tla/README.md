# A verification project for yaqt

yaqt installs Qt from the Qt download servers: it resolves a request to a list
of packages, downloads their 7-Zip archives into a cache, extracts them below
`<root>/<version>/<kit>`, rewrites the paths of Qt's build machine, and records
what it installed in `<kit>/.yaqt/manifest.json`. Nothing prevents a user from
running it several times at once, from interrupting it, or from repeating a
command. This directory holds TLA+ models of the parts in which that matters,
the TLC runs that check them on small instances, and proofs, checked by TLAPS,
of what holds for every instance.

Paths are relative to the repository: `internal/...` is `src/internal/...`.
`PROJECT.json` maps each definition to the lines it models, and lists the runs,
the mutants that show each property can fail, the hazards and the theorems.

## Inventory

| Component | Source | State | Operations | What is hard | What makes it correct |
|---|---|---|---|---|---|
| Installation orchestration | `qtinstall/installer.go` | none of its own; drives the kit directories | `Materialize` in the modes install, download-only, extract-only | processes sharing kits; failure or death in any phase; plans older than the lock | one worker per version; nothing recorded before it is complete; success means complete |
| Reconciliation and manifests | `qtinstall/installation_state.go` | `manifest.json` per kit | read, decide an action per package, commit by rename | the manifest is read long before it is written; adoption of kits without one; packages renamed between layouts | no record lost; one record per module; a repeated request has nothing to do |
| Version lock | `qtinstall/version_lock.go` | `<root>/<version>/.yaqt/install.lock` | acquire, release | death of the owner; release on every path | mutual exclusion; waiters end |
| Archive store | `qtinstall/archive_store.go` | `downloads/sha256/<digest>.7z`, one lock file per digest | `Fetch` | several fetches of one digest; corrupt bodies and entries; use after the lock is released | only verified entries; no needless download; a returned path stays verified |
| Repository metadata cache | `qtrepo/resource_cache.go` | one entry and one lock file per URL | `load` | reads without the lock; expiry; a clock set back; error pages | only valid documents, no older than promised; one process loads |
| Advisory file lock | `filelock/*.go` | the kernel's lock on an open file | `Acquire`, `Release` | polling against cancellation; error paths; death | mutual exclusion; no leaked file; a cancelled call ends |
| Relocators | `qtinstall/desktop_relocator.go`, `mobile_relocator.go` | the metadata, scripts and settings of a kit | `Relocate`, `Validate` | many files, no transaction; repetition after a cut; text rewriting; the wrappers of a mobile kit name another kit's tools | old or new; a refused kit untouched; repeatable; no build path left |
| Archive extractor | `qtinstall/archive_extractor.go` | the tree below a kit or root | `Extract` | validation against what is there; overlays; links made last; cuts | repeatable; takes nothing away; complete on success |
| Repository planning | `qtrepo/install_plan.go`, `package_variant.go`, `desktop.go`, ... | none | `ResolveInstall`, `ListModules`, `ListArchitectures` | layouts, names and addresses that vary with host, target and version; broken packages; two ways to the same document | what is listed installs, what installs is listed; each kit and package once, in the kit's directory |
| Metadata parsing, versions | `qtrepo/package_metadata.go`, `repository.go`, `version.go`, `client.go` | none | parsing, `ListVersions` | versions spelled without dots | the versions listed are the releases |
| Host Qt discovery, identity checks | `qtinstall/host_qt_discovery.go`, `install_root.go` | none; reads kits | find exactly one desktop kit for a mobile one | other tools' Qts come and go; another process extracts the host | the kit found is the kit used, unchanged |
| Managed paths | `qtinstall/managed_path.go` | none | wrappers of `os.Root` | path strings | — |
| HTTP policy | `httpclient/httpclient.go` | none | `Get`: three attempts, back-off | retries under a lock | ends |
| Command line | `cmd/yaqt/*.go` | none | one action per command | spellings, repetitions, options that exclude each other | what it accepts can be planned and reconciled |

How they interact. The install command resolves a plan, using the metadata
cache, then calls `Materialize`. That acquires the version lock (except for a
download), reconciles each kit with its manifest, calls the archive store for
every pending archive, the extractor for each of them, the relocator for every
changed kit, and publishes the manifests. The relocator of a mobile kit is made
under the version lock: it looks among the directories of the version for the
one desktop Qt whose tools the kit's wrappers will run. The version lock, the digest locks and
the URL locks are all advisory file locks. Between processes nothing is shared
but files and those locks.

## Modules

| Module | Models |
|---|---|
| `Reconcile` | `reconcileKit` for one kit: the action of every selected package, and the manifest that results, once as the loop over the selections and once in closed form |
| `Registry` | abstract: a manifest is the result of requests applied to it one after the other |
| `Installer` | `Materialize` of several processes over the kits of one Qt version; implements `Registry` |
| `MobileInstall` | `Installer` composed with host discovery and with the wrappers of mobile kits, among desktop Qts that come and go; implements `Installer` |
| `VerifiedStore` | abstract: a store that publishes only entries with the content their name declares, and discards only others |
| `ArchiveStore` | `Fetch` by several callers; implements `VerifiedStore` |
| `MetadataCache` | `load` for one URL by several callers, with a clock, a server and the retries of its client |
| `Mutex` | abstract: a lock taken when it is free and freed by its owner |
| `FileLock` | `filelock.Acquire` and `Release` over the kernel's lock; implements `Mutex` |
| `Relocation` | `Relocate` on one kit, file by file, call after call |
| `RelocationText` | what the relocators make of one file, over tokens |
| `Extraction` | `Extract` on one destination, entry by entry, archive after archive |
| `SymlinkResolver` | how the extractor follows the target of a symbolic link (recursive; TLC only) |
| `QtVersions` | versions, and how names of repository directories spell them |
| `PackageVariant` | what one `Updates.xml` says of a variant: its modules, packages, archives and directories |
| `InstallPlan` | from a command and the content of a server to addresses, listings and plans |
| `Planning` | a server on which packages appear; the properties of `InstallPlan` over every server |
| `MC*` | the instances that TLC checks |
| `*Proofs` | theorems and proofs |

### How state and actions correspond to the code

**Installer.** A process is a yaqt invocation; `pc[p]` is the phase it is in,
and each action is the piece of `Materialize` between two places at which it
can be interrupted. `Start` is the command line's resolution of a plan at any
release the metadata may offer, `Acquire` and `Release` are the two ends of
`withVersionLock`, `Reconcile` is `ReconcileInstallation` with the validation of
existing kits and the early return of a satisfied request, `Fetch`,
`BeginExtract`/`EndExtract` and `Relocate` take one archive or kit each in the
plan's order, and `Commit` is the rename of one manifest. `Fail` is any returned
error (a deferred release still follows) and `Crash` is the death of the
process, with which the kernel drops its lock. The files of a kit are kept per
archive: absent, torn, or the release extracted last; `relocated[k]` is the set
of archives whose files carry this installation's paths. `Relocator.Validate`
looks at a few files only, and `KeyArchives` are the archives that contain them.
An archive list of a manifest record is a function of the package and its
version and is left out. A torn key archive may or may not validate.

**MobileInstall.** Every action of `Installer` appears with what it does to
`host`, the desktop Qt a process has found, and to `wrappers[k]`, the set of
places whose tools the wrappers of kit k name: the build machine, or desktop
Qts. `Shape` says what a directory looks like once it is complete, in the three
respects that `validateHostQtDirectory` looks at. A directory validates for
certain, or may validate (a torn key archive), so the discovery chooses among
the sets of `Candidates`, and it succeeds only with exactly one. `MReject` is a
request that fails because of it, `MBeginExtract` puts some of the archive's
wrappers in place of those that were there, `MRelocateFails` replaces some of
them. `PutOther` and `TakeOther` are other tools that write beside the kits at
any time. `unrecorded` and `unlinked` are histories, which no action reads. A
triple of kit, archive and release is in `unrecorded` from the moment a package
with that archive is extracted over (or from the beginning, in a kit that
another tool left) until a manifest is published by the process that extracted
it, or, in a kit without a manifest, until an installation stops that had
extracted all it has for the kit; `MCommit`, `MStop` and `MRelocateFails` take it
away. A kit is in `unlinked` between an extraction of its wrappers and the next
manifest. These are the ways in which a manifest can be wrong about the disk;
`LinkedToTheHost` and `CompleteIfRecorded` say that there are no others.

**ArchiveStore.** A content is represented by its own digest, so that an entry
is correct when `cached[d] = d`; `Other` is every content nobody declared. Each
step of `Fetch` under the digest lock is an action: inspect, discard, download,
copy, verify, publish. A rename refused because of a concurrent reader, after
which the code inspects the entry again, is part of publishing. `Damageable`
names the entries that something outside yaqt corrupts or removes.

**MetadataCache.** `held[p]` is what p read from the file, or has loaded and is
about to publish; `judge` and `rejudge` are the checks of that copy without and
with the lock, so that another process can publish in between. The clock ticks
at any moment, except that loading and publishing take at most `MaxLoad` each,
and may be set back at any moment (`stepped` remembers that it was). `Lose` is an
attempt of `httpclient.Get` without an answer: the third fails the call, the
others are followed by a delay and `Retry`, all under the lock. An answer with an
error status is not repeated, as in the code.

**FileLock.** The kernel's lock belongs to an open file, so `owner` follows
`open`. `Sleep` ends either by the retry timer or by cancellation, as in the
`select` of `filelock.go:87`.

**Relocation.** `Order` is the order in which files are prepared; the model
covers both relocators because both collect updates, stage all, then rename all
(`prepareRelocationFile`, `applyRelocationFiles`). Each file is `Transform[f]` of what it holds, which
may refuse. A rename that fails, the removal of the target and the second rename
are `RenameFails`, `RenameAgain` and `RenameAgainFails`; `lost` is the history
of files removed and not yet replaced.

**RelocationText.** Texts are sequences of tokens in which one token stands for
a whole build path, so that a replacement is the substitution of token
sequences; a Windows path is a drive token followed by a path token. INI files
are sequences of lines. The recursion is written as recursive functions and
folds.

**Extraction.** The tree maps paths to nodes: nothing, a directory, a file with
a content, a link with a target. `CheckArchive` is `preflightArchive`,
`CheckDestination` is `preflightDestination`. Then come the passes of `Extract`
in their order: directories and regular files, the parents of links, the modes
of directories (which change no node), links. A regular file is written to a
partial file with a random name, which is no node of the tree, and published by
`publishRegularFile`. How links resolve is the parameter `LinksResolve`;
`MCExtraction` sets it to `SymlinkResolver`.

**QtVersions, PackageVariant, InstallPlan, Planning.** Pure operators. A version
spelled without dots is a sequence of digits, a package name a prefix and its
parts, a path the sequence of its segments below `@TargetDir@`, cleaned. A site
is a function from addresses to documents, a document a sequence of updates of
which the last one of a name counts. `CanPlan` and `KitsPlanned` are what
`install-qt` resolves, `CanListModules`/`ModulesListed`,
`CanListArchitectures`/`ArchitecturesListed` and `VersionsListed` what the list
commands print. The one action, `Publish`, is the server's: an update is added.
Tables (hosts, targets, architectures, ABIs) are complete, also where the
instance does not use them; names on the command line are normalised by the
function `Spelling`.

## Runs

All runs finish in at most two or three minutes with two workers. A property's
mutant, a plausible bug in a mapped definition, is named in `PROJECT.json`. The
type invariants are not among the checked properties; those of `Installer`,
`MobileInstall`, `ArchiveStore`, `MetadataCache`, `FileLock` and `Extraction` are
proved (`TypeCorrect`, `MobileTypeCorrect`).

| Run | Instance | States | What it shows |
|---|---|---|---|
| `algorithms` | every manifest over 3 names, 2 modules, 2 releases, with up to 3 selections; texts of up to 4 tokens; settings files of up to 5 lines; every server of up to 3 updates out of 33, with 24 commands | 20,894 | the reconciliation loop equals its closed form; no build path survives (a drive letter in front of one may); rewriting is idempotent; settings are replaced in their section only; `ListedModulesInstall`, `InstallableIsListed`, `ListedVersionsAreReleases`: listings and plans agree; `BaseLandsInKit`; `PlansAreAccepted` |
| `installer_names` | 3 processes, 1 kit, 2 layouts' names of 2 packages, 2 releases; faults before extraction | 118,624 | `OneRecordPerModule`, `RepeatIsSatisfied`, `SuccessMeansComplete` |
| `installer_kits` | 2 processes, 2 kits (one left without a manifest by an older tool), every mode, faults in every phase, the deferred release included; fairness | 71,930 | `OneMaterializer`, `KitsChangeUnderLock`, `SerialManifests` (the refinement), `PublishesOnlyCompleteKits`, `NewRecordsAreComplete`, `WaitersEnd` |
| `mobile_install` | 2 interchangeable processes, 2 releases; a desktop kit, a mobile kit, and a mobile kit that another tool linked; two desktop Qts of other tools, one for this host; installations, updates and extractions over each kit, faults in every phase | 924,288 | `HostUnchangedWhileUsed`; `LinkedToTheHost`; `CompleteIfRecorded`: success means complete, but for what was extracted behind the back of a manifest |
| `installer_partial_base` | an installation killed during extraction, then another | — | violation, see Findings |
| `installer_extract_over` | installation, extraction-only, installation | — | violation, see Findings |
| `archive_store` | 3 callers, 2 digests, one of them damageable; fairness | 24,492 | the store implements `VerifiedStore`; nothing verified is downloaded again; what was returned stays verified; locks are released |
| `metadata_cache` | 2 callers, ages 0..3, limit 1, two documents and an error page, clock set back; fairness | 173,972 | of the processes that miss, one loads; what is returned validates; a served document was current recently; the lock is released, retries included |
| `file_lock` | 3 processes; fairness | 21,752 | implements `Mutex`; the kernel's lock never outlives the file or the call; a cancelled waiter ends |
| `relocation` | 4 files, one of each kind of transform, with 5 initial contents each | 20,969 | old or new; refused kits untouched; success means relocated; a cut call can be repeated |
| `relocation_drives` | texts of up to 3 tokens | — | violation, see Findings |
| `extraction` | 5 paths on two levels, 9 archives that overlay and conflict, or are unusable | 7,977 | what was accepted stays acceptable after a cut; success left the whole archive, and its links resolve; an overlay takes nothing away |

Bounds, and why they are enough. `MaxSelections`, `MaxTokens` and `MaxLines`
(algorithms), `MaxPublished` (algorithms as well), `MaxTime`, `MaxAge`, `MaxLoad` and `MaxEdits` (metadata cache) and
`MaxSymlinkDepth` (extraction) are the only bounds on otherwise unbounded data
(`Attempts`, three, is the code's own);
a process makes one request, so the number of requests is the number of
processes.

- Two processes are enough for a race over a manifest, and the third makes a
  history of three requests (install, rename, install again). Two kits are
  enough for "another kit of the same request", two releases for an update and a
  step back, two archives of the base for an extraction cut between them.
- In the archive store the third caller is the one that finds or damages an
  entry between two others.
- A limit of 1 and times up to 3 give entries below, at and above the limit, and
  entries stamped in the future.
- A replacement in a text involves two adjacent prefixes and what is around
  them: four tokens. A setting needs its section, another one, and the key in
  each: five lines.
- A listing and a plan disagree, if they do, over one variant: its base package,
  one module under one or two names, and a second document. Three updates make
  each of those pairs and triples, among updates of every kind the code tells
  apart.
- In `mobile_install` two processes are one that installs the host or a kit and
  one that uses it; two mobile kits are one linked before and one that is new;
  one desktop Qt of another tool makes the hosts too many or exchanges them.
  The kits that an older tool left stand for one request more: histories of
  three requests are in `installer_names` and, of mobile kits, in the theorems
  `SuccessIsLinked` and `SuccessIsComplete`.
- Processes are interchangeable (symmetry) in `installer_names` and
  `mobile_install`, which check no liveness.
- Extraction has two levels of directories because the parents of an entry are
  checked by one quantifier; the proofs do not depend on depth.

`CHECK_DEADLOCK FALSE` is set in `algorithms` and `relocation_drives` only, whose
inputs are built up to a bound and end. Everywhere else TLC looks for deadlocks
as well; in `Installer`, that every process is idle or done is no deadlock (the
step `Done`).

Fault phases. `installer_names` keeps faults out of the phases behind fetching, because a
release that steps back after a cut update is a state no document speaks of (see
the hazards). `installer_kits` and `mobile_install` have faults everywhere, and
`CompleteIfRecorded` names the exceptions that the findings below make necessary.

### Fairness

- `Installer`: weak fairness of each process's `Step`. A process is a running
  program; its steps are enabled until it ends. Nothing forces a `Start`, and
  nothing forces a fault. That archives are fetched at all assumes that servers
  end their answers, see next.
- `MobileInstall`: none. Its waiters are those of `Installer`, and nothing forces
  other tools to do anything.
- `ArchiveStore`: weak fairness of `Local`, and of `Remote` separately, since
  archives are fetched with `http.DefaultClient`, which has no time-out. The
  second is an assumption about servers, not something the code ensures.
- `MetadataCache`: weak fairness of `Local`; metadata has a client with a time-out
  of ten seconds (`cmd/yaqt/main.go:26`), so an attempt ends, with an answer or
  without one, and a delay ends by its timer.
- `FileLock`: weak fairness of `Local` and strong fairness of `StopWaiting`: when
  the retry timer and the cancellation are both ready, Go's `select` chooses at
  random, so cancellation is not passed over for ever. A sleeping call is
  sometimes between two sleeps, hence strong and not weak.
- `Relocation` and `Extraction` are checked for safety only.

## Findings

1. `installer_partial_base` — a kit without a manifest whose key files exist has
   its base package adopted. An installation killed between the archive with the
   key files and the other archives of the base leaves such a kit; the next one
   adopts it and reports success without the rest.
2. `installer_extract_over` — an extraction-only request over an installed kit
   overwrites relocated files and leaves the manifest, so the next installation
   reports that everything is already satisfied.
3. `relocation_drives` — build paths with a drive letter are listed behind the
   path without one, whose replacement destroys them: `c:` stays in front of the
   kit's own path.

`PROJECT.json` quotes the lines that say otherwise. Three more hazards are
worth reading there: a mobile kit below a directory with a single quote in
its name is refused by the second relocation; directories get the modes of the
archive before links are made in them; and a release 6.8.10, should there be one,
would be spelled 6810 and listed as 6.81.0 (`ListedVersionsAreReleases` excepts
releases that are misread so, and those with a minor version of three digits, of
which the proof showed that they are as well).

## Proofs

| Module | Theorems | Along which invariant |
|---|---|---|
| `InstallerProofs` | `TypeCorrect`, `OneMaterializerHolds`, `KitsChangeOnlyUnderLock` | `IInv`: types; `ItemsPlanned`, the items to do and pending are items of the plan, without which the archive an item names has no type; `LockedModes`, a download is in no phase that takes the lock, and only an installation relocates and commits; `OneMaterializer` |
| | `ManifestsAreSerial`, `OnlyCompleteKitsArePublished`, `OneRecordForEachModule`, `SuccessIsSatisfied`, `NewRecordsDescribeFiles` | `SInv` = `IInv`, `PlannedFromRequest` (a plan is some request at some release) and `RecordsServe`: from reconciliation to commit, the records a process holds for a kit are the request applied to what its manifest says *now*, or are its manifest already. It is inductive because only the owner of the lock changes a manifest. `CInv` = `SInv` and `Progress`: pending items belong to changed kits; those no longer in `todo` are extracted at the planned release, unless the extraction in progress rewrites the same archive; those of kits no longer in `kitsLeft` are relocated. `DInv` = `CInv`, `Outcome` (each selection of a kit is listed by its manifest, or all its archives are pending, or it is a base package and the kit has no manifest; and what will be recorded lists all of them), `Satisfied` (so does the manifest when success is reported) and `OneRecordPerModule`. About the closed form `Recorded`: `RecordedCases`, `RecordedKeeps`, `RecordedLists`, `RecordedOneOfEach` |
| | `UndisturbedSuccessIsComplete` | `WholeInv`, on top of `DInv`: a manifest tells the truth about every archive, unless a process that works under the lock extracts the archive and has not published the kit's manifest yet (`ManifestsAreRight`); a kit without a manifest holds nothing but what is being extracted (`NoStrangers`), so nothing is adopted (`NothingIsAdopted`); what is on record is what some request selects (`RecordsAreWanted`), so an archive that is extracted again belongs to the module that is recorded again; and what is left to extract is pending (`LeftIsPending`). `RelocationSucceeds` shows that validation before relocation cannot fail then |
| `MobileInstallProofs` | `ImplementsInstaller`, `HostStaysAsFound` | `HInv` = `SInv` and `HostsAreDesktops`, a host that was found is a desktop Qt. Each step of `MobileInstall` is a step of `Installer` or leaves its variables alone, so all invariants of `Installer` hold; a process that works with a host owns the lock, and its own steps do not touch a desktop kit, because all kits of a request are of one target (`MobileAssumption`) |
| | `MobileTypeCorrect`, `SuccessIsLinked` | `LinkInv`: a process that has reconciled a mobile installation has found a host (`HostFound`); a kit with a manifest whose wrappers name the build machine is in `unlinked` (`BuildIsUnlinked`); and a kit of the plan that has nothing to change, or was relocated, names the process's host alone (`KitsAreLinked`). What makes it hold in the satisfied case is that the validation refuses every other kit |
| | `SuccessIsComplete` | `RecordInv`, on top of `DInv` and `LinkInv`: a manifest tells the truth about every triple outside `unrecorded` (`ManifestsAreTrue`); a kit without a manifest that has key files holds every archive of its base package at every release outside `unrecorded` (`BasesAreWhole`), which is what an adoption relies on; a relocated kit was validated and is relocated as a whole (`RelocatedKits`). Success is on record (`Satisfied`) and the record is true |
| `ArchiveStoreProofs` | `TypeCorrect`, `DigestLockOwnership`, `NoNeedlessDownload`, `ImplementsVerifiedStore`, `ReturnedStaysVerified` | `IInv`: lock ownership; an entry has its declared content or one of no name; a partial file that reaches the rename was verified; an entry found invalid stays so until the rename, since others need the lock |
| `MetadataCacheProofs` | `TypeCorrect`, `OneLoaderLoads`, `ValidIsReturned`, `RecentIsServed` | `IInv`: the one process that loads owns the lock; an answer and an entry are documents that were the server's when they are stamped (`replaced` bounds how long ago); while a process loads, the entry stays one nobody can use, because it is written under the lock only and time does not make it fresh; what is about to be returned validates |
| `FileLockProofs` | `TypeCorrect`, `LockFollowsTheFileHolds`, `LockFileIsMutex` | `IInv`: the owner of the kernel's lock has the file open and is past the attempt that took it; the refinement maps each step to a step of `Mutex` on `owner` or to a stutter |
| `RelocationProofs` | `FilesAreOldOrNew`, `RefusedKitStaysUntouched`, `SuccessIsRelocated`, `CutShortIsRepeatable`, `AllAreStagedFirst` | `RInv`: a replacement is what the archives brought, rewritten once; files before `next` were looked at or published, files from `next` on are staged, according to the phase; what is lost could be rewritten |
| `ExtractionProofs` | `TypeCorrect`, `TreeStaysClosed`, `AcceptedIsRepeatable`, `SuccessIsExtracted`, `NothingBeforeValidation`, `ExtractionOverlays` | `EInv`: an accepted archive is acceptable in every tree its own entries lead to; entries before `next` are in place; the parents of an entry about to be put are directories. The heart is `EntryStepTree`: a step of one entry of an accepted archive undoes no other entry and puts nothing in the way of one |
| `AlgorithmsProofs` | `LoopIsRecordedAlways`, `SettingsAreReplacedAlways`, `NoBuildPathSurvivesAlways`, `RewritingTwiceChangesNothingAlways` | What a loop computes, for inputs of every length. `ManifestsAreTyped`, `TextIsTyped` and `LinesAreTyped` say what the inputs are; the rest are lemmas about the operators: `LoopRecords` (the loop over the selections is the closed form `Recorded`), `WalkIsClosed` and `RewriteINIIsClosed` (the walk over the lines of a settings file, in closed form), `RewriteINITwice`, `ReplaceInto` (a replacement token by token), `ReplaceLeavesNoPair` (what was replaced is gone, and no seam makes it anew), `ScriptTwice` |
| | `BaseLandsInKitAlways`, `PlansAreAcceptedAlways`, `ListedModulesInstallAlways`, `InstallableIsListedAlways`, `ListedVersionsAreReleasesAlways` | `SiteIsTyped`, every document of the server is a sequence of updates, whatever is published: what commands, listings and plans make of such a site are lemmas: `SpelledIsRead` (a version spelled without dots is read as itself, but for those of `Misread`), `PlannedKits`, `SelectedOnce` (a plan has each package once), `BaseArchiveLands`, `ChildrenHoldVariants` (installation and listing compute the same addresses) |

How `AlgorithmsProofs` does induction. The induction theorems of the library take
an operator as a parameter, which the installed provers cannot instantiate. A set
they can, however: `Induction` is about a set of naturals, and follows from the least
element outside it (`LeastElement`, from the well-founded order of the naturals,
`WFMin` and `NatLessThanWellFounded`); and `FoldIsLoop` makes a fold of the community modules
a loop over a sequence, step by step, of which `Induction` says what it computes.

Assumptions. Each module with constants names one: `BaseAssumption` (there is a
base module), `InstallerAssumption` (shapes of requests and archives, and that a
plan selects the base package of each kit and one package for each of its
modules, as `selectPackageUpdates` does; the special values are not ordinary
ones), `StoreAssumption` and `LockAssumption` (the same),
`CacheAssumption` (and a load does not outlast the freshness limit, 15 minutes),
`MobileAssumption` (every kit of a request has the marker of a mobile kit, or none
has: a plan is for one target), `KeyFilesAssumption` (the files that validation
looks at come with the base package, which has the same archives in all requests
for a kit: `basePackageName` computes its one name, and `reconcileKit`'s adoption
of a kit as its base package means nothing without it), `PlanningAssumption` (the
known versions are releases of Qt 6 with numbers below 1000, the commands are
`Requests`, and what is offered are updates at addresses of known versions),
`IdentifierAssumption` (no identifier is empty), `NamesAssumption` (identifiers are
lower case and trimmed, so that `Spelling` changes none; architectures are
identifiers; and the directory of a shelved extension is not one of a release),
`BoundsAssumption` (TLC's bounds are numbers; that of `algorithms` the theorems do
not depend on),
`RelocationAssumption` (every transform is idempotent, never turns a file into
nothing, and a file that is created does not depend on what it replaces;
on tokens, idempotence is the theorem `RewritingTwiceChangesNothingAlways`), and
`ExtractionAssumption` (being above is transitive and irreflexive). About
`LinksResolve` nothing is assumed. TLC evaluates all of them on every run.

`UndisturbedSuccessIsComplete` has one hypothesis more, `Undisturbed`: no older tool
left a kit, no installation stops between its first extraction and its last
manifest, no request only extracts, packages of different modules share no archive,
and the base package brings the files that validation looks at. The instance of
`installer_names`, whose processes do fail and die, before they extract, satisfies
it. The first two findings show what happens without the second and the third
condition. In general `SuccessIsComplete` holds instead, of which the property
lists what may be wrong.

What is only model-checked:

- liveness (`WaitersEnd`, `LocksAreReleased`, `LockIsReleased`,
  `CancelledWaitersEnd`), which is beyond the prover;
- the symbolic link resolver, a `RECURSIVE` operator, which the prover does not
  take. The theorems about `Extraction` hold for any way to resolve links;
- `SuccessMeansComplete` where `Undisturbed` does not hold: there it is false, see
  Findings.

## What is not modelled, and why

- The syntax of HTML, XML, JSON and URLs, and trimming and lowering of names
  beyond the function `Spelling`: conversions of strings, in which no state, order
  or concurrency is involved.
- Executable headers, of which a host's validation reads some: one attribute of a
  directory. What the tools of a host do when they run.
- What commands print, and the dry run, which only reads.
- That one plan's documents may be of different moments: the kits share none.
- Path strings, entry-name syntax, sizes, permissions: a violation is an error,
  and errors are failing steps of every model.
- Wrong or foreign manifests (schema, identity): errors as well.
- Cleaning up of temporary and partial files: their random names are never used
  again, and no other step reads them.
- `Validate` of a desktop kit beyond the existence of its key files.
- The content of lock files: it is written for a human and never read.
- Moving a root after an installation, beyond wrappers that name another host.

## Plan

Done, in this order: `Reconcile` and `Registry`; `Installer`; `ArchiveStore`;
`MetadataCache`; `FileLock`; `Relocation`, `RelocationText`; `Extraction`,
`SymlinkResolver`; `MobileInstall`; the retries of `MetadataCache`; `QtVersions`,
`PackageVariant`, `InstallPlan`, `Planning`.

A composition of the locks was considered and left out: a process takes the
version lock and then one digest lock at a time, and releases every URL lock
before either, so the order has no cycle by construction.

The proofs followed: of the version lock and the manifests, of each component, of
the composition `MobileInstall`, and at last of the operators and of `Planning`
(`AlgorithmsProofs`) and of `SuccessMeansComplete` for undisturbed installations.
Every safety property that a run expects to hold is stated by a theorem.
