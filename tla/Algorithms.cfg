SPECIFICATION Spec
CONSTANTS
  Names = {base, charts, charts2}
  Modules = {Base, Charts}
  Base = Base
  Releases = {1, 2}
  MaxSelections = 3
  MaxTokens = 4
  MaxLines = 5
  Identifiers = {"addons", "charts", "src", "linux_gcc_64", "win64_msvc2022_64", "android_arm64_v8a", "android_armv7", "ios", "qtpdf",
    "clang_64", "linux_gcc_arm64", "win64_msvc2022_arm64", "android_x86", "android_x86_64"}
  VersionDirectory = "version"
  ThisHost = "linux"
  Spelling <- MCSpelling
  Shelved = {"preview"}
  Offers <- MCOffers
  Commands <- MCCommands
  KnownVersions <- MCKnownVersions
  MaxPublished = 3
INVARIANTS LoopIsRecorded NoBuildPathSurvives RewritingTwiceChangesNothing SettingsAreReplaced
  ListedModulesInstall BaseLandsInKit PlansAreAccepted InstallableIsListed ListedVersionsAreReleases
CHECK_DEADLOCK FALSE
