SPECIFICATION Spec
CONSTANTS
  Names = {base}
  Modules = {Base}
  Base = Base
  Releases = {1}
  MaxSelections = 1
  MaxTokens = 3
  MaxLines = 1
  Identifiers = {"addons", "charts", "src", "linux_gcc_64", "win64_msvc2022_64", "android_arm64_v8a", "android_armv7", "ios", "qtpdf",
    "clang_64", "linux_gcc_arm64", "win64_msvc2022_arm64", "android_x86", "android_x86_64"}
  VersionDirectory = "version"
  ThisHost = "linux"
  Spelling <- MCSpelling
  Shelved = {"preview"}
  Offers <- MCOffers
  Commands <- MCCommands
  KnownVersions <- MCKnownVersions
  MaxPublished = 3
INVARIANT DrivesAreReplaced
CHECK_DEADLOCK FALSE
