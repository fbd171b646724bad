SPECIFICATION MSpec
CONSTANTS
  p1 = p1  p2 = p2
  desktop = desktop  mobile = mobile  legacy = legacy  native = native  foreign = foreign
  base = base  charts = charts  Base = Base  Charts = Charts
  qtbase = qtbase  qtsvg = qtsvg  qtcharts = qtcharts
  Procs = {p1, p2}
  Nobody = Nobody
  Kits = {desktop, mobile, legacy}
  NoManifest = NoManifest
  Names = {base, charts}
  Modules = {Base, Charts}
  Releases = {1, 2}
  Archives = {qtbase, qtsvg, qtcharts}
  ArchivesOf <- MCArchivesOf
  KeyArchives = {qtbase}
  Absent = Absent
  Torn = Torn
  Requests <- MCRequests
  LegacyKits = {desktop, legacy}
  FaultPhases = {"waiting", "reconcile", "fetch", "extract", "extracting", "relocate", "commit", "release"}
  Others = {native, foreign}
  Shape <- MCShape
  Build = Build
  NoHost = NoHost
INVARIANTS
  LinkedToTheHost
  CompleteIfRecorded
PROPERTIES
  HostUnchangedWhileUsed
SYMMETRY AnyProcess
