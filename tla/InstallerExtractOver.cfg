SPECIFICATION Spec
CONSTANTS
  p1 = p1  p2 = p2  p3 = p3
  k1 = k1  k2 = k2
  base = base  base2 = base2  charts = charts  charts2 = charts2
  Charts = Charts  Base = Base
  qtbase = qtbase  qtsvg = qtsvg  qtcharts = qtcharts
  Procs = {p1, p2, p3}
  Nobody = Nobody
  Kits = {k1}
  NoManifest = NoManifest
  Names = {base, base2, charts, charts2}
  Modules = {Base, Charts}
  Releases = {1}
  Archives = {qtbase, qtsvg, qtcharts}
  ArchivesOf <- MCArchivesOf
  KeyArchives = {qtbase}
  Absent = Absent
  Torn = Torn
  Requests <- MCExtractFirst
  LegacyKits = {}
  FaultPhases = {}
SYMMETRY MCSymmetry
INVARIANTS
  SuccessMeansComplete
