SPECIFICATION FairSpec
CONSTANTS
  p1 = p1  p2 = p2  p3 = p3
  Procs = {p1, p2}
  Nobody = Nobody
  NoEntry = NoEntry
  Corrupt = Corrupt
  Junk = Junk
  MaxAge = 1
  MaxLoad = 1
  Attempts = 3
  MaxTime = 3
  MaxEdits = 1
INVARIANTS
  LoadsOnlyWhatIsStale
  ReturnsOnlyValid
PROPERTIES
  ServedIsRecent
  LockIsReleased
