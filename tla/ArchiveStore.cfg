SPECIFICATION FairSpec
CONSTANTS
  p1 = p1  p2 = p2  p3 = p3
  d1 = d1  d2 = d2
  Procs = {p1, p2, p3}
  Nobody = Nobody
  Digests = {d1, d2}
  Missing = Missing
  Other = Other
  Damageable = {d1}
INVARIANTS
  DownloadsOnlyWhatIsMissing
  ReturnedIsVerified
PROPERTIES
  IsVerifiedStore
  LocksAreReleased
