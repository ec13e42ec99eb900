SPECIFICATION FairSpec
CONSTANTS
  Threads = {t1, t2}
  Slices = {s1}
  Urls = {w1}
  Hubs = {h1}
  Tagged = {h1}
  Default = Default
  None = None
  DeletesInUse = FALSE
INVARIANTS ImageTypeOK OneBuilder ReleasesItsOwn RunLockGivenBack
PROPERTY WaitersServed
CHECK_DEADLOCK FALSE
