SPECIFICATION FairSpec
CONSTANTS
  Proc = {p1, p2, p3}
  NoFile = NoFile
  Faults = {"crash", "torn", "age", "recycle"}
INVARIANT LockSound
PROPERTIES ReleaseOwn AcquireTerminates
CHECK_DEADLOCK FALSE
