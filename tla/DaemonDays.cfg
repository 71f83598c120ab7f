SPECIFICATION FairSpec
CONSTANTS
  Profile = {p1}
  SlotTime = {0}
  Skipped = {}
  DayLen = 2
  Grace = 0
  RetryAfter = 0
  UtcOffset = 0
  Faults = {"notify"}
  MaxTime = 5
  MaxStarts = 2
  MaxUserRuns = 1
  NoRun = NoRun
INVARIANT RetroSound
PROPERTIES NoRerun BatchCompletes
CHECK_DEADLOCK FALSE
