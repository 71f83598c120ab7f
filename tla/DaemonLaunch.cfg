SPECIFICATION Spec
CONSTANTS
  Profile = {p1}
  SlotTime = {0, 1}
  Skipped = {}
  DayLen = 4
  Grace = 1
  RetryAfter = 0
  UtcOffset = 0
  Faults = {"sleep", "network", "lost", "crash"}
  MaxTime = 3
  MaxStarts = 2
  MaxUserRuns = 1
  NoRun = NoRun
INVARIANT DaySound
PROPERTY LaunchSound
CHECK_DEADLOCK FALSE
