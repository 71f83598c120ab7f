SPECIFICATION Spec
CONSTANTS
  Profile = {p1}
  SlotTime = {1, 2}
  Skipped = {}
  DayLen = 3
  Grace = 1
  RetryAfter = 0
  UtcOffset <- West
  Faults = {}
  MaxTime = 4
  MaxStarts = 2
  MaxUserRuns = 0
  NoRun = NoRun

PROPERTY NoRerun
CHECK_DEADLOCK FALSE
