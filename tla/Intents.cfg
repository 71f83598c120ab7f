SPECIFICATION BothSpec
CONSTANTS
  Profile = {p1}
  NoRun = NoRun
  MaxIntents = 3
  MaxRuns = 2
  MaxStarts = 2
  CanCrash = TRUE
  None = None
  Daemons = {"running", "stopped"}
  Silences = TRUE
  MaxRows = 2
  MaxRequests = 1
  MaxFails = 1
INVARIANTS IntentsSound 
PROPERTY PromiseKept
CHECK_DEADLOCK FALSE
