SPECIFICATION Spec
CONSTANTS
  Parts = {"chrome", "alert"}
  None = None
  Proc = {"p1", "p2"}
  MaxChromes = 3
  LockVisible = TRUE
  ProviderCases = {"user", "keep", "crash", "slow", "write", "pidReuse", "noPid"}
  Profiles = 2
  Retry = 1
  MaxChanges = 3
  MaxFails = 1
INVARIANTS  AlertSound
PROPERTIES LaunchSettles AlertDelivered
CHECK_DEADLOCK FALSE
