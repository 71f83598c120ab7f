SPECIFICATION Spec
CONSTANTS
  Parts = {"jobs", "registry", "decisions", "notice", "move", "release"}
  None = None
  Unset = Unset
  Inputs <- AllInputs
  Fuzzy <- FuzzyOf
  MaxStages = 1
  Nil = Nil
  Absent = Absent
  Company = {"c1", "c2"}
  Curated = {"c2"}
  LaneOrder <- Wired
  MaxProbes = 1
  MaxProbeFailures = 2
  StaleAfter = 2
  ReprobeDays = 1
  MaxNew = 1
  CardDropped = {"c1"}
  MaxDay = 3
  Job = {j1, j2}
  Nothing = Nothing
  MaxAttempts = 2
  PageSize = 1
  PassedDays = 0
  UntouchedDays = 0
  MaxPages = 2
  MostRuns = 2
  MaxEdits = 1
  LastDay = 1
  Profile = {"a", "b"}
  MaxCalls = 2
  MaxWrites = 2
  MaxStops = 1
  Failure = {"farm", "sync"}
  Day = 2
  MaxHours = 4
  MaxRuns = 3
  MaxFaults = 2
  MaxTries = 4
  MaxMoves = 3
SYMMETRY Alike
INVARIANTS PagesSound RegistrySound DecisionsSound NoticeSound MoveSound ReleaseSound
CHECK_DEADLOCK FALSE
