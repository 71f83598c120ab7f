SPECIFICATION Spec
CONSTANTS
  None = None
  Recent = 1
  MaxRuns = 2
  MaxDay = 2
  MaxTtl = 1
  MaxEdits = 1
  MaxFails = 1
  Profile = {p, q}
  NoSlot = NoSlot
  Slots = {1, 3}
  Grace = 1
  LastTime = 5
  MaxDate = 1
  MaxPresses = 3
  MaxPutFails = 1
  Job = {j1, j2}
  Absent = Absent
  MaxTyped = 2
  MaxOutside = 1
  MaxSends = 2
  MaxReads = 3
  MaxRefused = 1
  Page = {"search", "results"}
  Id = {1, 2}
  NoHeading = NoHeading
  Imports <- ImportedTexts
  MaxWrites = 3
  Prof = {"p", "q"}
  Opened = {"schedule", "delivery", "jobs", "raw"}
  NoText = NoText
  MaxChanges = 2
  MaxForeign = 1
  MaxSaves = 2
  MaxRefusals = 1
  MaxNavs = 2
  Bad <- Unwanted
INVARIANTS  SavedIsRead ScheduleSound JobsSound CleanupSound
PROPERTY StepsSound
CHECK_DEADLOCK FALSE
