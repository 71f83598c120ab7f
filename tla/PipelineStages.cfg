SPECIFICATION Spec
CONSTANTS
  Job = {f, a}
  Farmed = {f}
  Unwanted = {}
  Connector = "notion"
  Rank <- Ascending
  Options = {"resume", "dry"}
  Faults = {"fail", "omit", "page"}
  Alone = TRUE
  MaxGroups = 2
  MaxStages = 1
  NoDoc = NoDoc
INVARIANT StagesSound
PROPERTY NoResend
CHECK_DEADLOCK FALSE
