SPECIFICATION FairSpec
CONSTANTS
  Job = {f, a}
  Farmed = {f}
  Unwanted = {a}
  Connector = "sqlite"
  Rank <- Ascending
  Options = {"resume"}
  Faults = {"fail", "die"}
  Alone = TRUE
  MaxGroups = 3
  MaxStages = 0
  NoDoc = NoDoc
PROPERTIES ResumeSound RunEnds
CHECK_DEADLOCK FALSE
