SPECIFICATION LifecyclesSpec
CONSTANTS
  Starter = {s1, s2}
  Stopper = {x1}
  BoardStart = {s1}
  Board = Board
  NoFile = NoFile
  NoPid = NoPid
  Faults = {"crash", "spawn", "stall", "slowBoot", "unkillable"}
  Request = {r}
  None = None
  MaxDirs = 2
  MaxSaves = 1
  MaxFails = 1
  Name = {a}
  Nothing = Nothing
  MaxAnswers = 2
  MaxForeign = 1
  MaxErrors = 1
  MaxVisits = 1
  Key = {"notion", "telegram"}
  Missing = Missing
  Files <- EnvFiles
  MaxWrites = 2
  MaxFaults = 1
INVARIANTS  LifeSound WizardSound MachineSound
PROPERTY  StepsSound
CHECK_DEADLOCK FALSE
