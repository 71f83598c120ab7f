SPECIFICATION Spec
CONSTANTS
  Url = {1, 2}
  NoInventory = {}
  Card = {c1, c2}
  MaxPages = 2
  Cap = 2
  Trip = 2
  MaxFires = 3
  MaxDays = 2
  Faults = {{"die", "disk"}, {"die", "edit"}}
SYMMETRY Symmetry
INVARIANTS LaneSound LostNeedsCause
PROPERTY OpenedOnce
CHECK_DEADLOCK FALSE
