CONSTANTS
  i1 = i1
  i2 = i2
  i3 = i3
  Instance = {i1, i2, i3}
  Process = {p1, p2, p3}
  Home <- MCOwnProcess
  Role <- MCManagers
  MaxVersion = 3
  MaxSecret = 5
  FoundVersion = 0
  FoundPepper = TRUE
  Rotations = TRUE
  Fallible = TRUE
SPECIFICATION Spec
INVARIANT PepperStable
CHECK_DEADLOCK FALSE
