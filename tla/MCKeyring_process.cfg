CONSTANTS
  i1 = i1
  i2 = i2
  i3 = i3
  Instance = {i1, i2, i3}
  Process = {p1, p2, p3}
  Home <- MCOneProcess
  Role <- MCMixed
  MaxVersion = 4
  MaxSecret = 6
  FoundVersion = 2
  FoundPepper = FALSE
  Rotations = TRUE
  Fallible = FALSE
SPECIFICATION Spec
INVARIANTS TypeOK SealedOpens SealedOpensNow
CHECK_DEADLOCK FALSE
