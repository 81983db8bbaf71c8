CONSTANTS
  Worker = {w1}
  w1 = w1
  Thread = {t1, t2}
  Home <- MCHome
  Nobody = Nobody
  Limit = 1
  MaxMessage = 3
  MaxInterval = 3
  Faults = {}
  MaxFault = 0
SPECIFICATION Spec
INVARIANTS TypeOK DeletedKeyUnused RotationKeepsUp
CHECK_DEADLOCK FALSE
SYMMETRY MCSymmetry
