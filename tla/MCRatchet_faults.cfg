CONSTANTS
  Worker = {w1}
  w1 = w1
  Thread = {t1}
  Home <- MCHome
  Nobody = Nobody
  Limit = 1
  MaxMessage = 3
  MaxInterval = 4
  Faults = {"crash", "rotation", "split"}
  MaxFault = 1
SPECIFICATION Spec
INVARIANTS OneOpen RotationKeepsUp
CHECK_DEADLOCK FALSE
