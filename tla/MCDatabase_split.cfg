CONSTANTS
  Thread = {t1, t2}
  t1 = t1
  t2 = t2
  Conn = {c1, c2, c3}
  NoThread = NoThread
  NoConn = NoConn
  MinSize = 1
  MaxSize = 1
  Calls <- MCCalls
  Faults = {"metadata"}
SPECIFICATION Spec
INVARIANTS TransactionsAreWhole
