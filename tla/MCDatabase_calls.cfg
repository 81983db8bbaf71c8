CONSTANTS
  Thread = {t1, t2}
  t1 = t1
  t2 = t2
  Conn = {c1, c2}
  NoThread = NoThread
  NoConn = NoConn
  MinSize = 0
  MaxSize = 1
  Calls <- MCCalls
  Faults = {"exit", "old", "create"}
SPECIFICATION FairSpec
PROPERTIES CallsReturn LeakIsReclaimed
