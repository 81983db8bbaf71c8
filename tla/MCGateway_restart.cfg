CONSTANTS
  Worker = {w1}
  User = {u1}
  Tab = {t1}
  NoOne = NoOne
  MaxConn = 2
  MaxEvent = 2
  MaxReplay = 2
  MaxConnsPerUser = 1
  ValkeyAvailable = TRUE
  Faults = {"token","idle","lost"}
  RateLimit = 1
  MaxCrash = 1
  UserOf <- MCUserOf
SPECIFICATION Spec
INVARIANTS TypeOK NumberUnique RetainedIsComing
PROPERTY ImplementsStream
CHECK_DEADLOCK FALSE
