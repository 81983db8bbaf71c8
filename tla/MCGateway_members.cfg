CONSTANTS
  Worker = {w1,w2}
  User = {u1}
  Tab = {t1}
  NoOne = NoOne
  MaxConn = 2
  MaxEvent = 0
  MaxReplay = 2
  MaxConnsPerUser = 2
  ValkeyAvailable = TRUE
  Faults = {}
  RateLimit = 2
  MaxCrash = 0
  UserOf <- MCUserOf
SPECIFICATION Spec
INVARIANT OneMemberPerSession
CHECK_DEADLOCK FALSE
