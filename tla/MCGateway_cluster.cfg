CONSTANTS
  Worker = {w1,w2}
  User = {u1}
  Tab = {t1}
  NoOne = NoOne
  MaxConn = 3
  MaxEvent = 1
  MaxReplay = 2
  MaxConnsPerUser = 1
  ValkeyAvailable = TRUE
  Faults = {"ttl"}
  RateLimit = 2
  MaxCrash = 0
  UserOf <- MCUserOf
SPECIFICATION Spec
INVARIANTS KnownWasGiven RegistryExact
SYMMETRY MCWorkers
CHECK_DEADLOCK FALSE
