CONSTANTS
  Worker = {w1}
  User = {u1}
  Tab = {t1}
  NoOne = NoOne
  MaxConn = 3
  MaxEvent = 0
  MaxReplay = 2
  MaxConnsPerUser = 1
  ValkeyAvailable = TRUE
  Faults = {"token","lost"}
  RateLimit = 2
  MaxCrash = 0
  UserOf <- MCUserOf
SPECIFICATION FairSpec
INVARIANTS ReadyOwnsSession OneMemberPerSession
PROPERTIES AbandonedIsRemoved ClosedIsSeen HandshakeCompletes
CHECK_DEADLOCK FALSE
