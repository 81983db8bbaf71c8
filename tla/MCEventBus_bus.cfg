CONSTANTS
  Worker = {w1, w2}
  Event = {e1, e2}
  Sub = {s1, s2}
  Emitter = {w1}
  Nobody = Nobody
  QueueMax = 1
  SubsMax = 2
  Unnamed = {w2}
  Faults = {"publish", "listener", "quiet"}
SPECIFICATION FairSpec
INVARIANTS TypeOK GatewayOnce NothingSilentlyLost
PROPERTIES QueuedIsDelivered SiblingsGetIt
CHECK_DEADLOCK FALSE
