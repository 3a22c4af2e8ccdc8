SPECIFICATION PageFairSpec
CONSTANTS
  Sockets = {p1, p2}
  Attentive = {}
  Silent = {p1}
  RingSize = 1
  WireSize = 1
  MaxEvents = 2
  MaxItems = 3
  MaxPosts = 1
  MaxFailures = 0
  MaxRestarts = 1
INVARIANTS
  StaleOnlyForAReason
PROPERTIES
  RefreshedPagesConverge
CHECK_DEADLOCK FALSE
