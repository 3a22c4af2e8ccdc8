SPECIFICATION PageSpec
CONSTANTS
  Sockets = {p1, p2}
  Attentive = {}
  Silent = {}
  RingSize = 1
  WireSize = 1
  MaxEvents = 4
  MaxItems = 3
  MaxPosts = 2
  MaxFailures = 1
  MaxRestarts = 0
SYMMETRY Interchangeable
INVARIANTS
  ViewIsHistory
  StaleOnlyForAReason
PROPERTIES
  RefreshMonotone
CHECK_DEADLOCK FALSE
