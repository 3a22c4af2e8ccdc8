SPECIFICATION Spec
CONSTANTS
  Calls = {c1, c2}
  c1 = c1
  c2 = c2
  Requests <- MCRequests
  MaxRemote = 1
INVARIANTS
  QueuedOnce
  ReturnsOwnOrLater
  FiledAsNamed
CHECK_DEADLOCK FALSE
