SPECIFICATION Spec
CONSTANTS
  Calls = {c1, c2}
  c1 = c1
  c2 = c2
  Requests <- MCRequests
  MaxRemote = 1
INVARIANTS
  TopLevelField
CHECK_DEADLOCK FALSE
