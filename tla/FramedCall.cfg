SPECIFICATION Spec
CONSTANTS
  r1 = r1
  r2 = r2
  Requests <- MCRequests
  WellFormed <- MCWellFormed
  MaxAnswer = 2
SYMMETRY Interchangeable
CHECK_DEADLOCK FALSE
INVARIANTS
  NoCrossTalk
  ObservedOnce
  StrictOnShape
