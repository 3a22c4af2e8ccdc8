SPECIFICATION Spec
CONSTANTS
  Kinds <- MCKinds
  Kind <- MCKind
  Orders <- MCOrders
  Calls <- MCCalls
  Declared <- MCDeclared
  Known <- MCKnown
INVARIANTS
  SentOnceAsDeclared
  NoneAvailableIsTrue
  PreferenceKept
CHECK_DEADLOCK FALSE
