SPECIFICATION RunSpec
CONSTANT
  Worlds <- MCWorlds
INVARIANT
  GapIsVisible
CHECK_DEADLOCK FALSE
