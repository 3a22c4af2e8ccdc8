SPECIFICATION FairSpec
CONSTANTS
  Sockets = {w1, w2}
  Attentive = {w1}
  Silent = {w1, w2}
  RingSize = 2
  WireSize = 1
  MaxEvents = 5
INVARIANTS
  NoGap
PROPERTIES
  EventuallyDelivered
  NoTaskForGonePeer
CHECK_DEADLOCK FALSE
