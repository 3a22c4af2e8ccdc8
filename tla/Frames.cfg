SPECIFICATION FramesSpec
CONSTANTS
  MaxAltered = 2
  Payloads <- MCPayloads
  Decodable <- MCDecodable
  PrefixBytes = 2
  Base = 2
  MaxFrameBytes = 2
  MaxSent = 4
INVARIANTS
  Interoperates
  RegularAgree
  NothingLost
PROPERTIES
  ImplementsChannel
  GoodPeerIsHeard
CHECK_DEADLOCK FALSE
