CONSTANTS
  Scans <- MCScans
  ByteBits = 2
  BufBits = 8
  HuffLookahead = 2
  GarbageReads = 2
  GarbageBits = 4
SPECIFICATION Spec
INVARIANTS DamageContained Placed
CHECK_DEADLOCK FALSE
