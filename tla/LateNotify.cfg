CONSTANTS
  Calls = 3
  Wrap = 8
  Oversized = {3}
  LateSets <- AnyDelay
SPECIFICATION RingSpec
INVARIANTS
  ServedOnce
CHECK_DEADLOCK FALSE
