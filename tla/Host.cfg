SPECIFICATION HostSpec
CONSTANTS
  Keys = {"a", "b"}
  Flushes = {1, 2}
  Backends = {"opfs", "idb"}
  MaxOps = 4
  MaxReloads = 1
  Calls = 3
  Wrap = 2
  Oversized = {3}
  LateSets <- AnyDelay
INVARIANTS
  RegionsExclusive
  DiskCatchesUp
  RenameKeepsContent
PROPERTIES
  NothingAfterTearDown
  ImplementsRpc
  RejectionReported
  FlushEnds
CHECK_DEADLOCK FALSE
