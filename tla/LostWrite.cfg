SPECIFICATION Spec
CONSTANTS
  Keys = {"a", "b"}
  Flushes = {f1, f2}
  Backends = {"opfs", "idb"}
  MaxOps = 4
  MaxReloads = 1
PROPERTIES
  FlushDurable
CHECK_DEADLOCK FALSE
