CONSTANTS
  MaxCount = 2
  Faults = {}
  BusModes = {"fullDuplex"}
  Calls = {"transfer"}
  Chaining = FALSE
SPECIFICATION FairSpec
CHECK_DEADLOCK FALSE
PROPERTY EveryOperationIsReported
