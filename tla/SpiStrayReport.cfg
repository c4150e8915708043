CONSTANTS
  MaxCount = 1
  Faults = {"modeFault"}
  BusModes = {"fullDuplex"}
  Calls = {"transfer", "pollTransfer"}
  Chaining = FALSE
SPECIFICATION Spec
INVARIANT OneReportPerOperation
