CONSTANTS
  MaxCount = 2
  Faults = {"modeFault"}
  BusModes = {"fullDuplex", "halfDuplexTx", "receiveOnly"}
  Calls = {"tx", "rx", "transfer", "pollTx", "pollRx", "pollTransfer", "cancel", "clearError", "clearOverrun", "flush", "enable", "disable"}
  Chaining = FALSE
  Programs <- LivenessPrograms
SPECIFICATION MCFaultsStaySpec
CHECK_DEADLOCK FALSE
PROPERTIES ReportedUnlessRaced CallsReturn
