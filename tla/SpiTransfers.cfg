CONSTANTS
  MaxCount = 2
  Faults = {"modeFault"}
  BusModes = {"fullDuplex", "halfDuplexTx", "receiveOnly"}
  Calls = {"tx", "rx", "transfer", "pollTx", "pollRx", "pollTransfer", "cancel", "clearError", "clearOverrun", "flush", "enable", "disable"}
  Chaining = TRUE
  Programs <- SafetyPrograms
SPECIFICATION MCSpec
INVARIANTS TypeOK IInv WireInv BufferLedger WireOrder InterruptsBelongToAnOperation
PROPERTIES CompletedTransferIsExact PolledTransferIsExact StrayReportOnlyAfterRace ImplementsTransfer
