CONSTANTS
  MaxCount = 2
  Faults = {"frameFormat"}
  Systems <- SafetySystems
SPECIFICATION Spec
INVARIANTS TypeOK IInv WireInv BufferLedger WireOrder InterruptsAreTheAwaitedOnes
PROPERTIES CompletedTransferIsExact PolledTransferIsExact ImplementsTransfer
