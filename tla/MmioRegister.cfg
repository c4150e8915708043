CONSTANTS
  W = 4
  MaxNamed = 2
  Programs <- AllPrograms
SPECIFICATION Spec
INVARIANTS TypeOK RegisterInv
PROPERTIES ImplementsFieldStore StoresKeepOtherFields CommitLosesOnlyWhatChanged
