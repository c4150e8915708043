CONSTANTS
  MaxObjects = 2
  MaxBytes = 3
  MaxAborts = 1
  Capacity = 11
  Alignment = 4
  SizeRange = 64
  Requests = {1, 4, 6}
SPECIFICATION FairSpec
INVARIANTS TypeOK ZeroMeansExported FileIsPrefix LeakIsRecorded ScratchIsDisjoint ExportInv
PROPERTY DumpEnds
