CONSTANTS
  MaxCount = 2
  Faults = {}
  Systems <- SlaveSystems
SPECIFICATION Spec
PROPERTY UnderrunIsReported
