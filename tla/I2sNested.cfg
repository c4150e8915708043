CONSTANTS
  MaxCount = 2
  Faults = {}
  Systems <- NestedSystems
SPECIFICATION Spec
INVARIANT NoBufferIsLeft
