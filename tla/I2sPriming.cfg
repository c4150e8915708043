CONSTANTS
  MaxCount = 1
  Faults = {}
  Systems <- UnmaskedSystems
SPECIFICATION Spec
INVARIANT NoCounterWraps
