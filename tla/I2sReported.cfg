CONSTANTS
  MaxCount = 2
  Faults = {"frameFormat"}
  Systems <- LivenessSystems
SPECIFICATION FairSpec
PROPERTIES EveryOperationIsReported CallsReturn
