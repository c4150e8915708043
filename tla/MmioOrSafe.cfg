CONSTANTS
  W = 3
  MaxNamed = 2
  Programs <- ControlBits
SPECIFICATION Spec
PROPERTY OrEstablishesTheState
