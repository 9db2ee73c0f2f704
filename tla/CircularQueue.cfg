SPECIFICATION Spec
CONSTANTS
  Element = {a, b}
  Capacity = 3
PROPERTIES
  RingIsFifo
