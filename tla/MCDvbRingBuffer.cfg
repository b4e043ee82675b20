SPECIFICATION Spec
CONSTANTS
  Size = 4
  MaxBytes = 12
INVARIANTS
  RingInv
PROPERTY
  ImplementsFifo
