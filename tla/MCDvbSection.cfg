SPECIFICATION Spec
CONSTANTS
  PacketSize = 9
  MaxSection = 9
  CCs = 4
  SecLens = {3, 4, 9}
  GarbageLens = {3, 5}
  MaxSections = 5
  MaxStarts = 1
  MaxGap = 3
  Stale = FALSE
INVARIANTS
  WholeSections
  Lossless
PROPERTY
  InOrderOnce
CHECK_DEADLOCK FALSE
