SPECIFICATION Spec
CONSTANTS
  PacketSize = 9
  MaxSection = 9
  CCs = 4
  SecLens = {3, 4, 9}
  GarbageLens = {3, 5}
  MaxSections = 5
  MaxStarts = 2
  MaxGap = 3
  Stale = FALSE
INVARIANT
  WholeSections
CHECK_DEADLOCK FALSE
