SPECIFICATION FairSpec
CONSTANTS
  SlotCount = 1
  MaxCams = 3
  MaxChanges = 2
INVARIANTS
  RunningIsCurrent
PROPERTIES
  Settles
  ComesUp
