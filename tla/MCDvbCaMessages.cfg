SPECIFICATION Spec
SYMMETRY ConnSymmetry
CONSTANTS
  SlotCount = 2
  Conns = {c1, c2}
  MaxFrags = 3
  RxRoom <- Room
INVARIANTS
  MessagesWhole
  BugNeedsSharedId
  NoLostWakeup
CONSTRAINT Untorn
