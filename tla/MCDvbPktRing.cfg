SPECIFICATION Spec
CONSTANTS
  Size = 22
  Word = 67
  Radix = 4
  LinkBufSize = 4
  FragLens = {2, 4}
  MaxPkts = 7
CONSTRAINT
  Untorn
INVARIANTS
  NextIsPacket
PROPERTY
  ImplementsPktList
