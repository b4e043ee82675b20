SPECIFICATION Spec
CONSTANTS
  Tunings <- SmallTunings
  UIntMod = 4
  MaxCommands = 2
  MaxChanges = 3
  MaxErrors = 1
INVARIANTS
  WithinDrift
  StatusCurrent
  FastEnds
  FindsSignal
PROPERTIES
  FastTriesAll
CHECK_DEADLOCK FALSE
