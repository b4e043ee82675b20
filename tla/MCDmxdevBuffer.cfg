SPECIFICATION FairSpec
CONSTANTS
  Size = 4
  MaxBytes = 9
  OneShot = FALSE
  Timeout = TRUE
INVARIANTS
  DirtyOnlyUnderError
  CopyUndisturbed
  NoLostWakeup
PROPERTY
  Wakes
