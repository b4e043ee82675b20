SPECIFICATION Spec
CONSTANTS
  PktSize = 3
  Streams <- SmallStreams
INVARIANTS
  BufferHolds
  OnceInOrder
  AllDelivered
  Relocks
PROPERTY
  LoopAdvances
CHECK_DEADLOCK FALSE
