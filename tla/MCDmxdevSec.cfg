SPECIFICATION Spec
CONSTANTS
  FeedNum = 2
  FilterNum = 2
  MaxPid = 2
  PesTypes = {}
  Stale = FALSE
  NFilters = 3
  SecParams <- MixedSections
  PesParams <- NoPes
  PesPids = {}
  AddPids = {}
  MaxPids = 1
  StartFails = FALSE
INVARIANTS
  NoOops
  SectionsServed
  NoLeak
  SlotsOwned
CONSTRAINT
  Undisturbed
