SPECIFICATION Spec
CONSTANTS
  FeedNum = 2
  FilterNum = 2
  MaxPid = 2
  PesTypes = {"video"}
  Stale = FALSE
  NFilters = 2
  SecParams <- OneSection
  PesParams <- MultiPes
  PesPids = {1}
  AddPids = {1}
  MaxPids = 2
  StartFails = TRUE
INVARIANTS
  NoOops
  SectionsServed
  PesServed
  NoLeak
CONSTRAINT
  Undisturbed
