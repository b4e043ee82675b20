CONSTANTS
  MaxEvent = 2
  MaxAdds = 2
  MaxOpens = 3
SPECIFICATION FairSpec
INVARIANTS SemBalanced ThreadRuns OpensAgain
PROPERTIES EventsRead Served
CHECK_DEADLOCK FALSE
