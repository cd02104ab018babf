CONSTANTS
  NbThreads = 2
  NbTasks = 3
SPECIFICATION FairSpec
INVARIANTS
  NoTaskForgotten
  AtMostOneIndexThenOneError
  NothingMoreAfterLoop
PROPERTIES
  Termination
  ImplementsFairAggregation
