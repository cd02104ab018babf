CONSTANTS
  NbThreads = 2
  NbTasks = 2
SPECIFICATION Spec
INVARIANT AggregatesEveryResult
