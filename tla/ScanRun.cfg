CONSTANTS
  Number <- MCNumber
  Jobs <- MCJobs
  Plain <- MCPlain
  Tried <- MCTried
  Environments <- MCEnvironments
  Lines <- MCLines
  Env <- Nothing
  Output = "out.db"
  Broken <- MCBroken
  Database <- MCDatabase
  Children <- MCChildren
  Present <- MCPresent
  Sources <- MCSources
  Accepted <- MCAccepted
  MaxRuns = 3
SPECIFICATION Spec
INVARIANTS
  PathsAreFree
  SuccessLeavesOwnSnapshot
  NoStaleHeader
  EveryCommandOnce
  SourcesAreFound
  WordsAreUnderstood
PROPERTIES
  NothingTouchedUnasked
CHECK_DEADLOCK FALSE
