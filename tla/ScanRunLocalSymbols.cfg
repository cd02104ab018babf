CONSTANTS
  Number <- MCNumber
  Jobs <- MCJobs
  Plain <- MCPlain
  Tried <- MCTried
  Environments <- MCEnvironments
  Lines <- MCLines
  Env <- Nothing
  Output = "out.db"
  Broken <- MCBroken
  Database <- MCDatabase
  Children <- MCChildren
  Present <- MCPresent
  Sources <- MCSources
  Accepted <- MCAccepted
  MaxRuns = 3
SPECIFICATION Spec
INVARIANT LocalSymbolsAreOff
CHECK_DEADLOCK FALSE
