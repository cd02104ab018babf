CONSTANTS
  j1 = j1
  j2 = j2
  Job = {j1, j2}
  Settings <- MCSettings
  Link <- MCLink
  Standing <- MCStanding
  MaxLinks = 2
  MaxNumber = 2
  Unset = Unset
  NoJob = NoJob
SPECIFICATION Spec
INVARIANTS
  SnapshotsAreNotShared
PROPERTIES
  AbortOnlyInARace
  SuccessfulLinkMovesAll
  RemovedIsLinked
CHECK_DEADLOCK FALSE
