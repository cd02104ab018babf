CONSTANTS
  p = p
  q = q
  Below <- MCBelow
  Disks <- RunningDisks
  Inputs <- OneInput
  ProjectHomes <- HomeIsH
  ContentWriter = TRUE
  RemoveInputs = TRUE
SPECIFICATION Spec
INVARIANTS
  EveryFileIsFound
