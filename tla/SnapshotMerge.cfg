CONSTANTS
  p = p
  q = q
  Below <- MCBelow
  Disks <- MCDisks
  Inputs <- MCInputs
  ProjectHomes <- MCHomes
  ContentWriter = TRUE
  RemoveInputs = TRUE
SPECIFICATION Spec
INVARIANTS
  TypeOK
  ReferentialIntegrity
  MergedIsUnion
  NothingRemovedUnmerged
  LookUpsFailOnlyInARace
