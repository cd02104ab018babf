CONSTANTS
  Indexes <- MCIndexes
  NbFeeds = 3
  IntBits = 3
SPECIFICATION Spec
INVARIANTS
  TypeOK
  ReferentialIntegrity
  MemoryMirrorsDatabase
  SnapshotIsUnion
PROPERTIES
  RowsNeverVanish
