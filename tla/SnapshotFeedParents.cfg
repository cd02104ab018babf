CONSTANTS
  Indexes <- MCIndexes
  NbFeeds = 2
  IntBits = 3
SPECIFICATION Spec
INVARIANT ParentsExist
