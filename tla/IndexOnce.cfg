CONSTANTS
  Thread = {t1, t2}
  NbUnits = 3
  File = {1, 2}
  InProject = {1}
  Inclusion = {"header", "header again", "system header"}
  FileOf <- MCFileOf
  Addr = {1, 2, 3}
SPECIFICATION Spec
INVARIANTS
  DisjointWhileLive
  SharedOnlyByReuse
  AssignedIsIndexed
  CachedAnswersHold
  ContextOutlivesNoFinish
