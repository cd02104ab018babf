CONSTANTS
  Thread = {t1, t2}
  Path = {"a", "b", "c"}
  NbResults = 2
SPECIFICATION Spec
INVARIANTS
  IdsAreDense
  NeverOutOfRange
  PathsAreThoseIdentified
CHECK_DEADLOCK FALSE
