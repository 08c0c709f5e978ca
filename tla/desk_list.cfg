SPECIFICATION FairSpec
CONSTANTS
  Kinds = {"load", "detail", "trashlist", "change", "batch", "fix"}
  Sources = {}
  MaxOps = 2
  MaxHandles = 2
CHECK_DEADLOCK FALSE
CONSTRAINT Followed
INVARIANTS ShownCurrent NoLeak FixLocks
PROPERTIES CloseEnds
