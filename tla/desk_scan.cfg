SPECIFICATION Spec
CONSTANTS
  Kinds = {"scan", "fresh", "profile", "grade", "results", "import", "save", "fullrestore"}
  Sources = {s1, s2}
  MaxOps = 1
  MaxHandles = 2
CHECK_DEADLOCK FALSE
CONSTRAINT Unslipped
INVARIANTS NothingForgotten ShownCurrent
SYMMETRY Symmetry
