SPECIFICATION MCSpec
CONSTANTS
  Proc = {p1, p2}
  NoProc = none
  Names <- MCNames
  Content = {"x", "y"}
  None = nothing
  Tune = {plain}
  Plain = plain
  Rev <- MCRev
  Budget = 2
  Runner = p1
  Exams <- MCExams
CHECK_DEADLOCK FALSE
INVARIANTS BringTellsAll
PROPERTIES  DefaultFollows NoPageUndone
