SPECIFICATION LifeSpec
CONSTANTS
  Users = {u1, u2}
  Reads <- MCReads
  Origins = {"scan", "import", "fixed20"}
  Changed <- MCChanged
  Targets = {"A", "B"}
  Keys <- MCKeys
  MaxRevision = 4
  None = None
  Proc = {p1, p2}
  NoProc = none
  MaxGen = 2
  MaxBirths = 3
  MaxFaults = 2
SYMMETRY Symmetry
INVARIANTS ReadsBack ReadIsKept ShowsItself OneHome
PROPERTIES DoesWhatWasAsked CalmBirths
CHECK_DEADLOCK FALSE
