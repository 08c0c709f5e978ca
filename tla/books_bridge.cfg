SPECIFICATION FairBoth
CONSTANTS
  resp = resp
  score = score
  Name <- MCName
  Graded <- MCGraded
  Shapes <- MCShapes
  NoName = noname
  MaxGen = 3
  MaxEdit = 2
  MaxCopies = 1
  MaxFaults = 1
  Progress <- MCProgress
  MaxRuns = 2
  MaxQueue = 2
CHECK_DEADLOCK FALSE
INVARIANTS SettledEditsKept NoStrandedBook EndShownOnce
PROPERTIES RepairLeavesEdits FolderCatchesUp CloseReported
