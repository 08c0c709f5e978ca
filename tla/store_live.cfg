SPECIFICATION FairSpec
CONSTANTS
  Proc = {p1, p2}
  NoProc = none
  MaxGen = 2
  OpenTries = 2
  Folders = 2
  MaxFaults = 1


PROPERTIES PendingDeleteFinishes
