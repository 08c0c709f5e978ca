SPECIFICATION Spec
CONSTANTS
  Proc = {p1, p2}
  NoProc = none
  MaxGen = 2
  OpenTries = 2
  Folders = 1
  MaxFaults = 1
INVARIANTS NextListingFinishes
