SPECIFICATION Spec
CONSTANTS
  Proc = {p1, p2}
  NoProc = none
  MaxGen = 3
  OpenTries = 2
  Folders = 2
  MaxFaults = 2
SYMMETRY Symmetry
INVARIANTS LeasePinned OnlyLeftoversBreak CurrentReadable IInv
PROPERTIES PointerAdvances NoMoveUnderLease ImplementsAuthority
