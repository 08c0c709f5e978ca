SPECIFICATION StockSpec
CONSTANTS
  Proc = {p1, p2}
  NoProc = none
  Names <- MCNames
  Content = {x}
  None = nothing
  Tune = {plain, other}
  Plain = plain
  Rev <- MCRev
  Budget = 3
CHECK_DEADLOCK FALSE
PROPERTIES SaveIsShown
