\* Every document of six characters out of three, under four configurations.
CONSTANTS
  x = x
  y = y
  Blank = Blank
  NoPiece = NoPiece
  Length = 6
  Characters = {x, y, Blank}
  Documents <- MCDocuments
  Configs <- MCConfigs
SPECIFICATION Spec
INVARIANT NothingEverDropped
CHECK_DEADLOCK FALSE
