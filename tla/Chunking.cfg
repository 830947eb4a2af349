\* Every document of five characters out of three, under four configurations.
CONSTANTS
  x = x
  y = y
  Blank = Blank
  NoPiece = NoPiece
  Length = 5
  Characters = {x, y, Blank}
  Documents <- MCDocuments
  Configs <- MCConfigs
SPECIFICATION Spec
INVARIANTS LocateFinds RawTextKept NoShortChunks
CHECK_DEADLOCK FALSE
