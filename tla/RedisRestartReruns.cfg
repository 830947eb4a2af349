CONSTANTS
  d1 = d1
  d2 = d2
  d3 = d3
  x = x
  y = y
  None = None
  Torn = Torn
  Docs = {d1}
  Contents = {x, y}
  Content <- MCContent
  DurableQueue = TRUE
  LockedFiles = FALSE
  DeletesRace = FALSE
  MaxFaults = 1
SPECIFICATION Spec
CHECK_DEADLOCK FALSE
PROPERTY TerminalIsFinal
