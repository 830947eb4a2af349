CONSTANTS
  d1 = d1
  d2 = d2
  d3 = d3
  x = x
  y = y
  None = None
  Torn = Torn
  Docs = {d1, d2, d3}
  Contents = {x, y}
  Content <- MCContent
  DurableQueue = FALSE
  LockedFiles = TRUE
  DeletesRace = TRUE
  MaxFaults = 1
SPECIFICATION Spec
CHECK_DEADLOCK FALSE
INVARIANTS NothingStranded OneJobPerDocument OneLiveRecordPerContent
PROPERTIES TerminalIsFinal StagesInOrder
SYMMETRY MCSymmetry
