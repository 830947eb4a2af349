CONSTANTS
  d1 = d1
  d2 = d2
  d3 = d3
  x = x
  y = y
  None = None
  Torn = Torn
  Docs = {d1, d3}
  Contents = {x, y}
  Content <- MCContent
  DurableQueue = FALSE
  LockedFiles = FALSE
  DeletesRace = TRUE
  MaxFaults = 1
SPECIFICATION FairSpec
CHECK_DEADLOCK FALSE
PROPERTY UploadsSettle
