CONSTANTS
  d1 = d1
  d2 = d2
  d3 = d3
  x = x
  y = y
  None = None
  Torn = Torn
  Docs = {d1, d2, d3}
  Contents = {x, y}
  Content <- MCContent
  DurableQueue = FALSE
  LockedFiles = FALSE
  DeletesRace = FALSE
  MaxFaults = 0
SPECIFICATION Spec
CHECK_DEADLOCK FALSE
INVARIANTS TypeOK FilesAligned ReadyIndexed NoDuplicateChunks NoOrphanChunks
PROPERTY ImplementsCorpus
