\* One document, one failed write, and a client that deletes only when nothing
\* is in flight: the first document's FAISS write fails, and its deletion finds
\* no corpus and leaves its chunks.
CONSTANTS
  d1 = d1
  d2 = d2
  d3 = d3
  x = x
  y = y
  None = None
  Torn = Torn
  Docs = {d1}
  Contents = {x, y}
  Content <- MCContent
  DurableQueue = FALSE
  LockedFiles = FALSE
  DeletesRace = FALSE
  MaxFaults = 1
SPECIFICATION Spec
INVARIANT NoOrphanChunks
CHECK_DEADLOCK FALSE
