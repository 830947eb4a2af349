\* Either queue; two threads in memory, two documents, two starts of one
\* process.
CONSTANTS
  d1 = d1
  d2 = d2
  d3 = d3
  Documents = {d1, d2}
  Stop = Stop
  Nothing = Nothing
  Backends = {"memory", "redis"}
  Workers = 2
  MaxStarts = 2
SPECIFICATION FairSpec
INVARIANTS TypeOK StoppedBeforeClosed StopDrains HandledOnce JobsKept ServingHasWorkers
PROPERTIES QueuedSettles ThreadsEnd
CHECK_DEADLOCK FALSE
