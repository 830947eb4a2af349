\* As WorkerStops.cfg, with three documents: either queue, two threads in
\* memory, two starts of one process. It takes some minutes.
CONSTANTS
  d1 = d1
  d2 = d2
  d3 = d3
  Documents = {d1, d2, d3}
  Stop = Stop
  Nothing = Nothing
  Backends = {"memory", "redis"}
  Workers = 2
  MaxStarts = 2
SPECIFICATION FairSpec
INVARIANTS TypeOK StoppedBeforeClosed StopDrains HandledOnce JobsKept ServingHasWorkers
PROPERTIES QueuedSettles ThreadsEnd
CHECK_DEADLOCK FALSE
