------------------------- MODULE MCWorkerLifecycle -------------------------
EXTENDS WorkerLifecycle
CONSTANTS d1, d2, d3
=============================================================================
