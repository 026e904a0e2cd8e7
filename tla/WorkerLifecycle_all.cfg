\* Two concurrent queries over up to two worker processes.
SPECIFICATION FairSpec
CONSTANTS
    Requests = {r1, r2}
    WorkerWarm = TRUE
    MaxGen = 2
INVARIANTS TypeOK HoldsCountHolders WaiterHasWaker NoOrphanProcess IdleWorkerHasTimer
PROPERTIES LoadingEnds IdleWorkerStops
CHECK_DEADLOCK FALSE
