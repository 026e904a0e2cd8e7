\* Eviction racing a reservation.
SPECIFICATION Spec
CONSTANTS
    Requests = {r1, r2}
    WorkerWarm = TRUE
    MaxGen = 2
INVARIANT HeldWorkerNotEvicted
CHECK_DEADLOCK FALSE
