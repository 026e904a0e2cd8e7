SPECIFICATION Spec
CONSTANTS
    d1 = d1
    r1 = r1
    r2 = r2
    u1 = u1
    Docs = {d1}
    GoDocs = {d1}
    Requests = {r1, r2}
    DocOf <- RequestDocs
    Units = {u1}
    UnitOf <- DocUnits
    MaxSession = 2
    MaxVersion = 2
INVARIANTS
    UnsentReachable
PROPERTIES
    InOrder
    HeldRequestsEnd
    PumpFree
CHECK_DEADLOCK FALSE
