\* The workspace root and a service, with idle eviction; no cross-references.
SPECIFICATION Spec
CONSTANTS
    auth = auth  mail = mail  dot = dot
    f1 = f1  f2 = f2
    Units <- WithRoot
    RootUnit = dot
    Files <- TwoFiles
    GoFiles = {f1}
    UnitOf <- UnitOfAuth
    Requests = {}
    Needs <- RootClosure
    Callbacks = {t1}
    PullIds = {1}
    Evictor = evictor
    PullSupported = TRUE
    EditorErrors = FALSE
    EditorHangs = FALSE
    EvictEnabled = TRUE
    GenBound = 3
INVARIANTS TypeOK DeliveredUnitsInView AppliedIsDelivered OpenFilesInScope
CHECK_DEADLOCK FALSE
