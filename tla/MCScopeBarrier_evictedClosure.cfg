\* Cross-references and eviction together.
SPECIFICATION Spec
CONSTANTS
    auth = auth  mail = mail  dot = dot
    f1 = f1  f2 = f2
    Units <- TwoUnits
    RootUnit = dot
    Files <- TwoFiles
    GoFiles = {f1, f2}
    UnitOf <- UnitOfTwo
    Requests = {r1}
    Needs <- MailOrBoth
    Callbacks = {t1}
    PullIds = {1}
    Evictor = evictor
    PullSupported = TRUE
    EditorErrors = FALSE
    EditorHangs = FALSE
    EvictEnabled = TRUE
    GenBound = 3
INVARIANTS CrossRefSeesClosure
CHECK_DEADLOCK FALSE
