\* Cross-references without eviction; the editor may hang or answer with an error,
\* and neither it nor gopls is assumed to answer.
SPECIFICATION FairSpec
CONSTANTS
    auth = auth  mail = mail  dot = dot
    f1 = f1  f2 = f2
    Units <- TwoUnits
    RootUnit = dot
    Files = {f1}
    GoFiles = {f1}
    UnitOf <- UnitOfOne
    Requests = {r1}
    Needs <- MailOrBoth
    Callbacks = {t1}
    PullIds = {1, 2}
    Evictor = evictor
    PullSupported = TRUE
    EditorErrors = TRUE
    EditorHangs = TRUE
    EvictEnabled = FALSE
    GenBound = 4
INVARIANTS CrossRefSeesClosure UnpublishedHasTrigger
PROPERTIES UnitsAsShown NoForceWhilePullPending EventuallyPublished BarrierCatchesUp
CHECK_DEADLOCK FALSE
