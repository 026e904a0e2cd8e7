SPECIFICATION Spec
CONSTANTS
    MainFiles = {}
    NestedFiles = {"n1"}
    Updates = {u1, u2}
    Queries = {q1}
    MaxIdx = 3
    MaxChange = 2
    Dirs <- SomeDirs
    Granularity = 2
INVARIANTS
    QuerySeesImports
    RootCacheCurrent
    SymbolsCurrent
    ClosureReaches
SYMMETRY TaskSymmetry
CHECK_DEADLOCK FALSE
