SPECIFICATION Spec
CONSTANTS
    Units = {"go", "svc"}
    Savers = {s1, s2}
    MaxChange = 2
INVARIANTS
    ScopeFileWhole
PROPERTIES
    RestoresOneScope
SYMMETRY SaverSymmetry
CHECK_DEADLOCK FALSE
