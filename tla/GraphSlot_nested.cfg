\* Liveness, with a nested module whose slot is dropped and re-created.
SPECIFICATION FairSpec
CONSTANTS
    Dirs = {repo}
    NestedRoot = nested
    MainSlot = main
    SubSlots = {sub1, sub2}
    MainKeys = {plain}
    WorkspaceKeys = {plain}
    NestedKeys = {plain, tagged}
    Queries = {q1}
    MaxChange = 1
    MaxSession = 1
PROPERTY StaleRefreshed
CHECK_DEADLOCK FALSE
