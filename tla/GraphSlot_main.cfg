\* Two worktrees sharing one cache file, two sessions, one nested module.
SPECIFICATION Spec
CONSTANTS
    Dirs = {repo, worktree}
    NestedRoot = nested
    MainSlot = main
    SubSlots = {sub1}
    MainKeys = {plain, tagged}
    WorkspaceKeys = {plain}
    NestedKeys = {plain}
    Queries = {q1}
    MaxChange = 1
    MaxSession = 2
INVARIANTS TypeOK OneBuildPerSlot AnswerIsForQuery OutdatedHasTrigger
CHECK_DEADLOCK FALSE
