\* Every small drawing, the seeded ones and a plain cycle, whatever nodes answer, fail
\* at or are stopped at.
SPECIFICATION FairSpec
CONSTANTS
    Graphs <- AllDrawings
    Limit = 41
CHECK_DEADLOCK FALSE
INVARIANTS
    TypeOK
    LoopCountsAreTrue
    LowBranchBounded
    LimitIsForPlainCycles
    CompletedDroppedNothing
    JudgesItsPredecessor
    HandoffReachesNextAgent
    EditorKeepsMeaning
PROPERTIES
    RunEnds
