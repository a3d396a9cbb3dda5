\* No task and three tasks, a tree of seven nodes, a chain of four links.
SPECIFICATION Spec
CONSTANTS
    TaskCounts = {0, 3}
    Depth = 2
    ChainLength = 3
    MayFail = TRUE
INVARIANTS
    ReportMeansAllRan
    CountIsProof
    NobodyOutlivesItsGroup
PROPERTIES
    CompletesUnlessNull
\* The programs end; that they do is CompletesUnlessNull.
CHECK_DEADLOCK FALSE
