\* Two engines, built or not, two rounds, every matrix and all three in a row; servers that fail, drivers that hang, Ctrl-C.
SPECIFICATION Spec
CONSTANTS
    Rounds = 2
    NumEngines = 2
    Scenarios <- MCScenarios
    MayFail = TRUE
    MayHang = TRUE
INVARIANTS
    MeasuredAlone
    Interleaved
    NoOrphan
PROPERTIES
    Ends
\* The harness ends; that it does is Ends.
CHECK_DEADLOCK FALSE
