\* --workers=2 without --threads is one of the cases.
SPECIFICATION Spec
CONSTANTS
    NumWorkers = 3
    Options = {2, 3}
    MaxWorkers = 3
    MaxHandles = 3
    Iterations = 2
    MayFail = TRUE
INVARIANTS
    CountIsGood
\* The program ends; that it does is Completes.
CHECK_DEADLOCK FALSE
