\* Three tasks or up to three threads, two rounds; a spawn may fail, and
\* four threads are one too many.
SPECIFICATION Spec
CONSTANTS
    NumWorkers = 3
    Options = {0, 2, 3, 4}
    MaxWorkers = 4
    MaxHandles = 3
    Iterations = 2
    MayFail = TRUE
INVARIANTS
    NoLostUpdate
PROPERTIES
    Completes
\* The program ends; that it does is Completes.
CHECK_DEADLOCK FALSE
