\* Every program; a remainder in the split, more consumers than
\* slots or none, and with none more items than slots.
SPECIFICATION Spec
CONSTANTS
    NumItems = 5
    ProducerCounts = {0, 2}
    ConsumerCounts = {0, 3}
    Capacity = 2
    WorkIters = 1
    MayFail = TRUE
INVARIANTS
    ItemsConserved
    DrainedBeforeStop
    ChecksumMatches
PROPERTIES
    Completes
\* The program ends; that it does is Completes.
CHECK_DEADLOCK FALSE
