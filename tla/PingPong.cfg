\* One pair (--pairs=0) or two that bounce one, three or four messages each (one: seven or eight); every program, and a group.async that may run its task inside the call.
SPECIFICATION Spec
CONSTANTS
    Totals = {1, 7, 8}
    PairsOptions = {0, 2}
    MayFail = TRUE
INVARIANTS
    OneMessageInFlight
    NoSendRefused
    BouncesItsShare
PROPERTIES
    CompletesIfConcurrent
\* The program ends; that it does is Completes.
CHECK_DEADLOCK FALSE
