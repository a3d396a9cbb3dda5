\* Four rounds; the second player may never be started.
SPECIFICATION PlaySpec
CONSTANTS
    Rounds = 4
    SpawnMayFail = TRUE
INVARIANTS
    Alternate
    SignalIsComing
PROPERTIES
    PlayersFinish
\* The program ends; that it ends well is PlayersFinish.
CHECK_DEADLOCK FALSE
