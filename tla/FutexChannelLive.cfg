\* Capacity 1, three tasks, four calls; the values do not matter here.
SPECIFICATION LiveSpec
CONSTANTS
    Tasks = {t1, t2, t3}
    Items = {a}
    Capacity = 1
    Undefined = Undefined
    NoTask = NoTask
    MaxCalls = 4
CHECK_DEADLOCK FALSE
PROPERTIES
    EveryCallSettles
    CloseReleasesEveryone
