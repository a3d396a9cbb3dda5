\* Two slots: the ring wraps, the order of the values held matters, and both a sender and a receiver can wait.
SPECIFICATION Spec
CONSTANTS
    Tasks = {t1, t2, t3}
    Items = {a, b}
    Capacity = 2
    Undefined = Undefined
    NoTask = NoTask
SYMMETRY Symmetry
INVARIANTS
    RefinementInv
    NoLostWakeup
    WakeOnLiveFrame
    ListsHoldLiveWaiters
    NoStrandedWaiter
PROPERTIES
    ImplementsChannel
