\* An empty buffer: every exchange is a direct handoff.
SPECIFICATION Spec
CONSTANTS
    Tasks = {t1, t2, t3}
    Items = {a, b}
    Capacity = 0
    Undefined = Undefined
    NoTask = NoTask
SYMMETRY Symmetry
INVARIANTS
    IndInv
