\* Two pushers, two poppers, a ring of two slots whose counters wrap after two rounds.
SPECIFICATION Spec
CONSTANTS
    Pushers = {p1, p2}
    Poppers = {c1, c2}
    Items = {a, b}
    Capacity = 2
    CounterMod = 4
    Nobody = Nobody
    Undefined = Undefined
INVARIANTS
    PermitsConserved
    AccessExclusive
PROPERTIES
    ImplementsChannel
    NobodyStranded
