CONSTANTS
    p1 = p1
    p2 = p2
    p3 = p3
    c1 = c1
    c2 = c2
    Producers <- MCProducers
    Consumers <- MCConsumers
    Capacity = 2
    MaxPush = 7
SYMMETRY Symmetric
SPECIFICATION Spec
INVARIANTS
    ParkedOnlyWhenBlocked
    CallOrder
    Accounted
