CONSTANTS
    r1 = r1
    Calls <- OneCall
    MaxInbound = 2
    WireCapacity = 1
SPECIFICATION Spec
CONSTRAINT MixedTraffic
CHECK_DEADLOCK FALSE
INVARIANTS
    NoOrphanedCall
    RepliesExact
    EndsExact
PROPERTIES
    SettledOnce
    ImplementsContract
