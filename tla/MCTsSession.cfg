CONSTANTS
    r1 = r1
    Calls <- OneCall
    MaxInbound = 3
    DispatchCapacity = 1
    WireCapacity = 1
SPECIFICATION Spec
CHECK_DEADLOCK FALSE
INVARIANTS
    NoOrphanedCall
    RepliesExact
    OutcomeExact
PROPERTIES
    ImplementsContract
    DispatchIsQueue
CONSTRAINT Traffic
ACTION_CONSTRAINT QuietAfterStop
