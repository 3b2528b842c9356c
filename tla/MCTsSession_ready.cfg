CONSTANTS
    r1 = r1
    Calls <- OneCall
    MaxInbound = 1
    DispatchCapacity = 1
    WireCapacity = 1
SPECIFICATION Spec
CHECK_DEADLOCK FALSE
INVARIANT ReadySettles
