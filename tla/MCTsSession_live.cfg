CONSTANTS
    r1 = r1
    Calls <- OneCall
    MaxInbound = 1
    DispatchCapacity = 1
    WireCapacity = 1
SPECIFICATION FairWireSpec
CHECK_DEADLOCK FALSE
PROPERTIES
    StopsAndCallsReturn
