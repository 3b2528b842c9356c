CONSTANTS
    r1 = r1
    Calls <- OneCall
    MaxInbound = 0
    WireCapacity = 1
SPECIFICATION FairSpec
CHECK_DEADLOCK FALSE
PROPERTIES
    StopReleasesAll
