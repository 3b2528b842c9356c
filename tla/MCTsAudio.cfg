CONSTANTS
    FrameBytes = 2
    QueueFrames = 1
    MaxWrite = 3
    MaxOffered = 3
    MaxFrames = 3
    MaxReads = 2
SPECIFICATION FairSpec
CHECK_DEADLOCK FALSE
INVARIANTS
    WritesInOrder
    ReadsExact
PROPERTIES
    
    CloseSettlesAll
