CONSTANTS
    b1 = b1
    b2 = b2
    b3 = b3
    narrow = narrow
    wide = wide
    None = None
    Binders <- ThreeBinders
    Formats <- TwoFormats
SPECIFICATION FairSpec
CHECK_DEADLOCK FALSE
INVARIANTS
    SoleOwner
    NoChannelLeak
PROPERTIES
    PumpsEnd
    NoLatePump
