SPECIFICATION FairSpec
CONSTANTS
    Capacity = 1
    HighWater = 1
    MaxMisses = 2
    MaxSends = 2
    MaxArrivals = 2
INVARIANTS WriteOrder InboundExact PongBacklogBounded NoSocketLeak
PROPERTY ConnectionSettles
