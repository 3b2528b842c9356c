SPECIFICATION FairSpec
CONSTANTS Conns = {c1, c2, c3}
INVARIANT ClosedMeansReleased
PROPERTIES ServerCloseCompletes ConnectionsEnd
CHECK_DEADLOCK FALSE
