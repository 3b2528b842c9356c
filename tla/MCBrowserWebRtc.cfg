SPECIFICATION FairSpec
CONSTANTS
    PlaybackFrames = 2
    MaxFrames = 3
    MaxClears = 2
    MaxStarts = 2
    MaxCaptures = 1
    Claimants = {k1, k2}
INVARIANTS NoStalePlayback PlaybackAccounted CloseReleases RtcReleases
PROPERTY BrowserSettles
CHECK_DEADLOCK FALSE
