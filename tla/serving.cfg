SPECIFICATION FairSpec
CONSTANTS
    Members = {1, 2}
    MaxReady = 3
    MaxDisturbances = 2
INVARIANTS
    TypeOK
    ShareIsKept
PROPERTIES
    EventuallyWatched
    EventuallyRouted
CHECK_DEADLOCK FALSE
