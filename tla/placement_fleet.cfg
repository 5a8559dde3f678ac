SPECIFICATION FairSpec
CONSTANTS
    Members = {"m1", "m2"}
    Uids = {1, 2, 3, 4}
    Versions = {1, 2, 3, 4}
    Source = "decision"
    Disturbances = {"profile"}
    MaxLives = 1
    MaxChanges = 1
    MaxFaults = 0
PROPERTY EventuallyConverged
CHECK_DEADLOCK FALSE
