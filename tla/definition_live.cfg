SPECIFICATION FairSpec
CONSTANTS
    Members = {"m1"}
    Uids = {1, 2, 3, 4}
    Versions = {1, 2, 3, 4}
    Undated = {}
    MaxRevision = 2
    Disturbances = {"edit", "switch", "match", "profile", "delete", "create", "instance"}
    MaxChanges = 2
    MaxFaults = 0
PROPERTIES
    EventuallyDistributed
    DeletionReleases
CHECK_DEADLOCK FALSE
