SPECIFICATION Spec
CONSTANTS
    Members = {"m1"}
    Uids = {1, 2, 3, 4}
    Versions = {1, 2, 3, 4}
    Undated = {}
    MaxRevision = 1
    Disturbances = {"edit", "switch", "match", "profile", "delete", "create", "instance"}
    MaxChanges = 0
    MaxFaults = 0
PROPERTIES
    FinalizeRemovesEverywhere
CHECK_DEADLOCK FALSE
