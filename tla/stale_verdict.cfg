SPECIFICATION Spec
CONSTANTS
    Members = {"m1"}
    Uids = {1, 2, 3, 4}
    Versions = {1, 2, 3, 4}
    Undated = {}
    MaxRevision = 2
    Disturbances = {"edit", "switch", "match", "profile", "delete", "create", "instance"}
    MaxChanges = 3
    MaxFaults = 0
INVARIANTS
    StaleVerdictDoesNotCount
CHECK_DEADLOCK FALSE
