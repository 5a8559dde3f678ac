SPECIFICATION Spec
CONSTANTS
    Members = {"m1"}
    Uids = {1, 2, 3, 4}
    Versions = {1, 2, 3, 4}
    Undated = {"m1"}
    MaxRevision = 2
    Disturbances = {"edit", "switch", "match", "profile", "delete", "create", "instance"}
    MaxChanges = 2
    MaxFaults = 1
INVARIANTS
    TypeOK
    AcceptedIsTrue
    GateIsEarned
    AcceptedConditionEarned
PROPERTIES
    GuardHonoured
    ListedUntilGone
CHECK_DEADLOCK FALSE
