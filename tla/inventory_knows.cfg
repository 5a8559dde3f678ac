SPECIFICATION Spec
CONSTANTS
    Members = {"m1"}
    Uids = {1, 2, 3, 4}
    Versions = {1, 2, 3, 4}
    Source = "decision"
    Disturbances = {"decision"}
    MaxLives = 1
    MaxChanges = 2
    MaxFaults = 0
INVARIANT InventoryKnows
CHECK_DEADLOCK FALSE
