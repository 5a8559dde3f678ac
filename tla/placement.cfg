SPECIFICATION FairSpec
CONSTANTS
    Members = {"m1"}
    Uids = {1, 2, 3, 4}
    Versions = {1, 2, 3, 4}
    Source = "decision"
    Disturbances = {"decision", "profile", "gate", "delete", "create"}
    MaxLives = 1
    MaxChanges = 3
    MaxFaults = 1
INVARIANT TypeOK
PROPERTIES
    DeletesOnlyLabelled
    LedgerHolds
    KeepsLedger
    PlacesThroughGate
    EventuallyConverged
    DeletionCompletes
    EventuallySettled
CHECK_DEADLOCK FALSE
