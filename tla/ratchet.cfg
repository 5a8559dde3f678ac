SPECIFICATION Spec
CONSTANTS
    Instances = {"a"}
    Clusters = {1}
    Room = 4
    Totalling = {1}
    Spot = {}
    MaxWant = 4
    Tenancy = TRUE
    MaxChanges = 3
PROPERTY FindsNoMoreRoomThanExists
CHECK_DEADLOCK FALSE
