SPECIFICATION Spec
CONSTANTS
    Instances = {a, b}
    Clusters = {1, 2}
    Room = 2
    Totalling = {1}
    Spot = {2}
    MaxWant = 2
    Tenancy = TRUE
    MaxChanges = 1
SYMMETRY InstanceSymmetry
INVARIANTS
    TypeOK
    AssignsWhatFits
    SpreadIsEven
PROPERTY NoOvercommit
CHECK_DEADLOCK FALSE
