SPECIFICATION Spec
CONSTANTS
    Requests = {1000, 2}
    Parameters = {1001, 1000, 0, 1}
INVARIANTS
    FailClosed
    OrderDoesNotMatter
    ReadyIsEarned
    ReadyMeansAll
CHECK_DEADLOCK FALSE
