SPECIFICATION Spec
CONSTANTS
    Sizes = {0, 2}
    MaxSend <- TwoAndOne
    Capacity = 2
    MaxAcks = 1
    Duplicating = TRUE
    Overtaking = TRUE
INVARIANT OldIsRejected
CHECK_DEADLOCK FALSE
