SPECIFICATION LiveSpec
CONSTANTS
    Sizes = {0, 2}
    MaxSend <- ThreeAndOne
    Capacity = 2
    MaxAcks = 1
    Duplicating = FALSE
    Overtaking = FALSE
PROPERTY EventuallyDelivered
CHECK_DEADLOCK FALSE
