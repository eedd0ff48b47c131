SPECIFICATION Spec
CONSTANTS
    Sizes = {0, 2, 3}
    MaxSend <- TwoAndOne
    Capacity = 2
    MaxAcks = 1
    Duplicating = TRUE
    Overtaking = TRUE
INVARIANTS
    TypeOK
    InOrderExactlyOnce
    NoBlindPop
    ForgottenWasReceived
    ReceivedIsAccountedFor
PROPERTY ImplementsChannel
CHECK_DEADLOCK FALSE
