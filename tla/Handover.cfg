CONSTANTS
    Accounts = {a1}
    NoAccount = none
    NoLink = null
    Clients = {c1, c2, c3}
    MaxSessions = 3
    Faults = {"stray"}
    MaxWork = 1
SPECIFICATION MCSpec
INVARIANTS
    NeverFails
    OneLogin
    UsedIsKnown
    NoDangling
    LoggedInIsThere
    ProcessesTypeOK
    NobodyWaitsForever
    DestroyedInOrder
SYMMETRY Symm
CHECK_DEADLOCK FALSE
