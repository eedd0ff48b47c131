CONSTANTS
    Accounts = {a1}
    NoAccount = none
    NoLink = null
    Clients = {c1, c2}
    MaxSessions = 2
    Faults = {"slow", "early", "retry", "race", "dberror"}
SPECIFICATION Spec
INVARIANTS TypeOK InGameIsThere MappedIsHeld
SYMMETRY Symm
CHECK_DEADLOCK FALSE
