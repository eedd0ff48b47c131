CONSTANTS
    Accounts = {a1}
    NoAccount = none
    NoLink = null
    Clients = {c1, c2}
    MaxSessions = 2
    Faults = {"slow", "keep", "retry", "stray", "dberror"}
SPECIFICATION Spec
INVARIANTS MappedIsHeld
SYMMETRY Symm
CHECK_DEADLOCK FALSE
