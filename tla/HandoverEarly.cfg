CONSTANTS
    Accounts = {a1}
    NoAccount = none
    NoLink = null
    Clients = {c1, c2}
    MaxSessions = 2
    Faults = {"early"}
SPECIFICATION Spec
INVARIANTS LoggedInIsThere
SYMMETRY Symm
CHECK_DEADLOCK FALSE
