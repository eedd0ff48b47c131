CONSTANTS
    Accounts = {a1}
    NoAccount = none
    NoLink = null
    Clients = {c1, c2}
    MaxSessions = 2
    Faults = {"slow"}
SPECIFICATION Spec
INVARIANTS NeverFails
SYMMETRY Symm
CHECK_DEADLOCK FALSE
