CONSTANTS
    Accounts = {a1}
    NoAccount = none
    NoLink = null
    Clients = {c1, c2}
    MaxSessions = 2
    Faults = {}
SPECIFICATION Spec
INVARIANTS AbandonedIsReaped
SYMMETRY Symm
CHECK_DEADLOCK FALSE
