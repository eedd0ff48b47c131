CONSTANTS
    Accounts = {a1, a2}
    NoAccount = NoAccount
    NoLink = NoLink
    NoLogin = NoLogin
    Maps = {m1, m2}
    NoMap = NoMap
    PoolSize = 4
    MaxLogins = 2
    Plans <- SomePlans
    MaxVersion = 2
    Mishaps = {"none", "early", "lingers", "acts", "again", "taken", "late", "dberror", "slow"}
SPECIFICATION Spec
INVARIANTS
    MapTypeOK
    MapNeverFails
    PoolIsSound
    NothingLeaks
    PlayersAreKnown
PROPERTIES
    NothingRolledBack
    ImplementsPresence
SYMMETRY Symm
CHECK_DEADLOCK FALSE
