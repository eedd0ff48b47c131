CONSTANTS
    Characters = {c1, c2, c3}
    e1 = e1
    e2 = e2
    i1 = i1
    i2 = i2
    i3 = i3
    Enhancements = {e1, e2}
    Inspirations = {i1, i2, i3}
    NoItem = NoItem
    MaxInf = 1
    EnhSlots = 2
    InspRows = 2
    Offers <- SomeOffers
    Stocks <- AllStocks
    Passing <- OneItem
    FirstGoods <- OneCoin
    CastOf <- Casts
    NoOne = NoOne
    MaxMails = 2
    MaxPending = 2
    Habits = {"hasty", "deletes", "early", "dberror"}
    NoLeader = NoLeader
    MaxTeam = 3
    MaxQueued = 2
    MaxAsked = 2
    Manners = {"hasty", "leave", "looking"}
SPECIFICATION Spec
INVARIANTS
    ServicesTypeOK
    AcceptedIsCurrent
    HeldOnce
    MirrorsDatabase
    UnreadIsListed
    AnswerIsComing
    MailFollowsPresence
    MailNeverFails
    OneTeam
    TeamsAreLed
    LfgIsFree
    ViewFollowsTeam
    InvitationsMeetAnswers
PROPERTY ExchangeIsExact
SYMMETRY Symm
CHECK_DEADLOCK FALSE
