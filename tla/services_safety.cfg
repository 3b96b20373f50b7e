SPECIFICATION ServicesSpec
CONSTANTS
    Lanes = {"conversations", "accounts", "questions", "intake", "management", "search", "keys",
             "bulk"}
    Callers = {x1, x2}
    Keys = {k1}
    LockObjects = {y1, y2}
    Confirmations = {x1, x2}
    NoCaller = NoCaller
    NoKey = NoKey
    NoObject = NoObject
    NoConfirmation = NoConfirmation
    MaxRequests = 4
    MaxRestarts = 1
    Users = {ann, boss}
    NoUser = NoUser
    Admins = {boss}
    Tokens = {y1, y2}
    Clerks = {x1, x2}
    FailedLimit = 2
    MaxPassword = 1
    Requesters = {x1, x2}
    Nobody = Nobody
    Api = Api
    Page = Page
    MaxSets = 3
    Pollers = {x1, x2}
    Mails = {y1, y2}
    CVs = {v1}
    BadFile = BadFile
    NoMail = NoMail
    ListLimit = 1
    MaxParts = 2
    MaxLapses = 1
    Departments = {y1, y2}
    Titles = {t1}
    Makers = {x1, x2}
    NoMaker = NoMaker
    People = {x1, x2, x3}
    NoOpening = NoOpening
    NotStored = NotStored
    MaxLostNames = 1
    Everywhere = Everywhere
    Limit = 1
    Multiplier = 2
    TopK = 1
    Models = {x1, x2}
    NumKeys = 2
    Tabs = {tab}
    BatchTasks = {batch}
    Addressees = {x1, x2}
    MaxRows = 2
    MaxSends = 3
    MaxDeaths = 1
SYMMETRY Symmetry
CHECK_DEADLOCK FALSE
INVARIANTS
    ServicesTypeOK RankedAsConfirmed DeletedLeavesNothing NoStaleSession GuessesBounded
    OncePerKey NothingDropped NamesUnique ScopeHolds NotCrowdedOut GivesUpInformed
    MailsExplained
PROPERTIES LocksPromise SavedAsAsked
