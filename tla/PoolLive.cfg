CONSTANTS
    Accounts = {a1}
    Callers = {c1, c2}
    Admins = {}
    Writers <- AllWriters
    Row <- TimedRows
    InitialRows <- TimedInitial
    Absent = Absent
    Nobody = Nobody
    MaxVersion = 2
    Models = {m1}
    Sessions = {}
    NoSession = NoSession
    WholeAccount = WholeAccount
    Mapped <- SameName
    Cap = 1
    SkipExpired = TRUE
    MaxSessions = 1
    MaxLimits = 4
    Cooldowns = {1}
    RefreshCooldown = 1
    SessionTTL = 1
    MaxTime = 2
    MaxCalls = 1
SPECIFICATION FairSpec
PROPERTY AcquireReturns
CHECK_DEADLOCK FALSE
