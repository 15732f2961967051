CONSTANTS
    Accounts = {a1}
    Callers = {c1, c2}
    Admins = {}
    Writers <- AllWriters
    Row <- PlainRows
    InitialRows <- PlainInitial
    Absent = Absent
    Nobody = Nobody
    MaxVersion = 1
    Models = {m1, m2}
    Sessions = {s1, s2}
    NoSession = NoSession
    WholeAccount = WholeAccount
    Mapped <- SameName
    Cap = 2
    SkipExpired = TRUE
    MaxSessions = 1
    MaxLimits = 2
    Cooldowns = {1, 2}
    RefreshCooldown = 1
    SessionTTL = 1
    MaxTime = 2
    MaxCalls = 1
SPECIFICATION Spec
INVARIANTS NoStickyToLimited GrantIsNotOverACooldown
PROPERTY CooldownKept
SYMMETRY PoolSymmetry
CHECK_DEADLOCK FALSE
