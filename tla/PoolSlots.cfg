CONSTANTS
    Accounts = {a1, a2}
    Callers = {c1, c2}
    Admins = {w1}
    Writers <- AllWriters
    Row <- PlainRows
    InitialRows <- PlainInitial
    Absent = Absent
    Nobody = Nobody
    MaxVersion = 2
    Models = {m1}
    Sessions = {}
    NoSession = NoSession
    WholeAccount = WholeAccount
    Mapped <- SameName
    Cap = 1
    SkipExpired = TRUE
    MaxSessions = 1
    MaxLimits = 1
    Cooldowns = {1}
    RefreshCooldown = 1
    SessionTTL = 1
    MaxTime = 0
    MaxCalls = 1
SPECIFICATION Spec
INVARIANTS SlotAccounting NoLostWakeup NoBarredGrant LoadSeesReturnedWrites
PROPERTIES SnapshotNeverRegresses SlotsSpec
SYMMETRY PoolSymmetry
CHECK_DEADLOCK FALSE
