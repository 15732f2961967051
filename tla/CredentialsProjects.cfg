CONSTANTS
    Keys = {a1}
    Callers = {c1, c2}
    Nobody = Nobody
    Absent = Absent
    NetworkSlots = 1
    Rotates = FALSE
    Calls = {"acquire", "refresh"}
    AdminWrites = {}
    Imported <- WithoutProject
    MaxTokens = 1
SPECIFICATION FairSpec
INVARIANT PermitsAreReturned
PROPERTY CallReturns
