CONSTANTS
    Keys = {a1}
    Callers = {c1, c2}
    Nobody = Nobody
    Absent = Absent
    NetworkSlots = 2
    Rotates = TRUE
    Calls = {"acquire"}
    AdminWrites = {"disable", "enable", "delete"}
    Imported <- WithProject
    MaxTokens = 2
SPECIFICATION Spec
INVARIANT RotationIsStored
