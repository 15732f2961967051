CONSTANTS
    Keys = {a1}
    Callers = {c1, c2}
    Nobody = Nobody
    Absent = Absent
    NetworkSlots = 2
    Rotates = TRUE
    Calls = {"acquire", "rejected"}
    AdminWrites = {"disable", "enable", "delete"}
    Imported <- WithProject
    MaxTokens = 2
SPECIFICATION Spec
INVARIANTS RefreshesAreMerged DisabledIsNotReturned
PROPERTIES CredentialsNeverGoBack AdminStateSurvives AutoDisableIsJustified
SYMMETRY CallerSymmetry
