CONSTANTS
    Accounts = {a1, a2}
    Nobody = Nobody
    MaxRetryAttempts = 2
    Failures <- SomeFailures
    Endpoints = 2
    Statuses <- SomeStatuses
    Plans <- SomePlans
SPECIFICATION CallSpec
INVARIANTS AttemptsAreBounded SlotFollowsAttempt AnswerIsHonest CallIsFaithful
PROPERTIES LimitsComeFirst RequestEnds
CHECK_DEADLOCK FALSE
