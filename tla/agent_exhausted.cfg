CONSTANTS
    Models = {m1, m2}
    FirstModel = m1
    MaxTurns = 3
    Attempts = 2
    NudgeAt = {1}
    MaxCalls = 2
SPECIFICATION Spec
INVARIANT ExhaustionIsNoAnswer
CHECK_DEADLOCK FALSE
