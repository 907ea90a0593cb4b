CONSTANTS
    Files = {"a", "b"}
    Guarded = {"w"}
    VerifiersOf <- MCVerifiersOf
    MaxRuns = 2
    MaxMoves = 0
SPECIFICATION Spec
PROPERTY OwnFixesOnly
CHECK_DEADLOCK FALSE
