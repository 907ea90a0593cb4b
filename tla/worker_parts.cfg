CONSTANTS
    Requests = {r1, r2, r3}
    Pids = {1, 2, 3}
    Slots = 2
    CancelsAgain = TRUE
    Texts <- MCTexts
    ToolCalls <- MCToolCalls
    MaxDeltas = 3
    BlockTypes = {"text", "tool_use", "thinking", "redacted_thinking"}
    MaxBlocks = 4
    LateDeltas = FALSE
    Callers = {1, 2, 3}
    RateLimit = 2
    RateWindow = 3
    MaxConcurrency = 2
    MaxRetries = 1
    Backoffs = {1}
    BlockSeconds = {2}
    MaxTime = 4
    ChainModels = {"m1", "m2"}
    FirstModel = "m1"
    MaxTurns = 3
    Attempts = 2
    NudgeAt = {1}
    MaxToolCalls = 2
    Tiers = {"opus", "haiku"}
    ModelOrder <- MCModelOrder
    ProviderOrder <- MCProviderOrder
    ServedCells <- MCServedCells
    PlacedAt <- MCPlacedAt
    ChainFiles <- MCChainFiles
    MaxMutations = 2
    PerTier = 1
    Depth = 1
    Enabled = TRUE
    Judgements = {"healthy", "dead"}
    MaxDisturbances = 1
    Drafts = {1}
    MaxMoves = 2
    MaxCalls = 2
    MaxPages = 2
    Vanishing = FALSE
    JailFiles = {"a", "b"}
    Guarded = {"w"}
    VerifiersOf <- MCVerifiersOf
    MaxFixRuns = 2
    MaxAuthorMoves = 0
    MaxCommits = 2
    MaxGates = 1
    Claims = {f1}
    Checks = {ci1}
    StallWindow = 2
    Threshold = 2
    MaxRows = 2
    MaxHead = 3
    RoundCap = 1
    RoundReviews = 4
    RoundFaults = {"kill", "force"}
    StallCap = 3
    StallReviews = 3
    StallFaults = {"raise"}
    Contract <- MCContract
    StepMessage <- MCStepMessage
    StepsOf <- MCStepsOf
    Outside = {"draft"}
    MaxSessions = 2
    SessionFaults = {"kill", "stage", "switch"}
    f1 = f1
    ci1 = ci1
SPECIFICATION PartsSpec
INVARIANTS
    NoChildOutlivesServer
    RelayedWhole
    FilteredWellFormed
    StrictWindow
    ResultsFollowCalls
    ChainsServe
    AnswersAreTrue
    WritesOnceAndInTime
    FixesAreTested
    ApprovedIsGated
    LoopIsBounded
    SessionsAreTested
PROPERTY
    StuckIsFinal
CHECK_DEADLOCK FALSE
