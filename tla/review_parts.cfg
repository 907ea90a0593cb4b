CONSTANTS
    Rows = {r1, r2}
    Jobs = {j1}
    Lenses = {"l1", "l2"}
    BlockingClaims = {"c1"}
    Models = {"m1"}
    MaxAttempts = 2
    NoModel = "none"
    Specs = {"s1", "s2"}
    Edited = {"s1"}
    Selectors = {"t1", "t2"}
    MaxRule = 2
    MaxGradings = 2
    Docs <- MCDocs
    Identifiers <- MCIdentifiers
    Widths = {1, 6}
    FileLines = 2
    Hits <- MCHits
    Context = 1
    Around = 0
    MaxHits = 2
    Floor = 2
    Ceiling = 5
    Cap = 1
    MaxFindings = 1
    MaxHeads = 2
    MaxRuns = 3
    Bases = {1}
    Blobs = {1}
    MaxEvidence = 1
    Reviewers <- MCReviewers
    ClaimsOf <- MCClaimsOf
    Place <- MCPlace
    Kind = "github"
    Rewrites = {TRUE, FALSE}
    People = {"resolve", "open"}
    MaxThreads = 2
    MaxPublishes = 2
    Workers = {1, 2, 3}
    ProcessOf <- MCProcessOf
    Tables <- MCTables
    Migrated = "findings"
    Added <- MCAdded
    Attempts = 2
    MaxBusy = 2
    MaxKills = 1
SPECIFICATION PartsSpec
INVARIANTS
    TypeOK
    InitSuffices
    NoSilentReview
    ApproveIsLedgers
    OnlyProofSettles
    CompleteReviewIsWhole
    ContractNotLoosened
    RefutedHasSeen
    ThreadsAreTheirOwn
PROPERTIES
    ImplementsLifecycle
    OnlyReopenLeavesOwnerResolved
CHECK_DEADLOCK FALSE
