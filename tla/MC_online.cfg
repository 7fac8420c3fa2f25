\* run, --reset-runs and repost, online passes, two chunks, failures and a crash: what is counted, answered and sent
SPECIFICATION Spec
CONSTANTS
    NPapers = 2
    NQuestions = 2
    GroupOf <- Together
    ChunkPapers = 1
    FailFast = FALSE
    BatchP1 = FALSE
    BatchP2 = FALSE
    Commands = {"run", "reset", "repost"}
    Scopes <- WholePipeline
    MaxInvocations = 3
    MaxSetbacks = 2
    MaxCrashes = 1
INVARIANTS
    TypeOK
    CleanRunLeavesNothingUnsent
    CountersMatchStore
    SucceededMeansComplete
PROPERTIES
    ImplementsDelivery
\* Invocations, failures and crashes are bounded, so every behaviour ends.
CHECK_DEADLOCK FALSE
