\* Both passes as batches that park, fail, are interrupted and re-run until done
SPECIFICATION FairSpec
CONSTANTS
    NPapers = 2
    NQuestions = 1
    GroupOf <- Single
    ChunkPapers = 1
    FailFast = FALSE
    BatchP1 = TRUE
    BatchP2 = TRUE
    Commands = {"run"}
    Scopes <- WholePipeline
    MaxInvocations = 4
    MaxSetbacks = 1
    MaxCrashes = 1
INVARIANTS
    EveryBatchHasItsId
    FormattedFromItsText
    LostOnlyAfterFailure
    RetryableAtRest
PROPERTIES
    TextsBoughtOnce
    PaidTextsAreUsed
    EventuallySent
    EventuallyAnswered
    BatchesEventuallyTaken
\* Invocations, failures and crashes are bounded, so every behaviour ends.
CHECK_DEADLOCK FALSE
