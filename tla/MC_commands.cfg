\* All five commands over two chunks, batched, with fail_fast and a crash: repost, reset, and a text gone from SEER
SPECIFICATION Spec
CONSTANTS
    NPapers = 2
    NQuestions = 1
    GroupOf <- Single
    ChunkPapers = 1
    FailFast = TRUE
    BatchP1 = TRUE
    BatchP2 = TRUE
    Commands = {"run", "dry", "reset", "repost", "reformat"}
    Scopes <- WholeOrLast
    MaxInvocations = 3
    MaxSetbacks = 1
    MaxCrashes = 1
INVARIANTS
    RepostSendsEverything
    FailFastRunsRaise
    ResetMeansFresh
PROPERTIES
    AnswersSurviveNoOcr
\* Invocations, failures and crashes are bounded, so every behaviour ends.
CHECK_DEADLOCK FALSE
