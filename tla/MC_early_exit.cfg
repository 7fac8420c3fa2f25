\* Two papers over two rounds, run twice around one failure, wait or crash
SPECIFICATION FairSpec
CONSTANTS
    RoundOf <- TwoThenOne
    Needs <- OnFirst
    Values = {"in", "out"}
    Failing = {"out"}
    NPapers = 2
    NQuestions = 3
    NRounds = 2
    Gates = {1, 2}
    FailFast = FALSE
    BatchP1 = FALSE
    BatchP2 = TRUE
    BrokenItems = FALSE
    MaxInvocations = 2
    MaxMishaps = 1
INVARIANTS
    TypeOK
    SkippedForReason
    OutOfScopeIsSkipped
PROPERTIES
    EventuallySettled
\* Commands and mishaps are bounded, so every behaviour ends.
CHECK_DEADLOCK FALSE
