\* A gate value that is thrown away as damaged still excludes its paper
SPECIFICATION Spec
CONSTANTS
    RoundOf <- TwoThenOne
    Needs <- OnFirst
    Values = {"in", "out"}
    Failing = {"out"}
    NPapers = 1
    NQuestions = 3
    NRounds = 2
    Gates = {1, 2}
    FailFast = FALSE
    BatchP1 = FALSE
    BatchP2 = TRUE
    BrokenItems = TRUE
    MaxInvocations = 1
    MaxMishaps = 0
INVARIANTS
    SkippedForReason
\* Commands and mishaps are bounded, so every behaviour ends.
CHECK_DEADLOCK FALSE
