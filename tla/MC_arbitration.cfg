\* Two papers, one of them a path of two items; every command, then arbitrate
SPECIFICATION FairSpec
CONSTANTS
    NItems = 3
    PaperOf <- TwoPapers
    Continuation = {1, 2}
    PerQuestion = TRUE
    Gates = {1}
    Needs <- Chain
    Readings <- Values
    Failing = {"no"}
    Damage <- Damages
    ChunkPapers = 1
    FailFast = TRUE
    Script <- TwiceThenAll
    Troubled = 2
    MaxMishaps = 1
    MaxCrashes = 1
INVARIANTS
    TypeOK
    PathIsKept
    RetryableAtRest
PROPERTIES
    ImplementsDelivery
    EventuallyPosted
\* The commands are bounded, so every behaviour ends.
CHECK_DEADLOCK FALSE
