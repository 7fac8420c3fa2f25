\* Pass 1 for one dispute of a paper, then for the other, then Pass 2 of both
SPECIFICATION Spec
CONSTANTS
    NItems = 2
    PaperOf <- OnePaper
    Continuation = {}
    PerQuestion = FALSE
    Gates = {}
    Needs <- NoNeeds
    Readings <- OneValue
    Failing = {}
    Damage <- NoDamage
    ChunkPapers = 0
    FailFast = FALSE
    Script <- OneByOne
    Troubled = 0
    MaxMishaps = 0
    MaxCrashes = 0
INVARIANTS
    FormattedFromItsText
CHECK_DEADLOCK FALSE
