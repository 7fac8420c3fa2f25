\* pass1, pass2 and repost in any order, batched or not, around a failure and a crash
SPECIFICATION FairSpec
CONSTANTS
    NPapers = 2
    NQuestions = 2
    GroupOf <- Together
    Script <- AnyThenAll
    Troubled = 3
    MaxSetbacks = 1
    MaxCrashes = 1
INVARIANTS
    TypeOK
    FormattedFromItsText
    
PROPERTIES
    ImplementsDelivery
    
\* Every behaviour ends when the commands have been given.
CHECK_DEADLOCK FALSE
