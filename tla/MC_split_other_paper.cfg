\* The batch of one paper is collected for another
SPECIFICATION Spec
CONSTANTS
    NPapers = 2
    NQuestions = 1
    GroupOf <- Single
    Script <- InTurn
    Troubled = 4
    MaxSetbacks = 2
    MaxCrashes = 0
PROPERTIES
    RepliesAreAskedFor
\* Every behaviour ends when the commands have been given.
CHECK_DEADLOCK FALSE
