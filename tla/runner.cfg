SPECIFICATION FairSpec
CONSTANTS
    Deadline = 2
    Patience = 4
    Capacity = 1
    Output = 3
    WithProxy = TRUE
INVARIANTS
    TypeOK
    AnsweredIsReaped
    CompletedIsTrue
PROPERTIES
    WorkerReturns
