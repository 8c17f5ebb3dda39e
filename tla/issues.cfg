SPECIFICATION Spec
CONSTANTS
    Drafts <- SomeDrafts
    Category <- CategoryOf
    Folded <- FoldedPlace
    Title <- TitleOf
    Endpoint <- EndpointOf
    Method <- MethodOf
    Concise <- ConciseOf
    Nothing = ""
    MaxDrafts = 4
    MaxBatches = 2
INVARIANTS
    TypeOK
    NothingLost
    RowsAreReported
    RiskIsBacked
PROPERTIES
    RedeliveryKeepsIssues
