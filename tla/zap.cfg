SPECIFICATION FairSpec
CONSTANTS
    Scans = {s1, s2}
    MaxRuns = 3
INVARIANTS
    TypeOK
    RulesAreOwn
    SpecificationsRemoved
    CompletedIsWhole
PROPERTIES
    EngineReturns
