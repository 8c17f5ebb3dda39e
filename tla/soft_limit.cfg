SPECIFICATION FairSpec
CONSTANTS
    Workers = {w1}
    Controls = {}
    Engines <- OneEngine
    Outcomes <- AllOutcomes
    MaxCopies = 1
    Faults <- SoftLimit
    MaxFaults = 1
PROPERTIES
    AcceptedScanEnds
