SPECIFICATION FairSpec
CONSTANTS
    Workers = {w1}
    Controls = {c1}
    Engines <- TwoEngines
    Outcomes <- AllOutcomes
    MaxCopies = 1
    Faults <- NoFaults
    MaxFaults = 0
PROPERTIES
    AcceptedScanEnds
