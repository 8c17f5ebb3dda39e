SPECIFICATION Spec
CONSTANTS
    Workers = {w1}
    Controls = {c1, c2}
    Engines <- TwoEngines
    Outcomes <- AllOutcomes
    MaxCopies = 1
    Faults <- NoFaults
    MaxFaults = 0
SYMMETRY Symmetry
INVARIANTS
    TypeOK
    NeverOrphaned
    PausedIsHeld
    CompletedIsClean
    NothingPublishedOnFailure
PROPERTIES
    KeepsLifecycle
