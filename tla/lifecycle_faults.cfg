SPECIFICATION Spec
CONSTANTS
    Workers = {w1}
    Controls = {c1}
    Engines <- OneEngine
    Outcomes <- FewOutcomes
    MaxCopies = 2
    Faults <- AllFaults
    MaxFaults = 1
SYMMETRY Symmetry
INVARIANTS
    VerdictHasReports
    OrphansAreExplained
PROPERTIES
    CancelBinds
    DocumentIsKept
