SPECIFICATION FairSpec
CONSTANTS
    MaxPoints = 2
    Polls = 3
    MaxCallbacks = 2
INVARIANTS
    TypeOK
    HitIsTrue
    NothingMissed
PROPERTIES
    ProbeEnds
