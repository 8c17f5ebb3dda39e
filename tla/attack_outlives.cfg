SPECIFICATION Spec
CONSTANTS
    Scans = {s1}
    MaxRuns = 1
INVARIANTS
    AttackEndsByDeadline
