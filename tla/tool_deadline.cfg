SPECIFICATION Spec
CONSTANTS
    Deadline = 2
    Patience = 4
    Capacity = 1
    Output = 3
    WithProxy = TRUE
INVARIANTS
    ToolEndsByDeadline
