CONSTANTS
    MaxComments = 2
    Jobs = {j1, j2}
    Faults = {"crash", "unreadable"}
SPECIFICATION Spec
SYMMETRY Symmetry
INVARIANT TypeOK
INVARIANT AppliedOnce
PROPERTY ReopenRestores
CHECK_DEADLOCK FALSE
