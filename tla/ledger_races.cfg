CONSTANTS
    Rows = {r1}
    Jobs = {j1, j2, j3}
SPECIFICATION Spec
INVARIANT ConfirmedWasVerified
INVARIANT ClosedWasOpened
SYMMETRY Symmetry
CHECK_DEADLOCK FALSE
