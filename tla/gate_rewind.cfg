CONSTANTS
    Claims = {c1}
    Kinds = {"judged"}
    MaxHead = 2
    MaxCommands = 0
    Moves = {"rewind"}
SPECIFICATION Spec
INVARIANT NoConfirmedProblemMerged
CHECK_DEADLOCK FALSE
