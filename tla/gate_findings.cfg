CONSTANTS
    Claims = {c1}
    Kinds = {"mechanical", "judged"}
    MaxHead = 2
    MaxCommands = 2
    Moves = {}
SPECIFICATION Spec
INVARIANT TypeOK
INVARIANT NoConfirmedProblemMerged
INVARIANT VerdictNeverContradictsMerge
CHECK_DEADLOCK FALSE
