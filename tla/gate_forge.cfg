CONSTANTS
    Claims = {}
    Kinds = {"mechanical"}
    MaxHead = 2
    MaxCommands = 0
    Moves = {"rewind", "retarget", "thread", "red", "fail", "overlap"}
SPECIFICATION Spec
INVARIANT MergedHeadIsProven
CHECK_DEADLOCK FALSE
