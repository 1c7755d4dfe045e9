CONSTANTS
    Openings <- MCOpenings
    Commands <- MCCommands
    MaxCommands = 2
    Compactions = {TRUE}
    NONE = NONE
SPECIFICATION Spec
INVARIANTS NothingMisread
CHECK_DEADLOCK FALSE
