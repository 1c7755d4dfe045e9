CONSTANTS
    Openings <- MCOpenings
    Commands <- MCCommands
    MaxCommands = 3
    Compactions = {TRUE, FALSE}
    NONE = NONE
SPECIFICATION Spec
INVARIANTS CataloguesAgree 
PROPERTIES ImplementsSql Answered
CHECK_DEADLOCK FALSE
