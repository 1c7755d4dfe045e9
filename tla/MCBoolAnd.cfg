SPECIFICATION MCSpec
CONSTANTS
    Lanes = {1}
    NumOperators = 2
INVARIANTS
    TypeOK
    AndIsShared
    NoCrossTalk
PROPERTY
    AllDone
\* The operators end.
CHECK_DEADLOCK FALSE
