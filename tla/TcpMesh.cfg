SPECIFICATION FairSpec
CONSTANT Dying = {0, 1, 2}
INVARIANTS
    TypeOK
    MeshComplete
    UpHeardFromHigherRanks
PROPERTY EveryoneUp
\* A rank that waits for a dead one, or is up, stops.
CHECK_DEADLOCK FALSE
