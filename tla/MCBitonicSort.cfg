SPECIFICATION SafeSpec
CONSTANTS
    MaxSecrets = 5
    BatchSizes = {0, 1}
    Methods = {"jit", "background", "pipeline"}
    Workers <- MCWorkers
INVARIANTS
    TypeOK
    Sorted
    StagesAreReal
PROPERTY
    SortEnds
\* Sorting ends.
CHECK_DEADLOCK FALSE
