SPECIFICATION FairSpec
CONSTANTS
    MaxSecrets = 4
    BatchSizes = {1}
    Methods = {"pipeline"}
    Workers <- MCWorkers
INVARIANT Sorted
\* Sorting ends.
CHECK_DEADLOCK FALSE
