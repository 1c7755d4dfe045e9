CONSTANTS
    Setups <- MCSetups
    Filters <- MCFilters
    Keys <- MCKeys
SPECIFICATION Spec
INVARIANTS TypeOK PreciseMeansAllValid
PROPERTIES ImplementsQuery SortedResult CompactedTwice
CHECK_DEADLOCK FALSE
