SPECIFICATION CircuitsSpec
CONSTANTS
    Widths = {1, 2, 4}
    Masks <- MCMasks
    Ops <- MCOps
    Numbers = {0, 1, 3, 8, 13}
    Randoms = {1, 10}
    Rows = 2
    TileWidth = 2
    SeedPairs <- MCSeedPairs
    Modulus = 15
    E = 3
    D = 3
    Kdf <- MCKdf
    Prg <- MCPrg
    Hash <- MCHash
INVARIANTS
    LessIsShared
    ResultIsShared
    TriplesSuffice
\* The operator ends.
CHECK_DEADLOCK FALSE
