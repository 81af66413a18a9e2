CONSTANTS
    NumTiles <- MCNumTiles
    Sizes <- MCOddWidth
    MaxChanged = 3
SPECIFICATION TileScanSpec
INVARIANTS
    ChangesAreSent
\* A behaviour is one scan.
CHECK_DEADLOCK FALSE
