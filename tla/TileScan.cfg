CONSTANTS
    NumTiles <- MCNumTiles
    Sizes <- MCSizes
    MaxChanged = 3
SPECIFICATION TileScanSpec
INVARIANTS
    ChangesAreSentWhenAligned
    RectanglesAreApart
\* A behaviour is one scan.
CHECK_DEADLOCK FALSE
