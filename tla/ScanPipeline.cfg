CONSTANTS
    Cells <- MCCells
    Rows = 2
    RowOf <- MCRowOf
    Phases = 2
    PhaseOf <- MCPhaseOf
    Drawings <- MCDrawings
    Bands <- MCBands
    ScanReports <- MCScanReports
    Pixel <- MCPixelOrBlank
    StartScreens <- Blank
    TrustModes <- AutoOrNever
    FpsModes <- DamageOrFps
    TrustedCount = 1
    MaxDrawings = 2
    MaxDrawQueue = 2
    MaxDisturbances = 3
    MaxFailures = 2
SPECIFICATION FairSpec
INVARIANTS
    RegionIsQueued
    FullscreenIsClientToBe
PROPERTIES
    ViewSpec
    
