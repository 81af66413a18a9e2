CONSTANTS
    Sizes = {small, large}
    None = None
    MaxReports = 2
    MaxResizes = 2
    MaxFailures = 1
SPECIFICATION FairSpec
INVARIANTS
    DrawsHaveSurface
    ScansHaveImages
    SizesAgree
PROPERTIES
    ResizesArrive
    ShutdownCompletes
\* The program ends.
CHECK_DEADLOCK FALSE
