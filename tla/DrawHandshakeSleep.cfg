CONSTANTS
    Sizes = {small, large}
    None = None
    MaxReports = 1
    MaxResizes = 1
    MaxFailures = 0
SPECIFICATION FairSpec
PROPERTIES
    ResizedScreenIsShown
\* The program ends.
CHECK_DEADLOCK FALSE
