CONSTANTS
    ScreenSizes <- MCSizes
    Areas <- MCAreas
    Colours <- MCColours
    StartScreens <- MCStart
    Black = 0
    MaxDrawings = 2
    MaxResizes = 2
    MaxDisturbances = 3
SPECIFICATION ResizeFairSpec
INVARIANTS
    FreshIsClientToBe

    
