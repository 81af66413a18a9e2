CONSTANTS
    NumSlots = 2
    Images = {i1, i2, i3}
    Sizes <- MCSizes
    MaxSegments = 4
    MaxFailures = 1
SYMMETRY ImageSymmetry
SPECIFICATION Spec
INVARIANTS
    OneOwner
    SegmentsAccounted
    ImagesFit
PROPERTIES
    KeepsTheBiggest
\* The display is closed and its last images are destroyed in the end.
CHECK_DEADLOCK FALSE
