CONSTANTS
    MaxViewers = 2
    MaxSignals = 1
    MaxFailures = 1
SPECIFICATION FairSpec
INVARIANTS
    PidsAreChildren
    ScriptsAreCleanedUp
    EveryEndIsAnnounced
    ThreadsEndFirst
    TimeoutStrikesAlone
PROPERTIES
    TimeoutEnds
\* The program ends.
CHECK_DEADLOCK FALSE
