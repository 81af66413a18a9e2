CONSTANTS
    Timers = {"timer"}
    Watches = {"watch"}
    AgentWatches = {"listen", "client", "uinput"}
    Fds = {2, 3, 4, 5}
    MaxConnections = 2
SPECIFICATION FairSpec
INVARIANTS
    CallbacksAreWanted
    WatchesMatch
    ClosesItsOwn
PROPERTIES
    AgentIsServed
\* The program ends.
CHECK_DEADLOCK FALSE
