CONSTANTS
    Events = {1, 2, 3}
    Timers = {1, 2, 3}
    Intervals = {2, 3}
    Targets = {1, 3}
    Milli = 2
    Slack = 2
    MaxTime = 4
    MaxModes = 1
    MaxFailures = 1
SPECIFICATION FairSpec
INVARIANTS
    QueueIsAttended
    QueueIsPending
PROPERTIES
    EventsSpec
    EventsSettle
\* Nothing need be asked of the driver.
CHECK_DEADLOCK FALSE
