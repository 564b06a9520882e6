SPECIFICATION FairSourceSpec
CONSTANTS
    MaxChanges = 4
    EventSources = {sigint, sigterm}
    sigint = sigint
    sigterm = sigterm
    MaxEvents = 2
    MaxI = 63
    MsNanos = 4
    MaxTs = 200
    Ints <- MCInts
    Stamps <- MCStamps
    Durations <- MCDurations
INVARIANTS
    NothingMissed
    WokenUntilCancelled
    OnTime
PROPERTIES
    ChangeIsRead
    TasksEnd
CHECK_DEADLOCK FALSE
