CONSTANTS
    None = None
    Page = 2
    Capacity = 1
    QueueCap = 2
    MaxEvents = 3
    MaxRuns = 2
    MaxChurn = 2
    MaxEarlier = 0

SPECIFICATION Spec

PROPERTY ImplementsFollowedLog

CHECK_DEADLOCK FALSE
