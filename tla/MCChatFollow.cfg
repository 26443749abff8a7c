CONSTANTS
    None = None
    Page = 1
    Capacity = 1
    QueueCap = 2
    MaxEvents = 3
    MaxRuns = 2
    MaxChurn = 1
    MaxEarlier = 1

SPECIFICATION FairSpec

INVARIANT TypeOK
INVARIANT LevelOnceDrained
PROPERTY EventuallyLevel

CHECK_DEADLOCK FALSE
