CONSTANTS
    None = None
    MaxAsks = 2
    MaxAnswers = 3
    MaxMessages = 3
    QueueCap = 3

SPECIFICATION Spec

INVARIANT TypeOK
INVARIANT InOrder
INVARIANT NonceOnce
INVARIANT ScopedToSession

CHECK_DEADLOCK FALSE
