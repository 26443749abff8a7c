CONSTANTS
    MaxMessages = 3
    MaxStops = 1

SPECIFICATION ExecSpec

INVARIANT ExecTypeOK
INVARIANT QueueSound
INVARIANT SettledWhenQuiet
INVARIANT KeptWhileFollowed
PROPERTY HeldStaysHeld

CHECK_DEADLOCK FALSE
