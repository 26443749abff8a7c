CONSTANTS
    Devices = {a, b}
    Relays = {r1, r2}
    None = None
    Fallible = {"saveList", "saveActive"}
    MaxTasks = 2

SPECIFICATION Spec

INVARIANT TypeOK
INVARIANT OneInUse
INVARIANT Settled
INVARIANT NothingLost
INVARIANT StaysForgotten

SYMMETRY Symmetry
