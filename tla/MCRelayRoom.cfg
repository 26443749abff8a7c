CONSTANTS
    Hosts = {h1, h2}
    Devices = {d1, d2}
    None = None
    MaxAsks = 2

SPECIFICATION Spec
SYMMETRY Symmetry

INVARIANT TypeOK
INVARIANT OnePerSide
INVARIANT ToldRight
INVARIANT GreetedAsOne

CHECK_DEADLOCK FALSE
