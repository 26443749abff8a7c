CONSTANTS
    Routes = {home, vpn}
    Relay = Relay
    None = None

SPECIFICATION FairSpec

INVARIANT TypeOK
INVARIANT NoOrphan
INVARIANT DirectIsAlone
INVARIANT NeverIdle
INVARIANT ConnectingEnds
PROPERTY RelayReached
PROPERTY MovesUp

CHECK_DEADLOCK FALSE
