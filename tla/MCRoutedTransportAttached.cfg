CONSTANTS
    Routes = {home, vpn}
    Relay = Relay
    None = None

SPECIFICATION Spec

INVARIANT AppIsAttached

CHECK_DEADLOCK FALSE
