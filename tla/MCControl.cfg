CONSTANTS
    mac = mac
    relay1 = relay1
    relay2 = relay2
    direct1 = direct1
    phone1 = phone1
    phone2 = phone2
    LocalViews <- MCLocalViews
    RelayLinks <- MCRelayLinks
    DirectLinks <- MCDirectLinks
    Devices <- MCDevices
    DeviceOf <- MCDeviceOf
    None = None

SPECIFICATION Spec

INVARIANT TypeOK
INVARIANT ControllerAttached
INVARIANT OwedIsAway
PROPERTY ImplementsDriving
