CONSTANTS
    Devices = {n1}
    Natives = {n1}
    LaunchedLater = {n1}
    AutoConnect = FALSE
    NoDevice = NoDevice
    MaxConnections = 2
    MaxTimers = 1
    MaxBacklog = 2
SPECIFICATION Spec
INVARIANT RemoteIsShownConnected
