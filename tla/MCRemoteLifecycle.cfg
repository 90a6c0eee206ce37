\* One native device that the master connects to by itself, and one browser.
CONSTANTS
    Devices = {n1, b1}
    Natives = {n1}
    LaunchedLater = {n1}
    AutoConnect = TRUE
    NoDevice = NoDevice
    MaxConnections = 2
    MaxTimers = 1
    MaxBacklog = 2
SPECIFICATION Spec
INVARIANTS
    TypeOK
    PendingNotRemote
    ConnectedIsBacked
    
    SessionAccounted
