\* One native device that may come back over a second websocket; the
\* application calls connect() itself.
CONSTANTS
    Devices = {n1}
    Natives = {n1}
    LaunchedLater = {n1}
    AutoConnect = FALSE
    NoDevice = NoDevice
    MaxConnections = 2
    MaxTimers = 1
    MaxBacklog = 2
SPECIFICATION FairSpec
PROPERTIES
    DisconnectIsNoticed
    SessionIsReported
