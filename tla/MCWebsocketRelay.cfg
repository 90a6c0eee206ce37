\* A page that may be reloaded once and a remote, over three connections.
CONSTANTS
    Pages = {m1, m2}
    Remotes = {r1, r2}
    Master = Master
    Broadcast = Broadcast
    Server = Server
    NoPeer = NoPeer
    MaxConnections = 3
    MaxMessages = 2
SPECIFICATION Spec
SYMMETRY Symmetry
CHECK_DEADLOCK FALSE
INVARIANTS
    TypeOK
    RemotesOnRecord
    RoutedToAddressee
    OrderedUntilReload
    MasterMissesNothing
