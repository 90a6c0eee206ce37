SPECIFICATION Spec
CONSTANTS
    m = m
    a = a
    b = b
    Devices = {m, a, b}
    Master = m
    NoDevice = NoDevice
    PPI <- MCPPI
    Width <- MCWidth
    Height <- MCHeight
    Offset <- MCOffset
    SwipeEdges <- MCSwipeEdges
    Unit = 4
    MaxSwipes = 3
    MaxQuits = 1
    MaxDrops = 1
INVARIANTS
    TypeOK
    NeighboursTouch
    OneSize
    SteadyAgree
    MarksStay
PROPERTIES
    QuitIsHonoured
CHECK_DEADLOCK FALSE
