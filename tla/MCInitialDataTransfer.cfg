\* Two devices at once, the information in two chunks, each link may break
\* once in a transfer.
CONSTANTS
    Devices = {d1, d2}
    Chunks = 2
    MaxBreaks = 1
SPECIFICATION Spec
SYMMETRY Symmetry
INVARIANTS
    TypeOK
    UndisturbedAccounted
    UndisturbedSubscribed
PROPERTY ExchangeSpec
