\* One master with an unreliable radio, which may try twice, and one reliable
\* master that shares the queue of the device with it.
CONSTANTS
    Masters = {a, b}
    NoMaster = NoMaster
    MaxRetries = 1
    Fragile = {a}
    MaxAttempts = 2
    MaxTimers = 2
SPECIFICATION FairAddressSpec
INVARIANTS
    AddressTypeOK
    TriesBounded
    OneWriteAtATime
PROPERTIES
    EveryWriteIsAnswered
CHECK_DEADLOCK FALSE
