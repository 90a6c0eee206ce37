\* Three masters that may invite the device, native or a browser.
CONSTANTS
    Servers = {a, b, c}
    Blank = Blank
    Nothing = Nothing
    MaxPolls = 2
SPECIFICATION FairLibrarySpec
INVARIANTS
    LibraryTypeOK
    ConnectedIsOpen
    ScreenFollows
    ReconnectsOnce
PROPERTIES
    StaysWithItsMaster
    BackToDisconnected
