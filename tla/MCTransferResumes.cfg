\* Two devices that subscribe at the same time; no link breaks in a transfer.
CONSTANTS
    Devices = {d1, d2}
    Chunks = 2
    MaxBreaks = 0
SPECIFICATION FairSpec
PROPERTY StoppedTransferResumes
