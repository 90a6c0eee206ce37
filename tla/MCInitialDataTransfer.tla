----------------------- MODULE MCInitialDataTransfer -----------------------
\* InitialDataTransfer on small instances; devices are interchangeable.
EXTENDS InitialDataTransfer, TLC

Symmetry == Permutations(Devices)
=============================================================================
