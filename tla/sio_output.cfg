SPECIFICATION FairSpec
CONSTANTS
    MaxOut = 2
    RxFifo = 1
    NestedConsole = TRUE
INVARIANTS BusyHasInterrupt
PROPERTIES NoOutputLost Drained
