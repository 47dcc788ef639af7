SPECIFICATION FairSpec
CONSTANTS
    NumIfaces = 3
    NumUdpPcb = 3
    QCount = 3
    NumMbox = 2
    DgramFrames = 1
    MaxUdp = 3
    MaxCan = 2
    MaxAllocFail = 1
INVARIANTS RxIsolated TxIsolatedWithoutOverlap
PROPERTIES EveryInterfaceServed
