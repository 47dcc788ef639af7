SPECIFICATION Spec
CONSTANTS
    NumIfaces = 4
    NumUdpPcb = 4
    QCount = 3
    NumMbox = 2
    DgramFrames = 1
    MaxUdp = 2
    MaxCan = 0
    MaxAllocFail = 0
INVARIANT TxIsolated
