SPECIFICATION Spec
CONSTANTS
    QCount = 3
    FirstMbox = 2
    LastMbox = 3
    PbufLen = 30
    Dlen <- MCDlen
    RtrFrames = {4}
    MaxUdp = 4
    MaxCan = 0
    MaxPerPacket = 2
    MaxAllocFail = 0
INVARIANT RemoteHasNoData
