SPECIFICATION OneWaySpec
CONSTANTS
    QCount = 4
    FirstMbox = 2
    LastMbox = 4
    PbufLen = 30
    Dlen <- MCDlen
    RtrFrames = {3}
    MaxUdp = 6
    MaxCan = 6
    MaxPerPacket = 3
    MaxAllocFail = 2
INVARIANT NoStranding
INVARIANT RxInOrder
 
PROPERTY TxDropsOnlyWhenFull
PROPERTY NoOvertakingWaiting
PROPERTY RxDelivered
PROPERTY ToCanIsChannel
PROPERTY ToUdpIsChannel
