SPECIFICATION BothSpec
CONSTANTS
    BufSize = 2
    Mtu = 3
    PoolSize = 4
    MaxAlloc = 10
    Lens = {1, 3}
    MaxKept = 1
    None = None
    TxBds = 6
    MaxFrags = 3
    MaxPackets = 5
    MaxBurst = 1
INVARIANTS DeliveredWhole SpaceConserved HangsOnlyAfterKept SentInOrder FreedOnceSent
PROPERTIES ReceptionResumes RingRespected EventuallyFreed
CHECK_DEADLOCK FALSE
