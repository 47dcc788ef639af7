SPECIFICATION BothSpec
CONSTANTS
    Total = 17
    Hdr = 2
    MinSize = 2
    Requests = {1, 2, 3, 5}
    Neighbors = {a, r}
    Routers = {r}
    Remote = {x}
    None = None
    NumNeighbors = 2
    NumDests = 1
    NumRouters = 1
    QueueMax = 2
    MaxSolicit = 1
    ReachTicks = 1
    DelayTicks = 1
    Lifetimes = {1}
    MaxAge = 0
    MaxPackets = 1
    MaxAdverts = 1
    MaxRedirects = 1
    MaxNested = 1
INVARIANTS LinkAddressRight HeldOnce RoutersPinned  HeapSane MallocFindsFit
CHECK_DEADLOCK FALSE
