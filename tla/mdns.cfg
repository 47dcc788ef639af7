SPECIFICATION BothSpec
CONSTANTS
    Sources = {a, b}
    Unique = {"host"}
    Shared = {"ptr"}
    Queries <- MCQueries
    ResponseDelay = 1
    ProbeTimeout = 2
    MulticastTimeout = 3
    TtlTimeout = 4
    ProbeDelay = 2
    AnnounceDelay = 3
    TiebreakDelay = 3
    LimitDelay = 4
    TcDelay = 2
    ProbeCount = 2
    AnnounceCount = 2
    StoredPkts = 2
    MaxQueries = 2
    MaxConflicts = 2
    MaxFails = 1
    Attempts = 1
    MaxDelay = 3
    MaxMldQueries = 2
    MaxHeard = 1
    MaxLost = 1
INVARIANTS ProbedBeforeAnnounced OneTimerEach PutOffIsSent ClaimHonoured 
PROPERTIES Settles QueryAnswered
CHECK_DEADLOCK FALSE
