SPECIFICATION Spec
CONSTANTS
    Cyclic <- TwoCyclic
    Interval <- TwoIntervals
    Quiet <- TwoQuiet
    Delay <- Delays
    PoolSize = 8
    TimeMod = 14
    MaxTc = 1
    MaxLate = 1
    Overlap = TRUE
INVARIANT CyclicArmed
CHECK_DEADLOCK FALSE
