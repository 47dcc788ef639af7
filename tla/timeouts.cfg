SPECIFICATION Spec
CONSTANTS
    Cyclic <- TwoCyclic
    Interval <- TwoIntervals
    Quiet <- TwoQuiet
    Delay <- Delays
    PoolSize = 6
    TimeMod = 10
    MaxTc = 1
    MaxLate = 1
    Overlap = FALSE
 
INVARIANT NotEarly
INVARIANT CyclicArmed
PROPERTY CyclicFires
