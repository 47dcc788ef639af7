SPECIFICATION Spec
CONSTANTS
    s1 = s1
    s2 = s2
    Services = {s1, s2}
    Arguments <- OneArgument
    MaxEvents = 1
    MaxNew = 1
    MaxFrames = 2
INVARIANT EventHasBridge
INVARIANT CrossesOnce
CHECK_DEADLOCK FALSE
PROPERTY EventuallyCopied
PROPERTY DiscoveredIsBridged
