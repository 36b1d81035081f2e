SPECIFICATION Spec
CONSTANTS
    s1 = s1
    s2 = s2
    b1 = b1
    b2 = b2
    Stream <- MCStream
    Bars <- MCBars
    Delivery <- WholeCycles
    None = None
    SegmentDuration = 2
    Retention = 1
    HotCapacity = 1
    MaxTime = 2
    MaxStep = 2
    MaxCycles = 2
    MaxTicks = 2
    MaxRuns = 2
    MaxFaults = 1
SYMMETRY CaptureSymmetry
CHECK_DEADLOCK FALSE
INVARIANTS SegmentsSound ReplaySeesWhatTheTickSaw
PROPERTY KeepsTheLog
