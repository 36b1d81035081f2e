SPECIFICATION Spec
CONSTANTS
    pod = pod
    node = node
    cpu = cpu
    mem = mem
    psi = psi
    Scope <- MCScope
    Metric <- MCMetric
    KindOf <- MCKindOf
    Match <- MCMatch
    Loudness <- MCLoudness
    MaxWindows = 4
INVARIANTS ChannelSound ClosedForItsReason EveryWindowCountedOnce
PROPERTIES OneAgingCard TimelineRecordsTheWindow
