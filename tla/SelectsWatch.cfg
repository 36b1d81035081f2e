SPECIFICATION FairSelectsSpec
CONSTANTS
    u1 = u1
    u2 = u2
    p1 = p1
    s1 = s1
    s2 = s2
    EdgeType = {"selects"}
    CEI <- MCCEI
    Edge <- MCEdge
    Budget <- MCBudget
    Incarnation <- MCIncarnation
    Pod <- MCPod
    Slice <- MCSlice
    Horizon = 2
    Lag = 0
    Lead = 0
    MaxTime = 3
    MaxChanges = 2
    MaxPending = 2
    MaxHandling = 1
PROPERTY SelectsSettles
CHECK_DEADLOCK FALSE
