SPECIFICATION LeaseSpec
CONSTANTS
    n1 = n1
    n2 = n2
    EdgeType = {"node-lease"}
    CEI <- MCCEI
    Edge <- MCEdge
    Budget <- MCBudget
    NodeSeq <- MCNodeSeq
    NoNode = NoNode
    Horizon = 2
    Lag = 0
    Lead = 0
    MaxTime = 4
    MaxSkew = 1
    MaxPending = 1
    MaxHandling = 1
INVARIANTS EdgeInv SilentNodeIsSuspect
PROPERTIES HistoryKept RevivedOnlyByRenewal
CHECK_DEADLOCK FALSE
