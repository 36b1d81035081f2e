SPECIFICATION FairPlacementSpec
CONSTANTS
    w1 = w1
    w2 = w2
    n1 = n1
    n2 = n2
    c1 = c1
    EdgeType <- MCType
    CEI <- MCCEI
    Edge <- MovingEdges
    Budget <- MCBudget
    PodSeq <- OnePod
    NodeSeq <- TwoNodes
    Claim = {c1}
    NoNode = NoNode
    Horizon = 2
    Lag = 0
    Lead = 0
    MaxTime = 4
    MaxPending = 1
    MaxHandling = 1
INVARIANT PlacementSound
PROPERTY PlacementSettles
CHECK_DEADLOCK FALSE
