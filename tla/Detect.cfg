SPECIFICATION Spec
CONSTANTS
    c1 = c1
    p1 = p1
    p2 = p2
    n1 = n1
    Entity <- MCEntity
    KindOf <- MCKindOf
    PodOf <- MCPodOf
    Edge <- MCEdge
    Phenomenon <- MCPhenomenon
    Selected <- MCSelected
    CompletenessNum = 1
    CompletenessDen = 2
    Sighting <- MCSighting
    Window = 1
    MaxTime = 3
INVARIANTS FullIsWitnessed LessIsNeverMore CascadesTellTheHistory
PROPERTY StoryWasAtRisk
CHECK_DEADLOCK FALSE
