SPECIFICATION Spec
CONSTANTS
    mem = mem
    disk = disk
    MinContext = 2
    DropPercent = 50
    PersistWindow = 2
    MaxExplained = 50
    FlatPercent = 5
    FlatTail = 3
    MaxBand = 40
    TargetSets <- MCTargetSets
    Values <- MCValues
    Answers <- MCAnswers
    Cadence = 1
    ClearAfter = 1
    Reach = 2
    Ago = {1}
    Start = 6
    MaxTime = 8
    MaxWindows = 1
    MaxBusy = 1
INVARIANTS ShownOrSilent AgingIsMarginal SoonIsNotNow ContextIsClean
PROPERTY DegradedIsStated
CHECK_DEADLOCK FALSE
