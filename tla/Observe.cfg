SPECIFICATION ObserveSpec
CONSTANTS
    Runtime <- MCRuntime
    Levels = {0, 11}
    Lags = {0, 2}
    MaxLag = 2
    Bindings <- MCBindings
    Types <- MCTypes
    HotCapacity = 4
    ScrapeInterval = 1
    RateWindow = 4
    Watermark = 2
    Band = 5
    WellAbove = 110
    MaxTime = 4
    MaxWork = 2
    MaxRestarts = 1
    MaxIncarnations = 2
    MaxShifts = 1
INVARIANTS RingsAreUnmixed FingerprintTellsTheTruth
CHECK_DEADLOCK FALSE
