SPECIFICATION Spec
CONSTANTS
    Cumulative = {"throttle", "periods", "restarts", "psi"}
    MaxRatio = 1
    EvidenceWindow = 8
    Rank <- MCRank
    Graph <- MCGraph
    Inventories <- MCInventories
    Configurations <- MCConfigurations
    Platforms <- MCPlatforms
    Sightings <- MCSightings
    Topologies <- MCTopologies
    Ceiling = 1
    FallbackMemory = 100
    DriftTicks = 2
    MaxEdits = 1
INVARIANT LoadedRulesBind
