SPECIFICATION Spec
CONSTANTS
    Nil = Nil
    Cumulative = {"throttle", "psi"}
    MaxRatio = 1
    EvidenceWindow = 8
    Rank <- MCRank
    Dirs = {d1, d2}
    Bases <- MCBases
    FirstBase = "kg"
    Docs <- MCDocs
    Slots = 2
    Names = {"v1", "v2"}
    Proposals <- MCProposals
    Ledgers <- MCLedgers
    Plans <- MCPlans
    StageReports <- MCStageReports
    Inventory <- MCInventory
    Configuration <- MCConfiguration
    Platform <- MCPlatform
    Evidence <- MCEvidence
    FallbackMemory = 100
    MaxEdits = 3
INVARIANTS LintMirrorsLoader EffectIsClassed ApprovedWasTested RolloutIsHonest
PROPERTY ReleasesOutliveTheTree
SYMMETRY MCSymmetry
CHECK_DEADLOCK FALSE
