SPECIFICATION FairWatchSpec
CONSTANTS
    a1 = a1
    a2 = a2
    a3 = a3
    web = web
    UID <- MCUID
    Name <- MCName
    NameOf <- MCNameOf
    Incarnations <- MCIncarnations
    NoUID = NoUID
    NoRole = NoRole
    Role = {deployment}
    FullRetention = 1
    StubRetention = 2
    MaxEntries = 1
    MaxTime = 3
    MaxGrace = 1
    MaxPending = 1
    MaxRestarts = 1
CHECK_DEADLOCK FALSE
INVARIANTS StoreSound SettledAudit LateSampleJoinsItsOwn
PROPERTIES TombstoneFinal EventuallyMatches
