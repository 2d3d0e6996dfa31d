SPECIFICATION FairSpec
CONSTANTS
    Loads = {l1, l2}
    BTC = BTC
    Page <- OneRow
    Listed = {BTC}
    Ttl = 2
    MaxStep = 1
    MaxClock = 5
INVARIANTS
    WebTypeOK
    CacheIsRecent
    SpotFailureFades
    OneScanAtATime
    LoopLivesOn
PROPERTIES
    PageLoadEnds
    ShutdownEnds
CHECK_DEADLOCK FALSE
