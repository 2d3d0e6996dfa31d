SPECIFICATION Spec
CONSTANTS
    Assets = {BTC}
    Threads = {t1}
    BTC = BTC
    t1 = t1
    Nobody = Nobody
    Faults = {"timeout", "late", "garble"}
    MaxFaults = 1
    MaxRetries = 1
    MaxHour = 2
INVARIANTS
    TypeOK
    RejectedMeansNoOrder
    FiredOpenMatchesArb
    OpensSeparatedByClose
    Lineage
    FailedOrderIsRetryable
    NoSilentOrder
PROPERTIES
    RetryOpensAnew
