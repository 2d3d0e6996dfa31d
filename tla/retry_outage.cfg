SPECIFICATION Spec
CONSTANTS
    Assets = {BTC}
    Threads = {t1, t2}
    BTC = BTC
    t1 = t1
    t2 = t2
    Nobody = Nobody
    Faults = {"outage"}
    MaxFaults = 1
    MaxRetries = 1
    MaxHour = 1
INVARIANTS
    NoChurn
