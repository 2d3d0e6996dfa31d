SPECIFICATION Spec
CONSTANTS
    Assets = {BTC}
    Threads = {t1}
    BTC = BTC
    t1 = t1
    Nobody = Nobody
    Faults = {"garble"}
    MaxFaults = 1
    MaxRetries = 0
    MaxHour = 1
INVARIANTS
    FailureIsRecorded
