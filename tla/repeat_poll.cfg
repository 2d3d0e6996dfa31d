SPECIFICATION Spec
CONSTANTS
    Assets = {BTC}
    Threads = {t1}
    BTC = BTC
    t1 = t1
    Nobody = Nobody
    Faults = {}
    MaxFaults = 1
    MaxRetries = 0
    MaxHour = 2
INVARIANTS
    RepeatPollInsertsNothing
