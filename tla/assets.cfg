SPECIFICATION LockedSpec
CONSTANTS
    Assets = {BTC, ETH}
    Threads = {t1, t2}
    BTC = BTC
    ETH = ETH
    t1 = t1
    t2 = t2
    Nobody = Nobody
    Faults = {"redirect", "outage"}
    MaxFaults = 1
    MaxRetries = 0
    MaxHour = 1
SYMMETRY Symmetry
INVARIANTS
    Lineage
    RowInv
