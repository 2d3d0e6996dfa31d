SPECIFICATION FairSpec
CONSTANTS
    Assets = {BTC}
    Threads = {t1}
    BTC = BTC
    t1 = t1
    Nobody = Nobody
    Faults = {"timeout", "late", "refuse", "redirect", "garble", "outage", "crash"}
    MaxFaults = 2
    MaxRetries = 1
    MaxHour = 1
PROPERTIES
    ClickDecides
    RequestAnswered
    ScanCompletes
