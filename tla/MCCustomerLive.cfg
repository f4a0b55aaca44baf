CONSTANTS
    Tabs = {t1}
    Holders = {t1}
    Customers = {t1}
    Fragile = {t1}
    Keys = {k1, k2}
    Requests = {r1}
    Providers = {"stripe_test", "demo"}
    None = None
SPECIFICATION FairSpec
PROPERTY ReplacesEndedAttempt
