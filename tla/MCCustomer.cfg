CONSTANTS
    Tabs = {t1, t2}
    Holders = {t1, t2}
    Customers = {t1}
    Fragile = {t2}
    Keys = {k1, k2}
    Requests = {r1, r2}
    Providers = {"stripe_test", "demo"}
    None = None
SPECIFICATION Spec
SYMMETRY KeySymmetry
INVARIANTS
    FeedbackIsTrue
    Agreement
PROPERTIES
    ReplacesOnlyFinished
    ClearsItsOwnCart
    NoGuestAfterRejection
