SPECIFICATION ServiceSpec
CONSTANTS
    c1 = c1
    c2 = c2
    soup = soup
    stew = stew
    MenuItemIds = {1, 2}
    CategoryIds <- MCCategories
    Home <- MCHome
    Names = {soup, stew}
    Called <- MCCalled
    Buyers = {b1}
    Editors = {e1, e2}
    MaxEdits = 1
    Threads = {t1, t2, t3}
    Limit = 1
    Window = 3
    Delay = 1
    MaxTime = 7
    Nothing = Nothing
    Calls = {r1, r2, r3}
    PoolSize = 2
    NoCall = NoCall
    Operators = {o1, o2}
    HeadRevision = 2
    Nobody = Nobody
CHECK_DEADLOCK FALSE
INVARIANTS
    ServiceTypeOK
    CirclesAreTrades
    BurstBounded
PROPERTIES
    SnapshotsAreCurrent
    OperatorsTakeTurns
    EveryCallEnds
