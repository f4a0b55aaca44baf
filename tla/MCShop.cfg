SPECIFICATION ShopSpec
CONSTANTS
    soup = soup
    fish = fish
    ann = ann
    shared = shared
    Items <- MCItems
    MaxQuantity = 2
    MaxUnique = 1
    MaxVisits = 2
    MaxPresses = 2
    MaxSessions = 1
    Accounts <- MCAccounts
    DemoAccount = shared
    Seconds <- MCSeconds
    None = None
    MaxLogins = 2
    MaxRequests = 3
    MaxCalls = 1
    MaxReloads = 1
SYMMETRY Symmetry
INVARIANTS
    ShopTypeOK
    QuoteFollowsTheCart
    OneRunPerVisit
    NothingAfterRejection
    SessionAgrees
    RetiredSessionsStayOut
    SessionsEndByTheirOwn
    NeverWaitsForNothing
