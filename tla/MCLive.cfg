CONSTANTS
    Orders = {o1}
    Payments = {p1, p2}
    Keys = {k1, k2}
    Requests = {r1}
    Sessions = {s1, s2}
    Foreign = {}
    RetryLimit = 1
    KeyRetention = 2
    SessionLife = 1
    Slack = 1
    None = None
SPECIFICATION FairSpec
PROPERTIES
    SessionResolvesAttempt
    ImplementsPaidOrder
