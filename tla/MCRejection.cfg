CONSTANTS
    Orders = {o1}
    Payments = {p1, p2}
    Keys = {k1, k2}
    Requests = {r1, r2}
    Sessions = {s1, s2}
    Foreign = {}
    RetryLimit = 1
    KeyRetention = 2
    SessionLife = 2
    Slack = 1
    None = None
SYMMETRY Symmetry
SPECIFICATION Spec
PROPERTIES
    RejectionPrecedesCreation
