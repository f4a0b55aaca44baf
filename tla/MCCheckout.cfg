CONSTANTS
    Orders = {o1}
    Payments = {p1, p2}
    Keys = {k1, k2}
    Requests = {r1, r2}
    Sessions = {s1, s2}
    Foreign = {f1}
    RetryLimit = 1
    KeyRetention = 1
    SessionLife = 1
    Slack = 1
    None = None
SYMMETRY Symmetry
SPECIFICATION Spec
INVARIANTS
    TypeOK
    Consistent
    NoDoubleCharge
    CancelledIsNeverCharged
    FulfilledIsPaid
PROPERTIES
    ImplementsPaidOrderSafely
