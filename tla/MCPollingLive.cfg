CONSTANTS
    Orders = {o1}
    GuestOrders = {o1}
    Sessions = {a1}
    Requests = {q1, q2}
    Unresolved = Unresolved
    None = None
SPECIFICATION FairSpec
PROPERTIES
    EventuallyCurrent
