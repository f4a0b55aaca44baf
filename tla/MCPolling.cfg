CONSTANTS
    Orders = {o1, o2}
    GuestOrders = {o1}
    Sessions = {a1, a2}
    Requests = {q1, q2}
    Unresolved = Unresolved
    None = None
SYMMETRY Symmetry
SPECIFICATION Spec
INVARIANTS
    Coherent
PROPERTIES
    StatusNeverRegresses
    NoGuestAfterRejection
