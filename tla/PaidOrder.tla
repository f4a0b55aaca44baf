------------------------------ MODULE PaidOrder ------------------------------
(***************************************************************************)
(* What the restaurant promises about the money of an order, whatever the  *)
(* requests, retries and events behind it: an order is charged at most     *)
(* once, only while it is open; what was taken is recorded; the kitchen    *)
(* works on recorded orders only, and only an uncharged order is cancelled.*)
(***************************************************************************)
CONSTANT Orders

VARIABLES
    phase,    \* absent, open, fulfilled (accepted or later) or cancelled
    money,    \* none, processing (an asynchronous method is settling) or taken
    recorded  \* the order has a succeeded payment row

vars == <<phase, money, recorded>>

Init ==
    /\ phase = [o \in Orders |-> "absent"]
    /\ money = [o \in Orders |-> "none"]
    /\ recorded = [o \in Orders |-> FALSE]

Place(o) ==
    /\ phase[o] = "absent"
    /\ phase' = [phase EXCEPT ![o] = "open"]
    /\ UNCHANGED <<money, recorded>>

Charge(o) ==
    /\ phase[o] = "open"
    /\ money[o] = "none"
    /\ \E m \in {"processing", "taken"} : money' = [money EXCEPT ![o] = m]
    /\ UNCHANGED <<phase, recorded>>

\* The asynchronous method succeeds or fails.
Settle(o) ==
    /\ money[o] = "processing"
    /\ \E m \in {"none", "taken"} : money' = [money EXCEPT ![o] = m]
    /\ UNCHANGED <<phase, recorded>>

Record(o) ==
    /\ money[o] = "taken"
    /\ ~recorded[o]
    /\ recorded' = [recorded EXCEPT ![o] = TRUE]
    /\ UNCHANGED <<phase, money>>

Accept(o) ==
    /\ phase[o] = "open"
    /\ recorded[o]
    /\ phase' = [phase EXCEPT ![o] = "fulfilled"]
    /\ UNCHANGED <<money, recorded>>

Cancel(o) ==
    /\ phase[o] = "open"
    /\ money[o] = "none"
    /\ phase' = [phase EXCEPT ![o] = "cancelled"]
    /\ UNCHANGED <<money, recorded>>

Next == \E o \in Orders :
    Place(o) \/ Charge(o) \/ Settle(o) \/ Record(o) \/ Accept(o) \/ Cancel(o)

Safe == Init /\ [][Next]_vars

\* Money that was taken is eventually recorded.
Spec == Safe /\ \A o \in Orders : WF_vars(Record(o))
=============================================================================
