------------------------- MODULE CheckoutRefinement -------------------------
(***************************************************************************)
(* Checkout implements PaidOrder: the money of an order is what Stripe's   *)
(* sessions of all its attempts took together.                             *)
(***************************************************************************)
EXTENDS Checkout

SessionIn(o, state) == \E s \in Sessions : sessions[s].state = state /\ OrderOf(s) = o

PhaseOf(status) ==
    CASE status = "absent" -> "absent"
      [] status = "created" -> "open"
      [] status = "cancelled" -> "cancelled"
      [] OTHER -> "fulfilled"

MoneyOf(o) ==
    IF SessionIn(o, "paid") THEN "taken"
    ELSE IF SessionIn(o, "processing") THEN "processing" ELSE "none"

Promise == INSTANCE PaidOrder WITH
    phase    <- [o \in Orders |-> PhaseOf(orders[o].status)],
    money    <- [o \in Orders |-> MoneyOf(o)],
    recorded <- [o \in Orders |-> HasStatus(o, "succeeded")]

\* Every step of the code is a step of the promise or leaves it as it is, and money that
\* Stripe took is eventually recorded.
ImplementsPaidOrder == Promise!Spec
ImplementsPaidOrderSafely == Promise!Safe
=============================================================================
