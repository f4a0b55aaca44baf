-------------------------- MODULE CheckoutInvariant --------------------------
(***************************************************************************)
(* The inductive invariant of Checkout: how the order, payment and receipt *)
(* rows, the requests in progress and Stripe's sessions stay consistent.   *)
(***************************************************************************)
EXTENDS CheckoutRefinement

\* A payment row is inserted whole, for an order and with a key.
RowsAreWhole ==
    \A p \in Payments :
        IF payments[p].status = "absent"
          THEN payments[p].order = None /\ payments[p].session = None
          ELSE payments[p].order # None /\ payments[p].key # None

\* A session is created for an existing attempt, and stored only by its own attempt.
SessionsHaveAttempts ==
    /\ \A s \in Sessions :
         IF sessions[s].state = "absent" THEN sessions[s].payment = None
         ELSE sessions[s].payment # None /\ payments[sessions[s].payment].status # "absent"
    /\ \A p \in Payments :
         payments[p].session # None => sessions[payments[p].session].payment = p

\* A request past its first transaction works for an attempt of its own order, and has an
\* answer about that attempt.
RequestsHaveAttempts ==
    \A r \in Requests :
        /\ requests[r].pc \in {"calling", "created", "rejected"} =>
             /\ payments[requests[r].payment].status # "absent"
             /\ payments[requests[r].payment].order = requests[r].order
        /\ requests[r].pc = "created" =>
             sessions[requests[r].session].payment = requests[r].payment

\* A URL is returned only after its session was stored, so it is the attempt's only one;
\* and only through a URL is a session paid.
DisclosedIsStored ==
    /\ \A s \in disclosed :
         sessions[s].payment # None /\ payments[sessions[s].payment].session = s
    /\ \A s \in Sessions :
         sessions[s].state \in {"processing", "paid", "refused"} => s \in disclosed

\* What Stripe emitted about a session agrees with where the session is.
StatesAfter == [ completed_paid   |-> {"paid"},
                 completed_unpaid |-> {"processing", "paid", "refused"},
                 async_succeeded  |-> {"paid"},
                 async_failed     |-> {"refused"},
                 expired          |-> {"expired"} ]

EventsAreTrue ==
    /\ \A e \in emitted : sessions[e.session].state \in StatesAfter[e.kind]
    /\ \A e \in Events : receipts[e] # "none" => e \in emitted

\* The row of an attempt agrees with its session at Stripe.
RowsAgreeWithStripe ==
    \A s \in Sessions :
        /\ sessions[s].state = "paid" =>
             payments[sessions[s].payment].status \in {"pending", "succeeded"}
        /\ sessions[s].state = "processing" =>
             payments[sessions[s].payment].status = "pending"
        /\ Chargeable(s) => payments[sessions[s].payment].status = "pending"

SucceededIsPaid ==
    \A p \in Payments : payments[p].status = "succeeded" =>
        \E s \in Sessions : sessions[s].state = "paid" /\ sessions[s].payment = p

\* Acceptance waits for a succeeded payment and cancellation for no blocking one, so a
\* payment that may still succeed belongs to an order that is still open.
OrdersWaitForPayments ==
    /\ \A p \in Payments :
         /\ payments[p].status = "pending" => orders[payments[p].order].status = "created"
         /\ payments[p].status = "succeeded" =>
              orders[payments[p].order].status \notin {"absent", "cancelled"}
    /\ \A o \in Orders :
         orders[o].status \in {"accepted", "preparing", "ready", "completed"}
           => HasStatus(o, "succeeded")

Consistent ==
    /\ RowsAreWhole
    /\ SessionsHaveAttempts
    /\ RequestsHaveAttempts
    /\ DisclosedIsStored
    /\ EventsAreTrue
    /\ RowsAgreeWithStripe
    /\ SucceededIsPaid
    /\ OneBlockingAttempt
    /\ OrdersWaitForPayments

\* For OneSessionPerAttempt: a session is no older than its attempt, and a request calls
\* Stripe only for an attempt that was young enough when the request read the clock.
CallsAreTimely ==
    /\ \A s \in Sessions :
         sessions[s].state # "absent" => age[s] <= age[sessions[s].payment]
    /\ \A r \in Requests :
         /\ requests[r].pc \in {"waiting", "calling"} => age[r] <= Slack
         /\ requests[r].pc = "calling" => Retriable(r, requests[r].payment)
=============================================================================
