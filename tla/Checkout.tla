------------------------------ MODULE Checkout ------------------------------
(***************************************************************************)
(* Hosted checkout of restaurant orders: the PostgreSQL rows of an order   *)
(* and of its payment attempts, the HTTP requests that create, replay and  *)
(* recover one attempt around a call to Stripe made outside any            *)
(* transaction, the signed webhook that alone confirms an outcome, and the *)
(* administrator's fulfilment transitions.                                 *)
(*                                                                         *)
(* Every transaction of the code first locks the Order row FOR UPDATE and  *)
(* then the order's Payment rows, so one transaction is one action here.   *)
(* What happens between two transactions of a request interleaves freely.  *)
(*                                                                         *)
(* Time is relative: `age' counts the time units since a row, a session or *)
(* a request's reading of the clock came into being, and saturates at      *)
(* MaxAge, which no threshold the code compares with exceeds.              *)
(***************************************************************************)
EXTENDS OrderGraph, Naturals, Sequences, FiniteSets

CONSTANTS
    Orders,        \* orders, by their row
    Payments,      \* payment attempts: the rows that may ever be inserted
    Keys,          \* values of the Idempotency-Key header
    Requests,      \* server threads that handle checkout requests
    Sessions,      \* Checkout Sessions that Stripe may ever create
    Foreign,       \* signed events that correlate with no payment row
    RetryLimit,    \* PENDING_RETRY_LIMIT: an incomplete attempt is retried before it
    KeyRetention,  \* how long Stripe remembers an idempotency key
    SessionLife,   \* how long a Checkout Session stays payable
    Slack,         \* longest time from a request's clock reading to Stripe's handling of its call
    None           \* no value (SQL NULL)

ASSUME DistinctConstants ==
    /\ None \notin Orders \cup Payments \cup Keys \cup Sessions
    /\ Payments \cap Sessions = {}
    /\ Payments \cap Requests = {}
    /\ Sessions \cap Requests = {}

ASSUME TimeConstants ==
    /\ RetryLimit \in Nat \ {0}
    /\ KeyRetention \in Nat
    /\ SessionLife \in Nat
    /\ Slack \in Nat

\* The retry limit leaves a request enough time to reach Stripe before Stripe forgets the
\* key: 23 hours against 24.  Only OneSessionPerAttempt depends on it.
RetryMargin == RetryLimit + Slack <= KeyRetention

MaxAge ==
    LET Larger(a, b) == IF a > b THEN a ELSE b
    IN  Larger(KeyRetention, Larger(RetryLimit, SessionLife) + Slack)

VARIABLES
    orders,     \* order rows with their status history
    payments,   \* payment rows
    sessions,   \* Stripe's Checkout Sessions
    disclosed,  \* sessions whose URL was returned to a customer
    requests,   \* checkout requests in progress
    emitted,    \* events Stripe has emitted; each is delivered late, in any order, repeatedly
    receipts,   \* stripe_events rows: processing_result per event
    age         \* age of payment rows, sessions and clock readings

vars == <<orders, payments, sessions, disclosed, requests, emitted, receipts, age>>

-----------------------------------------------------------------------------
(* Statuses and the shapes of the rows.                                    *)

Terminal == {"succeeded", "failed", "expired"}
PaymentStatus == {"pending"} \cup Terminal
Blocking == {"pending", "succeeded"}

Kinds == {"completed_paid", "completed_unpaid", "async_succeeded", "async_failed", "expired"}
Events == [session : Sessions, kind : Kinds]
ASSUME ForeignDistinct == Foreign \cap Events = {}

Results == {"transitioned", "awaiting_async_payment", "already_applied", "reconciliation_required"}

\* Mutant: Stripe's word for the session is stored instead of the payment's own status.
ConfirmsStripeWord ==
    [ completed_paid   |-> "paid",   async_succeeded |-> "paid",
      async_failed     |-> "failed", expired         |-> "expired", completed_unpaid |-> "pending" ]

\* Mutant: a completed session counts as paid although its payment is still processing.
ConfirmsCompleted ==
    [ completed_paid   |-> "succeeded", async_succeeded |-> "succeeded",
      async_failed     |-> "failed",    expired         |-> "expired", completed_unpaid |-> "succeeded" ]

\* Mutant: the result of an asynchronous method is acknowledged and ignored.
ConfirmsOnlyCompleted ==
    [ completed_paid   |-> "succeeded", async_succeeded |-> "pending",
      async_failed     |-> "failed",    expired         |-> "expired", completed_unpaid |-> "pending" ]

\* The payment status an event of each kind confirms; "pending" confirms none.
Confirms == [ completed_paid   |-> "succeeded", async_succeeded |-> "succeeded",
              async_failed     |-> "failed",    expired         |-> "expired",
              completed_unpaid |-> "pending" ]

Idle == [pc |-> "idle", order |-> None, key |-> None, payment |-> None, session |-> None]

OrderRow   == [status : OrderStatus \cup {"absent"}, history : Seq(OrderStatus)]
PaymentRow == [status : PaymentStatus \cup {"absent"}, order : Orders \cup {None},
               key : Keys \cup {None}, session : Sessions \cup {None}]
SessionRow == [state : {"absent", "open", "processing", "paid", "refused", "expired"},
               payment : Payments \cup {None}]
RequestRow == [pc : {"idle", "waiting", "calling", "created", "rejected"},
               order : Orders \cup {None}, key : Keys \cup {None},
               payment : Payments \cup {None}, session : Sessions \cup {None}]

Clocks == Payments \cup Sessions \cup Requests

\* A request has what its place in checkout_order needs.
RequestRows ==
    /\ requests \in [Requests -> RequestRow]
    /\ \A r \in Requests :
         /\ requests[r].pc # "idle" => requests[r].order \in Orders /\ requests[r].key \in Keys
         /\ requests[r].pc \in {"calling", "created", "rejected"} => requests[r].payment \in Payments
         /\ requests[r].pc = "created" => requests[r].session \in Sessions

TypeOK ==
    /\ orders \in [Orders -> OrderRow]
    /\ payments \in [Payments -> PaymentRow]
    /\ sessions \in [Sessions -> SessionRow]
    /\ disclosed \subseteq Sessions
    /\ RequestRows
    /\ emitted \subseteq Events
    /\ receipts \in [Events \cup Foreign -> Results \cup {"none"}]
    /\ age \in [Clocks -> 0..MaxAge]

Init ==
    /\ orders = [o \in Orders |-> [status |-> "absent", history |-> <<>>]]
    /\ payments = [p \in Payments |->
                     [status |-> "absent", order |-> None, key |-> None, session |-> None]]
    /\ sessions = [s \in Sessions |-> [state |-> "absent", payment |-> None]]
    /\ disclosed = {}
    /\ requests = [r \in Requests |-> Idle]
    /\ emitted = {}
    /\ receipts = [e \in Events \cup Foreign |-> "none"]
    /\ age = [c \in Clocks |-> 0]

-----------------------------------------------------------------------------
(* What a transaction that holds the order's lock reads.                   *)

Attempts(o) == {p \in Payments : payments[p].status # "absent" /\ payments[p].order = o}
HasStatus(o, st) == \E p \in Attempts(o) : payments[p].status = st
HasBlocking(o) == \E p \in Attempts(o) : payments[p].status \in Blocking
OtherSucceeded(p) == \E q \in Attempts(payments[p].order) \ {p} : payments[q].status = "succeeded"
\* Mutant: the key is looked up without its order.
SameKeyOfAnyOrder(r) == {p \in Payments : payments[p].key = requests[r].key}
SameKey(r) == {p \in Attempts(requests[r].order) : payments[p].key = requests[r].key}

\* Mutant: an incomplete attempt is retried however old it is.
RetriableForever(r, p) == age[p] >= 0

\* Ages are compared at the clock reading of the request, age[r] time units ago.
Retriable(r, p) == age[p] < RetryLimit + age[r]
Unexpired(r, s) == age[s] < SessionLife + age[r]

-----------------------------------------------------------------------------
(* POST /orders: the order and its first history row.                      *)

CreateOrder(o) ==
    /\ orders[o].status = "absent"
    /\ orders' = [orders EXCEPT ![o] = [status |-> "created", history |-> <<"created">>]]
    /\ UNCHANGED <<payments, sessions, disclosed, requests, emitted, receipts, age>>

-----------------------------------------------------------------------------
(* POST /orders/{n}/checkout-session.  A request reads the clock when it   *)
(* arrives, then waits for the order's lock.                               *)

Arrive(r, o, k) ==
    /\ requests[r].pc = "idle"
    /\ requests' = [requests EXCEPT ![r] = [Idle EXCEPT !.pc = "waiting", !.order = o, !.key = k]]
    /\ age' = [age EXCEPT ![r] = 0]
    /\ UNCHANGED <<orders, payments, sessions, disclosed, emitted, receipts>>

Finish(r) ==
    /\ requests' = [requests EXCEPT ![r] = Idle]
    /\ age' = [age EXCEPT ![r] = 0]

Move(r, pc, p, s) ==
    requests' = [requests EXCEPT ![r] = [@ EXCEPT !.pc = pc, !.payment = p, !.session = s]]

\* Guards of the first transaction, before it looks for its key.
Payable(r) ==
    /\ requests[r].pc = "waiting"
    /\ orders[requests[r].order].status = "created"
    /\ ~HasStatus(requests[r].order, "succeeded")

\* The stored session of the pending attempt is returned again.
Replay(r, p) ==
    /\ Payable(r)
    /\ p \in SameKey(r)
    /\ payments[p].status = "pending"
    /\ payments[p].session # None
    /\ Unexpired(r, payments[p].session)
    /\ disclosed' = disclosed \cup {payments[p].session}
    /\ Finish(r)
    /\ UNCHANGED <<orders, payments, sessions, emitted, receipts>>

\* An attempt whose session was never stored calls Stripe again with its key.
Retry(r, p) ==
    /\ Payable(r)
    /\ p \in SameKey(r)
    /\ payments[p].status = "pending"
    /\ payments[p].session = None
    /\ Retriable(r, p)
    /\ Move(r, "calling", p, None)
    /\ UNCHANGED <<orders, payments, sessions, disclosed, emitted, receipts, age>>

\* Mutant: a new key does not look for another pending attempt.
CreateAttemptBesidePending(r, p) ==
    /\ Payable(r)
    /\ SameKey(r) = {}
    /\ payments[p].status = "absent"
    /\ payments' = [payments EXCEPT ![p] =
                      [status |-> "pending", order |-> requests[r].order,
                       key |-> requests[r].key, session |-> None]]
    /\ age' = [age EXCEPT ![p] = 0]
    /\ Move(r, "calling", p, None)
    /\ UNCHANGED <<orders, sessions, disclosed, emitted, receipts>>

\* A new key inserts a pending attempt, unless another one is pending.
CreateAttempt(r, p) ==
    /\ Payable(r)
    /\ SameKey(r) = {}
    /\ ~HasStatus(requests[r].order, "pending")
    /\ payments[p].status = "absent"
    /\ payments' = [payments EXCEPT ![p] =
                      [status |-> "pending", order |-> requests[r].order,
                       key |-> requests[r].key, session |-> None]]
    /\ age' = [age EXCEPT ![p] = 0]
    /\ Move(r, "calling", p, None)
    /\ UNCHANGED <<orders, sessions, disclosed, emitted, receipts>>

\* Every error the first transaction raises: it writes nothing.
Refuse(r) ==
    /\ requests[r].pc = "waiting"
    /\ \/ ~Payable(r)
       \/ SameKey(r) = {} /\ HasStatus(requests[r].order, "pending")
       \/ \E p \in SameKey(r) :
            \/ payments[p].status \in Terminal
            \/ payments[p].session # None /\ ~Unexpired(r, payments[p].session)
            \/ payments[p].session = None /\ ~Retriable(r, p)
    /\ Finish(r)
    /\ UNCHANGED <<orders, payments, sessions, disclosed, emitted, receipts>>

\* The session Stripe still remembers for the attempt's idempotency key.
Remembered(p) ==
    {s \in Sessions : /\ sessions[s].state # "absent"
                      /\ sessions[s].payment = p
                      /\ age[s] < KeyRetention}

\* Stripe answers with a session that it remembers ...
ProviderReplays(r, s) ==
    /\ requests[r].pc = "calling"
    /\ s \in Remembered(requests[r].payment)
    /\ Move(r, "created", requests[r].payment, s)
    /\ age' = [age EXCEPT ![r] = 0]
    /\ UNCHANGED <<orders, payments, sessions, disclosed, emitted, receipts>>

\* ... or creates one.
ProviderCreates(r, s) ==
    /\ requests[r].pc = "calling"
    /\ Remembered(requests[r].payment) = {}
    /\ sessions[s].state = "absent"
    /\ sessions' = [sessions EXCEPT ![s] = [state |-> "open", payment |-> requests[r].payment]]
    /\ Move(r, "created", requests[r].payment, s)
    /\ age' = [age EXCEPT ![s] = 0, ![r] = 0]
    /\ UNCHANGED <<orders, payments, disclosed, emitted, receipts>>

\* An error class the adapter calls definitive: credentials, permission, card, request,
\* or the key reused with other parameters.
ProviderRejects(r) ==
    /\ requests[r].pc = "calling"
    /\ Move(r, "rejected", requests[r].payment, None)
    /\ age' = [age EXCEPT ![r] = 0]
    /\ UNCHANGED <<orders, payments, sessions, disclosed, emitted, receipts>>

\* The request ends and writes nothing: an error the adapter calls ambiguous (with the
\* session created or not), a failed transaction, or the death of the process.
Lose(r) ==
    /\ requests[r].pc # "idle"
    /\ Finish(r)
    /\ UNCHANGED <<orders, payments, sessions, disclosed, emitted, receipts>>

\* Mutant: the answer of a retry replaces a stored session.
StorableAgain(r) ==
    LET p == requests[r].payment IN ~OtherSucceeded(p) /\ payments[p].status \in Blocking

\* The second transaction after an answer: what still allows it to be stored.
Storable(r) ==
    LET p == requests[r].payment IN
    /\ ~OtherSucceeded(p)
    /\ payments[p].status \in Blocking
    /\ payments[p].session \in {None, requests[r].session}

\* Mutant: what was true before the call to Stripe is not checked again after it.
PersistUnchecked(r) ==
    /\ requests[r].pc = "created"
    /\ payments' = [payments EXCEPT ![requests[r].payment].session = requests[r].session]
    /\ disclosed' = disclosed \cup {requests[r].session}
    /\ Finish(r)
    /\ UNCHANGED <<orders, sessions, emitted, receipts>>

PersistSuccess(r) ==
    LET p == requests[r].payment IN
    /\ requests[r].pc = "created"
    /\ Storable(r)
    /\ payments' = [payments EXCEPT ![p].session = requests[r].session]
    /\ disclosed' = IF payments[p].status = "pending"
                      THEN disclosed \cup {requests[r].session} ELSE disclosed
    /\ Finish(r)
    /\ UNCHANGED <<orders, sessions, emitted, receipts>>

DiscardAnswer(r) ==
    /\ requests[r].pc = "created"
    /\ ~Storable(r)
    /\ Finish(r)
    /\ UNCHANGED <<orders, payments, sessions, disclosed, emitted, receipts>>

\* Mutant: a rejection fails the attempt although another request stored its session.
FailAttemptWithSession(r) ==
    /\ requests[r].pc = "rejected"
    /\ payments[requests[r].payment].status = "pending"
    /\ payments' = [payments EXCEPT ![requests[r].payment].status = "failed"]
    /\ Finish(r)
    /\ UNCHANGED <<orders, sessions, disclosed, emitted, receipts>>

\* The second transaction after a definitive rejection.
FailAttempt(r) ==
    LET p == requests[r].payment IN
    /\ requests[r].pc = "rejected"
    /\ ~HasStatus(payments[p].order, "succeeded")
    /\ payments[p].status = "pending"
    /\ payments[p].session = None
    /\ payments' = [payments EXCEPT ![p].status = "failed"]
    /\ Finish(r)
    /\ UNCHANGED <<orders, sessions, disclosed, emitted, receipts>>

ReturnStored(r) ==
    LET p == requests[r].payment IN
    /\ requests[r].pc = "rejected"
    /\ ~HasStatus(payments[p].order, "succeeded")
    /\ payments[p].status = "pending"
    /\ payments[p].session # None
    /\ disclosed' = disclosed \cup {payments[p].session}
    /\ Finish(r)
    /\ UNCHANGED <<orders, payments, sessions, emitted, receipts>>

ReportRejection(r) ==
    LET p == requests[r].payment IN
    /\ requests[r].pc = "rejected"
    /\ HasStatus(payments[p].order, "succeeded") \/ payments[p].status # "pending"
    /\ Finish(r)
    /\ UNCHANGED <<orders, payments, sessions, disclosed, emitted, receipts>>

-----------------------------------------------------------------------------
(* Stripe and the customer, as the code relies on them.  A session is paid *)
(* through its URL, so only once that URL was returned to a customer.      *)

SessionMoves(s, from, to, kind) ==
    /\ sessions[s].state = from
    /\ sessions' = [sessions EXCEPT ![s].state = to]
    /\ emitted' = emitted \cup {[session |-> s, kind |-> kind]}
    /\ UNCHANGED <<orders, payments, disclosed, requests, receipts, age>>

Reachable(s) == s \in disclosed /\ age[s] < SessionLife

Pay(s)            == Reachable(s) /\ SessionMoves(s, "open", "paid", "completed_paid")
PayLater(s)       == Reachable(s) /\ SessionMoves(s, "open", "processing", "completed_unpaid")
AsyncSucceeds(s)  == SessionMoves(s, "processing", "paid", "async_succeeded")
AsyncFails(s)     == SessionMoves(s, "processing", "refused", "async_failed")
ExpireSession(s)  == age[s] >= SessionLife /\ SessionMoves(s, "open", "expired", "expired")

-----------------------------------------------------------------------------
(* POST /payments/webhooks/stripe, one verified event.  An event that has  *)
(* a receipt is a duplicate and changes nothing.                           *)

EventPayment(e) == sessions[e.session].payment

\* Mutant: the session identifier of the event is not compared.
IntegrityIgnoresSession(e) == payments[EventPayment(e)].order # None
\* Mutant: an event is refused when the answer with its session was never stored.
IntegrityNeedsStored(e) == payments[EventPayment(e)].session = e.session

IntegrityMatches(e) == payments[EventPayment(e)].session \in {None, e.session}

\* Mutant: the last event wins.
LastEventWins(e) ==
    IF IntegrityMatches(e) /\ Confirms[e.kind] # "pending"
      THEN "transitioned" ELSE "reconciliation_required"

TransitionDecision(e) ==
    LET p == EventPayment(e)
        now == payments[p].status
        target == Confirms[e.kind]
    IN  IF ~IntegrityMatches(e) \/ (target = "succeeded" /\ OtherSucceeded(p))
          THEN "reconciliation_required"
        ELSE IF target = "pending"
          THEN IF now = "pending" THEN "awaiting_async_payment" ELSE "reconciliation_required"
        ELSE IF now = "pending" THEN "transitioned"
        ELSE IF now = target THEN "already_applied"
        ELSE "reconciliation_required"

\* Mutant: no check for an earlier receipt.
ProcessAgain(e) ==
    /\ e \in emitted
    /\ receipts' = [receipts EXCEPT ![e] = TransitionDecision(e)]
    /\ payments' = IF TransitionDecision(e) = "transitioned"
                     THEN [payments EXCEPT ![EventPayment(e)].status = Confirms[e.kind]]
                     ELSE payments
    /\ UNCHANGED <<orders, sessions, disclosed, requests, emitted, age>>

ProcessEvent(e) ==
    /\ e \in emitted
    /\ receipts[e] = "none"
    /\ receipts' = [receipts EXCEPT ![e] = TransitionDecision(e)]
    /\ payments' = IF TransitionDecision(e) = "transitioned"
                     THEN [payments EXCEPT ![EventPayment(e)].status = Confirms[e.kind]]
                     ELSE payments
    /\ UNCHANGED <<orders, sessions, disclosed, requests, emitted, age>>

ProcessForeignEvent(e) ==
    /\ receipts[e] = "none"
    /\ receipts' = [receipts EXCEPT ![e] = "reconciliation_required"]
    /\ UNCHANGED <<orders, payments, sessions, disclosed, requests, emitted, age>>

-----------------------------------------------------------------------------
(* PATCH /admin/orders/{n}/status.                                         *)

\* Mutant: only a succeeded payment blocks a cancellation.
CancelBesidePending(o, target) ==
    /\ <<orders[o].status, target>> \in AllowedTransitions
    /\ target = "accepted" => HasStatus(o, "succeeded")
    /\ target = "cancelled" => ~HasStatus(o, "succeeded")
    /\ orders' = [orders EXCEPT ![o] = [status |-> target, history |-> Append(@.history, target)]]
    /\ UNCHANGED <<payments, sessions, disclosed, requests, emitted, receipts, age>>

\* Mutant: any target is accepted that the payments allow.
TransitionAnywhere(o, target) ==
    /\ orders[o].status # "absent"
    /\ target = "accepted" => HasStatus(o, "succeeded")
    /\ target = "cancelled" => ~HasBlocking(o)
    /\ orders' = [orders EXCEPT ![o] = [status |-> target, history |-> Append(@.history, target)]]
    /\ UNCHANGED <<payments, sessions, disclosed, requests, emitted, receipts, age>>

TransitionOrderStatus(o, target) ==
    /\ <<orders[o].status, target>> \in AllowedTransitions
    /\ target = "accepted" => HasStatus(o, "succeeded")
    /\ target = "cancelled" => ~HasBlocking(o)
    /\ orders' = [orders EXCEPT ![o] = [status |-> target, history |-> Append(@.history, target)]]
    /\ UNCHANGED <<payments, sessions, disclosed, requests, emitted, receipts, age>>

-----------------------------------------------------------------------------
(* Time passes for what exists; no request keeps a clock reading for more  *)
(* than Slack before Stripe has handled its call.                          *)

Exists(c) ==
    \/ c \in Payments /\ payments[c].status # "absent"
    \/ c \in Sessions /\ sessions[c].state # "absent"
    \/ c \in Requests /\ requests[c].pc \in {"waiting", "calling"}

Older(c) == IF Exists(c) /\ age[c] < MaxAge THEN age[c] + 1 ELSE age[c]

Tick ==
    /\ \A r \in Requests : requests[r].pc \in {"waiting", "calling"} => age[r] < Slack
    /\ age' = [c \in Clocks |-> Older(c)]
    /\ UNCHANGED <<orders, payments, sessions, disclosed, requests, emitted, receipts>>

-----------------------------------------------------------------------------
Proceed(r) ==
    \/ \E p \in Payments : Replay(r, p) \/ Retry(r, p) \/ CreateAttempt(r, p)
    \/ \E s \in Sessions : ProviderReplays(r, s) \/ ProviderCreates(r, s)
    \/ Refuse(r) \/ ProviderRejects(r) \/ Lose(r)
    \/ PersistSuccess(r) \/ DiscardAnswer(r)
    \/ FailAttempt(r) \/ ReturnStored(r) \/ ReportRejection(r)

SessionStep(s) ==
    Pay(s) \/ PayLater(s) \/ AsyncSucceeds(s) \/ AsyncFails(s) \/ ExpireSession(s)

Next ==
    \/ \E o \in Orders : CreateOrder(o)
    \/ \E r \in Requests, o \in Orders, k \in Keys : Arrive(r, o, k)
    \/ \E r \in Requests : Proceed(r)
    \/ \E s \in Sessions : SessionStep(s)
    \/ \E e \in Events : ProcessEvent(e)
    \/ \E e \in Foreign : ProcessForeignEvent(e)
    \/ \E o \in Orders, target \in OrderStatus : TransitionOrderStatus(o, target)
    \/ Tick

Spec == Init /\ [][Next]_vars

\* A request that was accepted is worked on until it ends, Stripe settles or expires what
\* it opened and delivers an event again until it is acknowledged, and time passes.  No
\* customer has to pay, no client has to retry and no administrator has to act.
Fairness ==
    /\ \A r \in Requests : WF_vars(Proceed(r))
    /\ \A s \in Sessions : /\ WF_vars(ExpireSession(s))
                           /\ WF_vars(AsyncSucceeds(s) \/ AsyncFails(s))
    /\ \A e \in Events : WF_vars(ProcessEvent(e))
    /\ WF_vars(Tick)

FairSpec == Spec /\ Fairness

-----------------------------------------------------------------------------
(* Safety.                                                                 *)

OrderOf(s) == payments[sessions[s].payment].order
Charged(s) == sessions[s].state \in {"processing", "paid"}
\* A customer holds the URL of a session that Stripe still accepts money for.
Chargeable(s) == s \in disclosed /\ sessions[s].state = "open"

\* Two requests of one order never both leave a blocking attempt behind: the lock and the
\* checks of checkout_order alone ensure what the partial unique indexes only back up.
OneBlockingAttempt ==
    \A p, q \in Payments :
        /\ payments[p].status \in Blocking
        /\ payments[q].status \in Blocking
        /\ payments[p].order = payments[q].order
        => p = q

\* Whatever retries, lost answers and late events happen, a customer's money is taken
\* through at most one Checkout Session of an order.
NoDoubleCharge ==
    \A s, t \in Sessions :
        Charged(s) /\ (Charged(t) \/ Chargeable(t)) /\ OrderOf(s) = OrderOf(t) => s = t

\* An order cancelled by an administrator was not charged and can no longer be: no payable
\* session of it is in a customer's hands.
CancelledIsNeverCharged ==
    \A s \in Sessions :
        Charged(s) \/ Chargeable(s) => orders[OrderOf(s)].status # "cancelled"

\* The kitchen only works on orders whose money Stripe has.
FulfilledIsPaid ==
    \A o \in Orders :
        orders[o].status \in {"accepted", "preparing", "ready", "completed"}
        => \E s \in Sessions : sessions[s].state = "paid" /\ OrderOf(s) = o

\* A terminal payment row tells the truth about Stripe: succeeded is backed by a paid
\* session, failed and expired rows have no session that took or can still take money.
TerminalMatchesProvider ==
    /\ \A p \in Payments : payments[p].status = "succeeded"
          => \E s \in Sessions : sessions[s].state = "paid" /\ sessions[s].payment = p
    /\ \A s \in Sessions : Charged(s) \/ Chargeable(s)
          => payments[sessions[s].payment].status \in Blocking

\* Retries of an attempt never create a second session: the retry limit expires before
\* Stripe forgets the attempt's idempotency key.
OneSessionPerAttempt ==
    \A s, t \in Sessions :
        /\ sessions[s].state # "absent"
        /\ sessions[t].state # "absent"
        /\ sessions[s].payment = sessions[t].payment
        => s = t

\* The durable receipts explain the payment rows: whatever is delivered twice, late or out
\* of order, one event at most moved a payment, and its status is what that event confirms.
ReceiptsExplainStatus ==
    \A p \in Payments :
        LET causes == {e \in Events : /\ receipts[e] = "transitioned"
                                      /\ sessions[e.session].payment = p}
        IN  /\ \A e, f \in causes : e = f
            /\ \A e \in causes : payments[p].status = Confirms[e.kind]
            /\ payments[p].status \in {"succeeded", "expired"} => causes # {}

\* The history rows of an order are the path its status took through the graph.
HistoryFollowsGraph ==
    \A o \in Orders :
        LET h == orders[o].history IN
        /\ orders[o].status # "absent" =>
             Len(h) > 0 /\ h[1] = "created" /\ h[Len(h)] = orders[o].status
        /\ \A i \in 1..Len(h) - 1 : <<h[i], h[i + 1]>> \in AllowedTransitions

-----------------------------------------------------------------------------
(* What a step may never do.                                               *)

\* The first terminal state of a payment wins; a later or contradictory event, a retry
\* or a late answer never replaces it.
TerminalIsFinal ==
    [][\A p \in Payments :
         payments[p].status \in Terminal => payments'[p].status = payments[p].status]_vars

\* A stored session is never replaced by the answer of a concurrent or later retry.
SessionIsWriteOnce ==
    [][\A p \in Payments :
         payments[p].session # None => payments'[p].session = payments[p].session]_vars

\* A checkout request only ever returns the URL of a session of the order it was made for.
DisclosesOwnSessions ==
    [][\A r \in Requests : requests'[r] # requests[r] =>
         \A s \in disclosed' \ disclosed : OrderOf(s) = requests[r].order]_vars

\* What the adapter's error classes claim: an attempt is marked failed only after Stripe
\* rejected it before any session was created.
RejectionPrecedesCreation ==
    [][\A r \in Requests : FailAttempt(r) =>
         \A s \in Sessions : sessions[s].payment # requests[r].payment]_vars

-----------------------------------------------------------------------------
(* What eventually happens, under FairSpec.                                *)

\* An attempt for which Stripe ever created a session does not block its order forever,
\* even when the answer with that session was lost and nobody retries.
SessionResolvesAttempt ==
    \A s \in Sessions, p \in Payments :
        sessions[s].payment = p ~> payments[p].status \in Terminal
=============================================================================
