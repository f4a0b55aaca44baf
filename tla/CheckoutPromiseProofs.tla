----------------------- MODULE CheckoutPromiseProofs -----------------------
(***************************************************************************)
(* What no step of Checkout may do, what its receipts and histories say,   *)
(* and that it implements PaidOrder.                                       *)
(***************************************************************************)
EXTENDS CheckoutSafetyProofs

-----------------------------------------------------------------------------
(* The only four ways in which a step changes payment rows.                *)

Inserted(p) ==
    /\ payments[p].status = "absent"
    /\ payments[p].order = None
    /\ payments'[p].status = "pending"
    /\ payments'[p].session = None

Stored(p) ==
    /\ payments[p].status \in Blocking
    /\ payments'[p].status = payments[p].status
    /\ payments'[p].order = payments[p].order
    /\ payments'[p].session # None
    /\ payments[p].session \in {None, payments'[p].session}

Failed(p) ==
    /\ payments[p].status = "pending"
    /\ payments'[p].status = "failed"
    /\ payments'[p].order = payments[p].order
    /\ payments'[p].session = payments[p].session

Confirmed(p, e) ==
    /\ ProcessEvent(e)
    /\ TransitionDecision(e) = "transitioned"
    /\ p = EventPayment(e)
    /\ payments[p].status = "pending"
    /\ payments'[p].status = Confirms[e.kind]
    /\ payments'[p].status \in Terminal
    /\ payments'[p].order = payments[p].order
    /\ payments'[p].session = payments[p].session

Untouched(p) == \A q \in Payments : q # p => payments'[q] = payments[q]

LEMMA PaymentChanges ==
    ASSUME TypeOK, Consistent, [Next]_vars
    PROVE  \/ payments' = payments
           \/ \E p \in Payments :
                /\ Untouched(p)
                /\ \/ Inserted(p) /\ UNCHANGED <<orders, sessions, disclosed, receipts>>
                   \/ Stored(p) /\ UNCHANGED <<orders, sessions, receipts>>
                   \/ Failed(p) /\ UNCHANGED <<orders, sessions, disclosed, receipts>>
                   \/ \E e \in Events : Confirmed(p, e)
<1> DEFINE Goal == \/ payments' = payments
                   \/ \E p \in Payments :
                        /\ Untouched(p)
                        /\ \/ Inserted(p) /\ UNCHANGED <<orders, sessions, disclosed, receipts>>
                           \/ Stored(p) /\ UNCHANGED <<orders, sessions, receipts>>
                           \/ Failed(p) /\ UNCHANGED <<orders, sessions, disclosed, receipts>>
                           \/ \E e \in Events : Confirmed(p, e)
<1>1. ASSUME NEW r \in Requests, NEW p \in Payments, CreateAttempt(r, p) PROVE Goal
  <2>1. payments'[p] = [status |-> "pending", order |-> requests[r].order,
                        key |-> requests[r].key, session |-> None]
    BY <1>1 DEF CreateAttempt, TypeOK
  <2>2. Inserted(p)
    BY <1>1, <2>1 DEF CreateAttempt, Inserted, Consistent, RowsAreWhole
  <2>3. Untouched(p)
    BY <1>1 DEF CreateAttempt, TypeOK, Untouched
  <2>4. QED
    BY <1>1, <2>2, <2>3 DEF CreateAttempt
<1>2. ASSUME NEW r \in Requests, PersistSuccess(r) PROVE Goal
  <2> DEFINE p == requests[r].payment
             s == requests[r].session
  <2>1. p \in Payments /\ s # None
    BY <1>2, DistinctConstants DEF PersistSuccess, TypeOK, RequestRows
  <2>2. payments' = [payments EXCEPT ![p].session = s]
    BY <1>2 DEF PersistSuccess
  <2>3. /\ payments'[p].session = s
        /\ payments'[p].order = payments[p].order
        /\ payments'[p].status = payments[p].status
        /\ Untouched(p)
    BY <2>1, <2>2, SessionUpdate DEF Untouched
  <2>4. Stored(p)
    BY <1>2, <2>1, <2>3 DEF PersistSuccess, Storable, Stored
  <2>5. QED
    BY <1>2, <2>1, <2>3, <2>4 DEF PersistSuccess
<1>3. ASSUME NEW r \in Requests, FailAttempt(r) PROVE Goal
  <2> DEFINE p == requests[r].payment
  <2>1. p \in Payments
    BY <1>3 DEF FailAttempt, TypeOK, RequestRows
  <2>2. payments' = [payments EXCEPT ![p].status = "failed"]
    BY <1>3 DEF FailAttempt
  <2>3. /\ payments'[p].status = "failed"
        /\ payments'[p].order = payments[p].order
        /\ payments'[p].session = payments[p].session
        /\ Untouched(p)
    BY <2>1, <2>2, StatusUpdate DEF Untouched
  <2>4. Failed(p)
    BY <1>3, <2>3 DEF FailAttempt, Failed
  <2>5. QED
    BY <1>3, <2>1, <2>3, <2>4 DEF FailAttempt
<1>4. ASSUME NEW e \in Events, ProcessEvent(e) PROVE Goal
  <2>1. CASE TransitionDecision(e) # "transitioned"
    BY <1>4, <2>1 DEF ProcessEvent
  <2>2. CASE TransitionDecision(e) = "transitioned"
    <3> DEFINE p == EventPayment(e)
               st == Confirms[e.kind]
    <3>1. p \in Payments /\ payments[p].status = "pending" /\ st \in Terminal
      BY <1>4, <2>2, TransitionMeans DEF ProcessEvent
    <3>2. payments' = [payments EXCEPT ![p].status = st]
      BY <1>4, <2>2 DEF ProcessEvent
    <3>3. /\ payments'[p].status = st
          /\ payments'[p].order = payments[p].order
          /\ payments'[p].session = payments[p].session
          /\ Untouched(p)
      BY <3>1, <3>2, StatusUpdate DEF Untouched
    <3>4. Confirmed(p, e)
      BY <1>4, <2>2, <3>1, <3>3 DEF Confirmed
    <3>5. QED
      BY <3>1, <3>3, <3>4
  <2>3. QED
    BY <2>1, <2>2
<1>5. ASSUME NEW r \in Requests, Proceed(r) PROVE Goal
  <2>1. \/ payments' = payments
        \/ PersistSuccess(r) \/ FailAttempt(r)
        \/ \E p \in Payments : CreateAttempt(r, p)
    BY <1>5 DEF Proceed, Replay, Retry, ProviderReplays, ProviderCreates, Refuse, ProviderRejects,
       Lose, DiscardAnswer, ReturnStored, ReportRejection
  <2>2. QED
    BY <2>1, <1>1, <1>2, <1>3
<1>6. ASSUME NEW s \in Sessions, SessionStep(s) PROVE Goal
  BY <1>6 DEF SessionStep, Pay, PayLater, AsyncSucceeds, AsyncFails, ExpireSession, SessionMoves
<1>7. CASE \/ \E o \in Orders : CreateOrder(o)
           \/ \E r \in Requests, o \in Orders, k \in Keys : Arrive(r, o, k)
           \/ \E e \in Foreign : ProcessForeignEvent(e)
           \/ \E o \in Orders, target \in OrderStatus : TransitionOrderStatus(o, target)
           \/ Tick \/ UNCHANGED vars
  BY <1>7 DEF CreateOrder, Arrive, ProcessForeignEvent, TransitionOrderStatus, Tick, vars
<1>8. QED
  BY <1>4, <1>5, <1>6, <1>7 DEF Next

\* The first terminal state of a payment wins.
THEOREM TerminalIsFinalAlways == Spec => TerminalIsFinal
<1>1. TypeOK /\ Consistent /\ [Next]_vars =>
        [\A p \in Payments :
           payments[p].status \in Terminal => payments'[p].status = payments[p].status]_vars
  <2> SUFFICES ASSUME TypeOK, Consistent, [Next]_vars, NEW p \in Payments,
                      payments[p].status \in Terminal
               PROVE  payments'[p].status = payments[p].status
    OBVIOUS
  <2>1. QED
    BY PaymentChanges DEF Untouched, Inserted, Stored, Failed, Confirmed, Terminal
<1>2. QED
  BY <1>1, ConsistentAlways, PTL DEF Spec, TerminalIsFinal

\* A stored session is never replaced, not even by the answer of a Stripe that forgot the key.
THEOREM SessionIsWriteOnceAlways == Spec => SessionIsWriteOnce
<1>1. TypeOK /\ Consistent /\ [Next]_vars =>
        [\A p \in Payments :
           payments[p].session # None => payments'[p].session = payments[p].session]_vars
  <2> SUFFICES ASSUME TypeOK, Consistent, [Next]_vars, NEW p \in Payments,
                      payments[p].session # None
               PROVE  payments'[p].session = payments[p].session
    OBVIOUS
  <2>1. payments[p].status # "absent"
    BY DEF Consistent, RowsAreWhole
  <2>2. QED
    BY <2>1, PaymentChanges DEF Untouched, Inserted, Stored, Failed, Confirmed
<1>2. QED
  BY <1>1, ConsistentAlways, PTL DEF Spec, SessionIsWriteOnce

-----------------------------------------------------------------------------
(* Receipts.                                                               *)

\* The attempt of a session never changes.
LEMMA SessionAttemptStays ==
    ASSUME TypeOK, Consistent, [Next]_vars, NEW s \in Sessions, sessions[s].state # "absent"
    PROVE  sessions'[s].payment = sessions[s].payment
<1>1. ASSUME NEW r \in Requests, Proceed(r) PROVE sessions'[s].payment = sessions[s].payment
  BY <1>1 DEF Proceed, Replay, Retry, CreateAttempt, ProviderReplays, ProviderCreates, Refuse,
     ProviderRejects, Lose, PersistSuccess, DiscardAnswer, FailAttempt, ReturnStored,
     ReportRejection, TypeOK
<1>2. ASSUME NEW t \in Sessions, SessionStep(t) PROVE sessions'[s].payment = sessions[s].payment
  <2>1. \E st : sessions' = [sessions EXCEPT ![t].state = st]
    BY <1>2 DEF SessionStep, Pay, PayLater, AsyncSucceeds, AsyncFails, ExpireSession, SessionMoves
  <2>2. QED
    BY <2>1, StateUpdate
<1>3. CASE \/ \E o \in Orders : CreateOrder(o)
           \/ \E r \in Requests, o \in Orders, k \in Keys : Arrive(r, o, k)
           \/ \E e \in Events : ProcessEvent(e)
           \/ \E e \in Foreign : ProcessForeignEvent(e)
           \/ \E o \in Orders, target \in OrderStatus : TransitionOrderStatus(o, target)
           \/ Tick \/ UNCHANGED vars
  BY <1>3 DEF CreateOrder, Arrive, ProcessEvent, ProcessForeignEvent, TransitionOrderStatus, Tick,
     vars
<1>4. QED
  BY <1>1, <1>2, <1>3 DEF Next

\* A receipt is written once, by the first delivery of its event.
LEMMA ReceiptChanges ==
    ASSUME TypeOK, [Next]_vars, NEW e \in Events
    PROVE  \/ receipts'[e] = receipts[e]
           \/ /\ ProcessEvent(e)
              /\ receipts[e] = "none"
              /\ receipts'[e] = TransitionDecision(e)
<1>1. ASSUME NEW r \in Requests, Proceed(r) PROVE receipts' = receipts
  BY <1>1 DEF Proceed, Replay, Retry, CreateAttempt, ProviderReplays, ProviderCreates, Refuse,
     ProviderRejects, Lose, PersistSuccess, DiscardAnswer, FailAttempt, ReturnStored,
     ReportRejection
<1>2. ASSUME NEW t \in Sessions, SessionStep(t) PROVE receipts' = receipts
  BY <1>2 DEF SessionStep, Pay, PayLater, AsyncSucceeds, AsyncFails, ExpireSession, SessionMoves
<1>3. CASE \/ \E o \in Orders : CreateOrder(o)
           \/ \E r \in Requests, o \in Orders, k \in Keys : Arrive(r, o, k)
           \/ \E o \in Orders, target \in OrderStatus : TransitionOrderStatus(o, target)
           \/ Tick \/ UNCHANGED vars
  BY <1>3 DEF CreateOrder, Arrive, TransitionOrderStatus, Tick, vars
<1>4. ASSUME NEW f \in Events, ProcessEvent(f)
      PROVE  \/ receipts'[e] = receipts[e]
             \/ /\ ProcessEvent(e)
                /\ receipts[e] = "none"
                /\ receipts'[e] = TransitionDecision(e)
  <2>1. CASE f = e
    BY <1>4, <2>1 DEF ProcessEvent, TypeOK
  <2>2. CASE f # e
    BY <1>4, <2>2 DEF ProcessEvent, TypeOK
  <2>3. QED
    BY <2>1, <2>2
<1>5. ASSUME NEW f \in Foreign, ProcessForeignEvent(f) PROVE receipts'[e] = receipts[e]
  <2>1. f # e
    BY ForeignDistinct
  <2>2. QED
    BY <1>5, <2>1 DEF ProcessForeignEvent, TypeOK
<1>6. QED
  BY <1>1, <1>2, <1>3, <1>4, <1>5 DEF Next

Moved(e, p) == receipts[e] = "transitioned" /\ sessions[e.session].payment = p

\* ReceiptsExplainStatus, and that only events which confirm something move a payment.
Explained ==
    /\ \A e \in Events : receipts[e] = "transitioned" => Confirms[e.kind] \in Terminal
    /\ \A p \in Payments :
         /\ \A e, f \in Events : Moved(e, p) /\ Moved(f, p) => e = f
         /\ \A e \in Events : Moved(e, p) => payments[p].status = Confirms[e.kind]
         /\ payments[p].status \in {"succeeded", "expired"} => \E e \in Events : Moved(e, p)

LEMMA MovedStays ==
    ASSUME TypeOK, Consistent, [Next]_vars, NEW e \in Events, NEW p \in Payments,
           ~(ProcessEvent(e) /\ TransitionDecision(e) = "transitioned")
    PROVE  Moved(e, p)' <=> Moved(e, p)
<1>1. receipts'[e] = "transitioned" <=> receipts[e] = "transitioned"
  BY ReceiptChanges
<1>2. receipts[e] = "transitioned" => sessions[e.session].state # "absent" /\ e.session \in Sessions
  BY DEF Consistent, EventsAreTrue, StatesAfter, Events, Kinds
<1>3. receipts[e] = "transitioned" => sessions'[e.session].payment = sessions[e.session].payment
  BY <1>2, SessionAttemptStays
<1>4. QED
  BY <1>1, <1>3 DEF Moved

LEMMA ExplainedInit == Init => Explained
BY DEF Init, Explained, Moved

LEMMA ExplainedStep == TypeOK /\ Consistent /\ Explained /\ [Next]_vars => Explained'
<1> SUFFICES ASSUME TypeOK, Consistent, Explained, [Next]_vars PROVE Explained'
  OBVIOUS
<1>1. CASE \E e \in Events : ProcessEvent(e) /\ TransitionDecision(e) = "transitioned"
  <2>1. PICK e \in Events : ProcessEvent(e) /\ TransitionDecision(e) = "transitioned"
    BY <1>1
  <2> DEFINE p == EventPayment(e)
             st == Confirms[e.kind]
  <2>2. p \in Payments /\ payments[p].status = "pending" /\ st \in Terminal
    BY <2>1, TransitionMeans DEF ProcessEvent
  <2>3. payments' = [payments EXCEPT ![p].status = st] /\ sessions' = sessions
    BY <2>1 DEF ProcessEvent
  <2>4. payments'[p].status = st /\ \A q \in Payments : q # p => payments'[q] = payments[q]
    BY <2>2, <2>3, StatusUpdate
  <2>5. receipts' = [receipts EXCEPT ![e] = "transitioned"]
    BY <2>1 DEF ProcessEvent
  <2>6. /\ receipts'[e] = "transitioned"
        /\ \A f \in Events : f # e => receipts'[f] = receipts[f]
    BY <2>5 DEF TypeOK
  <2>7. \A f \in Events : ~Moved(f, p)
    BY <2>2 DEF Explained, Moved, Terminal
  <2>8. \A f \in Events, q \in Payments : Moved(f, q)' <=> Moved(f, q) \/ (f = e /\ q = p)
    BY <2>1, <2>3, <2>6 DEF Moved, EventPayment, ProcessEvent
  <2> HIDE DEF p, st
  <2>9. \A f \in Events : receipts'[f] = "transitioned" => Confirms[f.kind] \in Terminal
    BY <2>2, <2>6 DEF Explained, st
  <2>10. \A q \in Payments : \A f, g \in Events : Moved(f, q)' /\ Moved(g, q)' => f = g
    BY <2>7, <2>8 DEF Explained
  <2>11. \A q \in Payments : \A f \in Events : Moved(f, q)' => payments'[q].status = Confirms[f.kind]
    BY <2>4, <2>7, <2>8 DEF Explained, st
  <2>12. \A q \in Payments : payments'[q].status \in {"succeeded", "expired"} =>
           \E f \in Events : Moved(f, q)'
    BY <2>4, <2>8 DEF Explained
  <2>13. QED
    BY <2>9, <2>10, <2>11, <2>12 DEF Explained
<1>2. CASE ~\E e \in Events : ProcessEvent(e) /\ TransitionDecision(e) = "transitioned"
  <2>1. \A e \in Events, p \in Payments : Moved(e, p)' <=> Moved(e, p)
    BY <1>2, MovedStays
  <2>2. \A e \in Events : receipts'[e] = "transitioned" => receipts[e] = "transitioned"
    BY <1>2, ReceiptChanges
  <2>3. ASSUME NEW p \in Payments
        PROVE  \/ payments'[p].status = payments[p].status
               \/ /\ payments[p].status \in {"absent", "pending"}
                  /\ payments'[p].status \in {"pending", "failed"}
    BY <1>2, PaymentChanges DEF Untouched, Inserted, Stored, Failed, Confirmed
  <2>4. \A e \in Events, p \in Payments : Moved(e, p) => payments[p].status \in Terminal
    BY DEF Explained, Moved
  <2>5. \A p \in Payments : \A e, f \in Events : Moved(e, p)' /\ Moved(f, p)' => e = f
    BY <2>1 DEF Explained
  <2>6. \A p \in Payments : \A e \in Events : Moved(e, p)' => payments'[p].status = Confirms[e.kind]
    BY <2>1, <2>3, <2>4 DEF Explained, Terminal
  <2>7. \A p \in Payments : payments'[p].status \in {"succeeded", "expired"} =>
           \E e \in Events : Moved(e, p)'
    BY <2>1, <2>3 DEF Explained
  <2>8. QED
    BY <2>2, <2>5, <2>6, <2>7 DEF Explained
<1>3. QED
  BY <1>1, <1>2

\* The receipts account for every confirmed payment: exactly one event moved it, and to what
\* that event confirms.
THEOREM ReceiptsExplainStatusAlways == Spec => []ReceiptsExplainStatus
<1>1. Init => TypeOK /\ Consistent /\ Explained
  BY TypeInit, ConsistentInit, ExplainedInit
<1>2. TypeOK /\ Consistent /\ Explained /\ [Next]_vars => (TypeOK /\ Consistent /\ Explained)'
  BY TypeStep, ConsistentStep, ExplainedStep
<1>3. Explained => ReceiptsExplainStatus
  BY DEF Explained, Moved, ReceiptsExplainStatus
<1>4. QED
  BY <1>1, <1>2, <1>3, PTL DEF Spec

-----------------------------------------------------------------------------
(* One session per attempt.                                                *)

LEMMA AgeTypes ==
    ASSUME TypeOK
    PROVE  /\ \A p \in Payments : age[p] \in 0..MaxAge
           /\ \A s \in Sessions : age[s] \in 0..MaxAge
           /\ \A r \in Requests : age[r] \in 0..MaxAge
           /\ MaxAge \in Nat /\ MaxAge >= Slack
           /\ RetryLimit \in Nat /\ RetryLimit > 0 /\ Slack \in Nat /\ KeyRetention \in Nat
BY AgeBounds, TimeConstants DEF TypeOK, Clocks

\* Resetting the clock of one request.
LEMMA RequestAge ==
    ASSUME TypeOK, NEW r \in Requests, age' = [age EXCEPT ![r] = 0]
    PROVE  /\ age'[r] = 0
           /\ \A q \in Requests : q # r => age'[q] = age[q]
           /\ \A p \in Payments : age'[p] = age[p]
           /\ \A s \in Sessions : age'[s] = age[s]
BY DistinctConstants DEF TypeOK, Clocks

LEMMA CallsInit == Init => CallsAreTimely /\ OneSessionPerAttempt
BY DEF Init, CallsAreTimely, OneSessionPerAttempt, Idle

\* Steps after which the request no longer holds a clock reading.
LEMMA HandledCalls ==
    ASSUME TypeOK, Consistent, CallsAreTimely, NEW r \in Requests,
           requests'[r].pc \notin {"waiting", "calling"},
           \A q \in Requests : q # r => requests'[q] = requests[q],
           age' = [age EXCEPT ![r] = 0], sessions' = sessions
    PROVE  CallsAreTimely'
<1>1. \A q \in Requests : requests[q].pc = "calling" => requests[q].payment \in Payments
  BY DEF TypeOK, RequestRows
<1>2. \A q \in Requests : requests'[q].pc \in {"waiting", "calling"} =>
        /\ requests'[q] = requests[q] /\ age'[q] = age[q]
  BY RequestAge
<1>3. \A q \in Requests : requests'[q].pc \in {"waiting", "calling"} => age'[q] <= Slack
  BY <1>2 DEF CallsAreTimely
<1>4. ASSUME NEW q \in Requests, requests'[q].pc = "calling"
      PROVE  age'[requests'[q].payment] < RetryLimit + age'[q]
  <2>1. requests'[q] = requests[q] /\ age'[q] = age[q] /\ requests[q].payment \in Payments
    BY <1>1, <1>2, <1>4
  <2>2. age'[requests[q].payment] = age[requests[q].payment]
    BY <2>1, RequestAge
  <2>3. age[requests[q].payment] < RetryLimit + age[q]
    BY <1>4, <2>1 DEF CallsAreTimely, Retriable
  <2>4. QED
    BY <2>1, <2>2, <2>3
<1>5. ASSUME NEW s \in Sessions, sessions'[s].state # "absent"
      PROVE  age'[s] <= age'[sessions'[s].payment]
  <2>1. sessions[s].payment \in Payments
    BY <1>5, RowTypes DEF Consistent, SessionsHaveAttempts
  <2>2. age[s] <= age[sessions[s].payment]
    BY <1>5 DEF CallsAreTimely
  <2>3. QED
    BY <2>1, <2>2, RequestAge
<1>6. QED
  BY <1>3, <1>4, <1>5 DEF CallsAreTimely, Retriable

LEMMA ArriveCalls ==
    ASSUME TypeOK, Consistent, CallsAreTimely,
           NEW r \in Requests, NEW o \in Orders, NEW k \in Keys, Arrive(r, o, k)
    PROVE  CallsAreTimely'
<1>1. requests'[r].pc = "waiting" /\ \A q \in Requests : q # r => requests'[q] = requests[q]
  BY DEF Arrive, TypeOK, RequestRows, Idle
<1>2. age' = [age EXCEPT ![r] = 0] /\ sessions' = sessions
  BY DEF Arrive
<1>3. ASSUME NEW q \in Requests, requests'[q].pc \in {"waiting", "calling"}
      PROVE  age'[q] <= Slack
  <2>1. CASE q = r
    <3>1. age'[q] = 0
      BY <1>2, <2>1, RequestAge
    <3>2. QED
      BY <3>1, TimeConstants
  <2>2. CASE q # r
    <3>1. age'[q] = age[q] /\ requests'[q] = requests[q]
      BY <1>1, <1>2, <2>2, RequestAge
    <3>2. QED
      BY <1>3, <3>1 DEF CallsAreTimely
  <2>3. QED
    BY <2>1, <2>2
<1>4. ASSUME NEW q \in Requests, requests'[q].pc = "calling"
      PROVE  age'[requests'[q].payment] < RetryLimit + age'[q]
  <2>1. q # r /\ requests'[q] = requests[q] /\ requests[q].payment \in Payments
    BY <1>1, <1>4 DEF TypeOK, RequestRows
  <2>2. age'[requests[q].payment] = age[requests[q].payment] /\ age'[q] = age[q]
    BY <1>2, <2>1, RequestAge
  <2>3. age[requests[q].payment] < RetryLimit + age[q]
    BY <1>4, <2>1 DEF CallsAreTimely, Retriable
  <2>4. QED
    BY <2>1, <2>2, <2>3
<1>5. ASSUME NEW s \in Sessions, sessions'[s].state # "absent"
      PROVE  age'[s] <= age'[sessions'[s].payment]
  <2>1. sessions[s].payment \in Payments
    BY <1>2, <1>5, RowTypes DEF Consistent, SessionsHaveAttempts
  <2>2. age[s] <= age[sessions[s].payment]
    BY <1>2, <1>5 DEF CallsAreTimely
  <2>3. QED
    BY <1>2, <2>1, <2>2, RequestAge
<1>6. QED
  BY <1>3, <1>4, <1>5 DEF CallsAreTimely, Retriable

LEMMA RetryCalls ==
    ASSUME TypeOK, Consistent, CallsAreTimely,
           NEW r \in Requests, NEW p \in Payments, Retry(r, p)
    PROVE  CallsAreTimely'
<1>1. /\ requests'[r].pc = "calling" /\ requests'[r].payment = p /\ requests[r].pc = "waiting"
      /\ \A q \in Requests : q # r => requests'[q] = requests[q]
  BY MoveUpdate DEF Retry, Payable
<1>2. UNCHANGED <<age, sessions>> /\ age[p] < RetryLimit + age[r]
  BY DEF Retry, Retriable
<1>3. QED
  BY <1>1, <1>2 DEF CallsAreTimely, Retriable

LEMMA CreateAttemptCalls ==
    ASSUME TypeOK, Consistent, CallsAreTimely,
           NEW r \in Requests, NEW p \in Payments, CreateAttempt(r, p)
    PROVE  CallsAreTimely'
<1>1. /\ requests'[r].pc = "calling" /\ requests'[r].payment = p /\ requests[r].pc = "waiting"
      /\ \A q \in Requests : q # r => requests'[q] = requests[q]
  BY MoveUpdate DEF CreateAttempt, Payable
<1>2. /\ age'[p] = 0
      /\ \A q \in Payments : q # p => age'[q] = age[q]
      /\ \A s \in Sessions : age'[s] = age[s]
      /\ \A q \in Requests : age'[q] = age[q]
  BY DistinctConstants DEF CreateAttempt, TypeOK, Clocks
<1>3. payments[p].status = "absent" /\ sessions' = sessions
  BY DEF CreateAttempt
<1>4. ASSUME NEW q \in Requests, requests'[q].pc \in {"waiting", "calling"}
      PROVE  age'[q] <= Slack
  BY <1>1, <1>2, <1>4 DEF CallsAreTimely
<1>5. ASSUME NEW q \in Requests, requests'[q].pc = "calling"
      PROVE  age'[requests'[q].payment] < RetryLimit + age'[q]
  <2>1. CASE q = r
    BY <1>1, <1>2, <2>1, AgeTypes
  <2>2. CASE q # r
    <3>1. requests'[q] = requests[q] /\ requests[q].payment \in Payments
      BY <1>1, <1>5, <2>2 DEF TypeOK, RequestRows
    <3>2. requests[q].payment # p
      BY <1>3, <1>5, <3>1 DEF Consistent, RequestsHaveAttempts
    <3>3. age[requests[q].payment] < RetryLimit + age[q]
      BY <1>5, <3>1 DEF CallsAreTimely, Retriable
    <3>4. QED
      BY <1>2, <3>1, <3>2, <3>3
  <2>3. QED
    BY <2>1, <2>2
<1>6. ASSUME NEW s \in Sessions, sessions'[s].state # "absent"
      PROVE  age'[s] <= age'[sessions'[s].payment]
  <2>1. sessions[s].payment \in Payments /\ sessions[s].payment # p
    BY <1>3, <1>6, RowTypes DEF Consistent, SessionsHaveAttempts
  <2>2. age[s] <= age[sessions[s].payment]
    BY <1>3, <1>6 DEF CallsAreTimely
  <2>3. QED
    BY <1>2, <1>3, <2>1, <2>2
<1>7. QED
  BY <1>4, <1>5, <1>6 DEF CallsAreTimely, Retriable

\* The call reaches Stripe while Stripe still remembers every session of the attempt.
LEMMA ProviderCreatesCalls ==
    ASSUME RetryMargin, TypeOK, Consistent, CallsAreTimely, OneSessionPerAttempt,
           NEW r \in Requests, NEW s \in Sessions, ProviderCreates(r, s)
    PROVE  CallsAreTimely' /\ OneSessionPerAttempt'
<1> DEFINE p == requests[r].payment
<1>1. p \in Payments /\ age[p] < RetryLimit + age[r] /\ age[r] <= Slack
  BY DEF ProviderCreates, TypeOK, RequestRows, CallsAreTimely, Retriable
<1>2. /\ sessions[s].state = "absent" /\ sessions'[s].state = "open" /\ sessions'[s].payment = p
      /\ \A t \in Sessions : t # s => sessions'[t] = sessions[t]
  BY DEF ProviderCreates, TypeOK
<1>3. ASSUME NEW t \in Sessions, sessions[t].state # "absent", sessions[t].payment = p
      PROVE  FALSE
  <2>1. age[t] <= age[p]
    BY <1>3 DEF CallsAreTimely
  <2>2. age[t] < KeyRetention
    BY <1>1, <2>1, AgeTypes DEF RetryMargin
  <2>3. t \in Remembered(p)
    BY <1>3, <2>2 DEF Remembered
  <2>4. QED
    BY <2>3 DEF ProviderCreates
<1>4. OneSessionPerAttempt'
  BY <1>2, <1>3 DEF OneSessionPerAttempt
<1>5. /\ age'[s] = 0 /\ age'[r] = 0
      /\ \A q \in Payments : age'[q] = age[q]
      /\ \A t \in Sessions : t # s => age'[t] = age[t]
      /\ \A q \in Requests : q # r => age'[q] = age[q]
  BY DistinctConstants DEF ProviderCreates, TypeOK, Clocks
<1>6. /\ requests'[r].pc = "created"
      /\ \A q \in Requests : q # r => requests'[q] = requests[q]
  BY MoveUpdate DEF ProviderCreates
<1>7. ASSUME NEW q \in Requests, requests'[q].pc \in {"waiting", "calling"}
      PROVE  age'[q] <= Slack
  BY <1>5, <1>6, <1>7 DEF CallsAreTimely
<1>8. ASSUME NEW q \in Requests, requests'[q].pc = "calling"
      PROVE  age'[requests'[q].payment] < RetryLimit + age'[q]
  <2>1. q # r /\ requests'[q] = requests[q] /\ requests[q].payment \in Payments
    BY <1>6, <1>8 DEF TypeOK, RequestRows
  <2>2. age[requests[q].payment] < RetryLimit + age[q]
    BY <1>8, <2>1 DEF CallsAreTimely, Retriable
  <2>3. QED
    BY <1>5, <2>1, <2>2
<1>9. ASSUME NEW t \in Sessions, sessions'[t].state # "absent"
      PROVE  age'[t] <= age'[sessions'[t].payment]
  <2>1. CASE t = s
    BY <1>1, <1>2, <1>5, <2>1, AgeTypes
  <2>2. CASE t # s
    <3>1. sessions[t].payment \in Payments
      BY <1>2, <1>9, <2>2, RowTypes DEF Consistent, SessionsHaveAttempts
    <3>2. age[t] <= age[sessions[t].payment]
      BY <1>2, <1>9, <2>2 DEF CallsAreTimely
    <3>3. QED
      BY <1>2, <1>5, <2>2, <3>1, <3>2
  <2>3. QED
    BY <2>1, <2>2
<1>10. QED
  BY <1>4, <1>7, <1>8, <1>9 DEF CallsAreTimely, Retriable

LEMMA TickCalls ==
    ASSUME TypeOK, Consistent, CallsAreTimely, Tick
    PROVE  CallsAreTimely'
<1>1. UNCHANGED <<requests, sessions, payments>> /\ \A c \in Clocks : age'[c] = Older(c)
  BY DEF Tick
<1>2. \A c \in Clocks : age[c] \in 0..MaxAge /\ MaxAge \in Nat
  BY AgeBounds DEF TypeOK
<1>3. ASSUME NEW r \in Requests, requests[r].pc \in {"waiting", "calling"}
      PROVE  age'[r] = age[r] + 1 /\ age'[r] <= Slack
  <2>1. age[r] < Slack /\ Exists(r) /\ r \in Clocks
    BY <1>3 DEF Tick, Exists, Clocks
  <2>2. QED
    BY <1>1, <1>2, <2>1, AgeTypes DEF Older
<1>4. ASSUME NEW r \in Requests, requests[r].pc = "calling"
      PROVE  age'[requests[r].payment] < RetryLimit + age'[r]
  <2> DEFINE p == requests[r].payment
  <2>1. p \in Clocks /\ r \in Clocks /\ age[p] < RetryLimit + age[r]
    BY <1>4 DEF TypeOK, RequestRows, Clocks, CallsAreTimely, Retriable
  <2>2. age'[p] <= age[p] + 1
    BY <1>1, <1>2, <2>1 DEF Older
  <2>3. age'[p] \in Nat /\ age[p] \in Nat /\ age[r] \in Nat
    BY <1>1, <1>2, <2>1 DEF Older
  <2>4. QED
    BY <1>3, <1>4, <2>1, <2>2, <2>3, AgeTypes
<1>5. ASSUME NEW s \in Sessions, sessions[s].state # "absent"
      PROVE  age'[s] <= age'[sessions[s].payment]
  <2> DEFINE p == sessions[s].payment
  <2>1. p \in Payments /\ payments[p].status # "absent"
    BY <1>5, RowTypes DEF Consistent, SessionsHaveAttempts
  <2>2. s \in Clocks /\ p \in Clocks /\ Exists(p) /\ age[s] <= age[p]
    BY <1>5, <2>1 DEF Clocks, Exists, CallsAreTimely
  <2>3. QED
    BY <1>1, <1>2, <2>2 DEF Older
<1>6. QED
  BY <1>1, <1>3, <1>4, <1>5 DEF CallsAreTimely, Retriable

LEMMA SessionStepCalls ==
    ASSUME TypeOK, CallsAreTimely, OneSessionPerAttempt, NEW s \in Sessions, SessionStep(s)
    PROVE  CallsAreTimely' /\ OneSessionPerAttempt'
<1>1. PICK st : sessions' = [sessions EXCEPT ![s].state = st]
  BY DEF SessionStep, Pay, PayLater, AsyncSucceeds, AsyncFails, ExpireSession, SessionMoves
<1>2. UNCHANGED <<age, requests>> /\ sessions[s].state # "absent"
  BY DEF SessionStep, Pay, PayLater, AsyncSucceeds, AsyncFails, ExpireSession, SessionMoves
<1>3. /\ sessions'[s].payment = sessions[s].payment
      /\ \A t \in Sessions : t # s => sessions'[t] = sessions[t]
  BY <1>1, StateUpdate
<1>4. QED
  BY <1>2, <1>3 DEF CallsAreTimely, Retriable, OneSessionPerAttempt

LEMMA CallsStep ==
    RetryMargin /\ TypeOK /\ Consistent /\ CallsAreTimely /\ OneSessionPerAttempt /\ [Next]_vars
      => (CallsAreTimely /\ OneSessionPerAttempt)'
<1> SUFFICES ASSUME RetryMargin, TypeOK, Consistent, CallsAreTimely, OneSessionPerAttempt,
                    [Next]_vars
             PROVE  CallsAreTimely' /\ OneSessionPerAttempt'
  OBVIOUS
<1>1. ASSUME sessions' = sessions PROVE OneSessionPerAttempt'
  BY <1>1 DEF OneSessionPerAttempt
<1>2. ASSUME NEW r \in Requests, Finish(r), sessions' = sessions PROVE CallsAreTimely'
  BY <1>2, FinishUpdate, HandledCalls DEF Finish
<1>3. ASSUME NEW r \in Requests, Proceed(r) PROVE CallsAreTimely' /\ OneSessionPerAttempt'
  <2>1. CASE \/ Refuse(r) \/ Lose(r) \/ DiscardAnswer(r) \/ ReportRejection(r)
             \/ PersistSuccess(r) \/ FailAttempt(r) \/ ReturnStored(r)
             \/ \E p \in Payments : Replay(r, p)
    <3>1. Finish(r) /\ sessions' = sessions
      BY <2>1 DEF Refuse, Lose, DiscardAnswer, ReportRejection, PersistSuccess, FailAttempt,
         ReturnStored, Replay
    <3>2. QED
      BY <1>1, <1>2, <3>1
  <2>2. ASSUME NEW s \in Sessions, ProviderReplays(r, s)
        PROVE  CallsAreTimely' /\ OneSessionPerAttempt'
    <3>1. /\ requests'[r].pc = "created"
          /\ \A q \in Requests : q # r => requests'[q] = requests[q]
          /\ age' = [age EXCEPT ![r] = 0] /\ sessions' = sessions
      BY <2>2, MoveUpdate DEF ProviderReplays
    <3>2. QED
      BY <1>1, <3>1, HandledCalls
  <2>3. CASE ProviderRejects(r)
    <3>1. /\ requests'[r].pc = "rejected"
          /\ \A q \in Requests : q # r => requests'[q] = requests[q]
          /\ age' = [age EXCEPT ![r] = 0] /\ sessions' = sessions
      BY <2>3, MoveUpdate DEF ProviderRejects
    <3>2. QED
      BY <1>1, <3>1, HandledCalls
  <2>4. ASSUME NEW p \in Payments, Retry(r, p) \/ CreateAttempt(r, p)
        PROVE  CallsAreTimely' /\ OneSessionPerAttempt'
    <3>1. sessions' = sessions
      BY <2>4 DEF Retry, CreateAttempt
    <3>2. QED
      BY <1>1, <2>4, <3>1, RetryCalls, CreateAttemptCalls
  <2>5. QED
    BY <1>3, <2>1, <2>2, <2>3, <2>4, ProviderCreatesCalls DEF Proceed
<1>4. ASSUME NEW r \in Requests, NEW o \in Orders, NEW k \in Keys, Arrive(r, o, k)
      PROVE  CallsAreTimely' /\ OneSessionPerAttempt'
  BY <1>1, <1>4, ArriveCalls DEF Arrive
<1>5. CASE Tick
  BY <1>1, <1>5, TickCalls DEF Tick
<1>6. CASE \/ \E o \in Orders : CreateOrder(o)
           \/ \E e \in Events : ProcessEvent(e)
           \/ \E e \in Foreign : ProcessForeignEvent(e)
           \/ \E o \in Orders, target \in OrderStatus : TransitionOrderStatus(o, target)
           \/ UNCHANGED vars
  <2>1. UNCHANGED <<age, requests, sessions>>
    BY <1>6 DEF CreateOrder, ProcessEvent, ProcessForeignEvent, TransitionOrderStatus, vars
  <2>2. QED
    BY <1>1, <2>1 DEF CallsAreTimely, Retriable
<1>7. QED
  BY <1>3, <1>4, <1>5, <1>6, SessionStepCalls DEF Next

\* When the retry limit leaves a request time to reach Stripe before Stripe forgets the key,
\* no retry of an attempt ever creates a second session.
THEOREM OneSessionPerAttemptAlways == ASSUME RetryMargin PROVE Spec => []OneSessionPerAttempt
<1> DEFINE Inv == TypeOK /\ Consistent /\ CallsAreTimely /\ OneSessionPerAttempt
<1>1. Init => Inv
  BY TypeInit, ConsistentInit, CallsInit
<1>2. Inv /\ [Next]_vars => Inv'
  BY RetryMargin, TypeStep, ConsistentStep, CallsStep
<1>3. Inv => OneSessionPerAttempt
  OBVIOUS
<1> HIDE DEF Inv
<1>4. QED
  BY <1>1, <1>2, <1>3, PTL DEF Spec

-----------------------------------------------------------------------------
(* What a request returns, and the history of an order.                    *)

LEMMA OwnDisclosure ==
    ASSUME TypeOK, Consistent, NEW r \in Requests, requests'[r] # requests[r], [Next]_vars
    PROVE  \A s \in disclosed' \ disclosed : OrderOf(s) = requests[r].order
<1>1. ASSUME NEW q \in Requests, NEW p \in Payments, Replay(q, p)
      PROVE  q = r /\ \A s \in disclosed' \ disclosed : OrderOf(s) = requests[r].order
  <2>1. q = r
    BY <1>1, FinishUpdate DEF Replay
  <2>2. \A s \in disclosed' \ disclosed : s = payments[p].session
    BY <1>1 DEF Replay
  <2>3. sessions[payments[p].session].payment = p /\ payments[p].order = requests[q].order
    BY <1>1 DEF Replay, SameKey, Attempts, Consistent, SessionsHaveAttempts
  <2>4. QED
    BY <2>1, <2>2, <2>3 DEF OrderOf
<1>2. ASSUME NEW q \in Requests, PersistSuccess(q)
      PROVE  \A s \in disclosed' \ disclosed : OrderOf(s) = requests[r].order
  <2>1. q = r
    BY <1>2, FinishUpdate DEF PersistSuccess
  <2>2. \A s \in disclosed' \ disclosed : s = requests[q].session
    BY <1>2 DEF PersistSuccess
  <2>3. OrderOf(requests[q].session) = requests[q].order
    BY <1>2 DEF PersistSuccess, OrderOf, Consistent, RequestsHaveAttempts
  <2>4. QED
    BY <2>1, <2>2, <2>3
<1>3. ASSUME NEW q \in Requests, ReturnStored(q)
      PROVE  \A s \in disclosed' \ disclosed : OrderOf(s) = requests[r].order
  <2> DEFINE p == requests[q].payment
  <2>1. q = r
    BY <1>3, FinishUpdate DEF ReturnStored
  <2>2. \A s \in disclosed' \ disclosed : s = payments[p].session
    BY <1>3 DEF ReturnStored
  <2>3. p \in Payments /\ payments[p].session # None
    BY <1>3 DEF ReturnStored, TypeOK, RequestRows
  <2>4. sessions[payments[p].session].payment = p /\ payments[p].order = requests[q].order
    BY <1>3, <2>3 DEF ReturnStored, Consistent, SessionsHaveAttempts, RequestsHaveAttempts
  <2>5. QED
    BY <2>1, <2>2, <2>4 DEF OrderOf
<1>4. CASE disclosed' = disclosed
  BY <1>4
<1>5. \/ disclosed' = disclosed
      \/ \E q \in Requests : \/ PersistSuccess(q) \/ ReturnStored(q)
                             \/ \E p \in Payments : Replay(q, p)
  <2>1. ASSUME NEW q \in Requests, Proceed(q)
        PROVE  \/ disclosed' = disclosed \/ PersistSuccess(q) \/ ReturnStored(q)
               \/ \E p \in Payments : Replay(q, p)
    BY <2>1 DEF Proceed, Retry, CreateAttempt, ProviderReplays, ProviderCreates, Refuse,
       ProviderRejects, Lose, DiscardAnswer, FailAttempt, ReportRejection
  <2>2. ASSUME NEW s \in Sessions, SessionStep(s) PROVE disclosed' = disclosed
    BY <2>2 DEF SessionStep, Pay, PayLater, AsyncSucceeds, AsyncFails, ExpireSession, SessionMoves
  <2>3. CASE \/ \E o \in Orders : CreateOrder(o)
             \/ \E q \in Requests, o \in Orders, k \in Keys : Arrive(q, o, k)
             \/ \E e \in Events : ProcessEvent(e)
             \/ \E e \in Foreign : ProcessForeignEvent(e)
             \/ \E o \in Orders, target \in OrderStatus : TransitionOrderStatus(o, target)
             \/ Tick \/ UNCHANGED vars
    BY <2>3 DEF CreateOrder, Arrive, ProcessEvent, ProcessForeignEvent, TransitionOrderStatus,
       Tick, vars
  <2>4. QED
    BY <2>1, <2>2, <2>3 DEF Next
<1>6. QED
  BY <1>1, <1>2, <1>3, <1>5

\* A checkout request only returns the URL of a session of its own order.
THEOREM DisclosesOwnSessionsAlways == Spec => DisclosesOwnSessions
<1>1. TypeOK /\ Consistent /\ [Next]_vars =>
        [\A r \in Requests : requests'[r] # requests[r] =>
           \A s \in disclosed' \ disclosed : OrderOf(s) = requests[r].order]_vars
  BY OwnDisclosure
<1>2. QED
  BY <1>1, ConsistentAlways, PTL DEF Spec, DisclosesOwnSessions

LEMMA OrdersChange ==
    ASSUME [Next]_vars
    PROVE  \/ orders' = orders
           \/ \E o \in Orders : CreateOrder(o)
           \/ \E o \in Orders, target \in OrderStatus : TransitionOrderStatus(o, target)
<1>1. ASSUME NEW r \in Requests, Proceed(r) PROVE orders' = orders
  BY <1>1 DEF Proceed, Replay, Retry, CreateAttempt, ProviderReplays, ProviderCreates, Refuse,
     ProviderRejects, Lose, PersistSuccess, DiscardAnswer, FailAttempt, ReturnStored,
     ReportRejection
<1>2. ASSUME NEW s \in Sessions, SessionStep(s) PROVE orders' = orders
  BY <1>2 DEF SessionStep, Pay, PayLater, AsyncSucceeds, AsyncFails, ExpireSession, SessionMoves
<1>3. CASE \/ \E r \in Requests, o \in Orders, k \in Keys : Arrive(r, o, k)
           \/ \E e \in Events : ProcessEvent(e)
           \/ \E e \in Foreign : ProcessForeignEvent(e)
           \/ Tick \/ UNCHANGED vars
  BY <1>3 DEF Arrive, ProcessEvent, ProcessForeignEvent, Tick, vars
<1>4. QED
  BY <1>1, <1>2, <1>3 DEF Next

LEMMA HistoryStep == TypeOK /\ HistoryFollowsGraph /\ [Next]_vars => HistoryFollowsGraph'
<1> SUFFICES ASSUME TypeOK, HistoryFollowsGraph, [Next]_vars PROVE HistoryFollowsGraph'
  OBVIOUS
<1>1. CASE orders' = orders
  BY <1>1 DEF HistoryFollowsGraph
<1>2. ASSUME NEW o \in Orders, CreateOrder(o) PROVE HistoryFollowsGraph'
  <2>1. /\ orders'[o] = [status |-> "created", history |-> <<"created">>]
        /\ \A x \in Orders : x # o => orders'[x] = orders[x]
    BY <1>2 DEF CreateOrder, TypeOK
  <2>2. QED
    BY <2>1 DEF HistoryFollowsGraph
<1>3. ASSUME NEW o \in Orders, NEW target \in OrderStatus, TransitionOrderStatus(o, target)
      PROVE  HistoryFollowsGraph'
  <2> DEFINE h == orders[o].history
  <2>1. /\ h \in Seq(OrderStatus) /\ orders[o].status # "absent"
        /\ <<orders[o].status, target>> \in AllowedTransitions
    BY <1>3 DEF TransitionOrderStatus, TypeOK, OrderRow, AllowedTransitions
  <2>2. /\ orders'[o] = [status |-> target, history |-> Append(h, target)]
        /\ \A x \in Orders : x # o => orders'[x] = orders[x]
    BY <1>3 DEF TransitionOrderStatus, TypeOK
  <2>3. /\ Len(h) > 0 /\ h[1] = "created" /\ h[Len(h)] = orders[o].status
        /\ \A i \in 1..Len(h) - 1 : <<h[i], h[i + 1]>> \in AllowedTransitions
    BY <2>1 DEF HistoryFollowsGraph
  <2> DEFINE g == Append(h, target)
  <2>4. /\ Len(g) = Len(h) + 1 /\ Len(h) \in Nat
        /\ g[Len(g)] = target
        /\ \A i \in 1..Len(h) : g[i] = h[i]
    BY <2>1
  <2> HIDE DEF g
  <2>5. \A i \in 1..Len(g) - 1 : <<g[i], g[i + 1]>> \in AllowedTransitions
    <3> SUFFICES ASSUME NEW i \in 1..Len(g) - 1
                 PROVE  <<g[i], g[i + 1]>> \in AllowedTransitions
      OBVIOUS
    <3>1. CASE i = Len(h)
      <4>1. g[i] = orders[o].status /\ i + 1 = Len(g)
        BY <2>3, <2>4, <3>1
      <4>2. QED
        BY <2>1, <2>4, <4>1
    <3>2. CASE i # Len(h)
      BY <2>3, <2>4, <3>2
    <3>3. QED
      BY <3>1, <3>2
  <2>6. Len(g) > 0 /\ g[1] = "created" /\ g[Len(g)] = target
    BY <2>3, <2>4
  <2>7. orders'[o].status = target /\ orders'[o].history = g
    BY <2>2 DEF g
  <2>8. QED
    BY <2>2, <2>5, <2>6, <2>7 DEF HistoryFollowsGraph
<1>4. QED
  BY <1>1, <1>2, <1>3, OrdersChange

\* The history rows of an order are the path its status took through the graph.
THEOREM HistoryFollowsGraphAlways == Spec => []HistoryFollowsGraph
<1>1. Init => TypeOK /\ HistoryFollowsGraph
  BY TypeInit DEF Init, HistoryFollowsGraph
<1>2. TypeOK /\ HistoryFollowsGraph /\ [Next]_vars => (TypeOK /\ HistoryFollowsGraph)'
  BY TypeStep, HistoryStep
<1>3. QED
  BY <1>1, <1>2, PTL DEF Spec

-----------------------------------------------------------------------------
(* Checkout implements PaidOrder.                                          *)

Phase == [o \in Orders |-> PhaseOf(orders[o].status)]
Money == [o \in Orders |-> MoneyOf(o)]
Recorded == [o \in Orders |-> HasStatus(o, "succeeded")]

\* A session is charged through an attempt of an order, which stays the same.
LEMMA OrderOfStays ==
    ASSUME TypeOK, Consistent, [Next]_vars, NEW s \in Sessions, sessions[s].state # "absent"
    PROVE  OrderOf(s) \in Orders /\ OrderOf(s)' = OrderOf(s)
<1> DEFINE p == sessions[s].payment
<1>1. p \in Payments /\ payments[p].status # "absent"
  BY RowTypes DEF Consistent, SessionsHaveAttempts
<1>2. payments[p].order \in Orders
  BY <1>1, RowTypes DEF Consistent, RowsAreWhole
<1>3. payments'[p].order = payments[p].order
  BY <1>1, PaymentChanges DEF Untouched, Inserted, Stored, Failed, Confirmed
<1>4. sessions'[s].payment = p
  BY SessionAttemptStays
<1>5. QED
  BY <1>2, <1>3, <1>4 DEF OrderOf

\* The money of an order changes only with a session that becomes, or no longer is, charged.
LEMMA MoneyStays ==
    ASSUME TypeOK, Consistent, [Next]_vars, NEW o \in Orders,
           \A s \in Sessions : \A st \in {"paid", "processing"} :
             sessions'[s].state = st <=> sessions[s].state = st
    PROVE  MoneyOf(o)' = MoneyOf(o)
<1>1. ASSUME NEW st \in {"paid", "processing"} PROVE SessionIn(o, st)' <=> SessionIn(o, st)
  <2>1. ASSUME NEW s \in Sessions
        PROVE  (sessions[s].state = st /\ OrderOf(s) = o)' <=> sessions[s].state = st /\ OrderOf(s) = o
    BY OrderOfStays
  <2>2. QED
    BY <2>1 DEF SessionIn
<1>2. QED
  BY <1>1 DEF MoneyOf

\* Only an event that confirms a success makes an order recorded.
LEMMA RecordedStays ==
    ASSUME TypeOK, Consistent, [Next]_vars, NEW o \in Orders,
           \A e \in Events : ~(ProcessEvent(e) /\ TransitionDecision(e) = "transitioned"
                                                /\ Confirms[e.kind] = "succeeded")
    PROVE  HasStatus(o, "succeeded")' = HasStatus(o, "succeeded")
<1>1. ASSUME NEW p \in Payments
      PROVE  payments'[p].status = "succeeded" /\ payments'[p].order = o
               <=> payments[p].status = "succeeded" /\ payments[p].order = o
  BY PaymentChanges DEF Untouched, Inserted, Stored, Failed, Confirmed
<1>2. QED
  BY <1>1 DEF HasStatus, Attempts

\* What a session that a customer pays or has paid says of its order.
LEMMA ChargedOrder ==
    ASSUME TypeOK, Consistent, NEW s \in Sessions, Charged(s) \/ Chargeable(s)
    PROVE  /\ OrderOf(s) \in Orders
           /\ payments[sessions[s].payment].status = "pending" => orders[OrderOf(s)].status = "created"
           /\ \A t \in Sessions : Charged(t) /\ OrderOf(t) = OrderOf(s) => t = s
<1>1. /\ sessions[s].payment \in Payments
      /\ payments[sessions[s].payment].status \in Blocking
  BY ChargedAttempt
<1>2. OrderOf(s) \in Orders
  BY <1>1, RowTypes DEF OrderOf, Blocking, Consistent, RowsAreWhole
<1>3. payments[sessions[s].payment].status = "pending" => orders[OrderOf(s)].status = "created"
  BY <1>1 DEF OrderOf, Consistent, OrdersWaitForPayments
<1>4. ASSUME NEW t \in Sessions, Charged(t), OrderOf(t) = OrderOf(s) PROVE t = s
  <2>1. sessions[t].payment = sessions[s].payment
    BY <1>4, ChargedAttempt DEF OrderOf, Consistent, OneBlockingAttempt
  <2>2. QED
    BY <1>4, <2>1, ChargedAttempt
<1>5. QED
  BY <1>2, <1>3, <1>4

\* A charged or chargeable session alone decides about the money of its order.
LEMMA MoneyMoves ==
    ASSUME TypeOK, Consistent, NEW s \in Sessions, NEW st, Charged(s) \/ Chargeable(s),
           sessions' = [sessions EXCEPT ![s].state = st], payments' = payments
    PROVE  Money' = [Money EXCEPT ![OrderOf(s)] =
                       IF st = "paid" THEN "taken"
                       ELSE IF st = "processing" THEN "processing" ELSE "none"]
<1>1. /\ sessions'[s].state = st
      /\ \A t \in Sessions : OrderOf(t)' = OrderOf(t)
      /\ \A t \in Sessions : t # s => sessions'[t].state = sessions[t].state
  BY StateUpdate DEF OrderOf
<1>2. \A t \in Sessions : Charged(t) /\ OrderOf(t) = OrderOf(s) => t = s
  BY ChargedOrder
<1>3. PICK o \in Orders : o = OrderOf(s)
  BY ChargedOrder
<1>4. ASSUME NEW c \in {"paid", "processing"}
      PROVE  SessionIn(o, c)' <=> st = c
  BY <1>1, <1>2, <1>3, <1>4 DEF SessionIn, Charged
<1>5. MoneyOf(o)' = IF st = "paid" THEN "taken"
                    ELSE IF st = "processing" THEN "processing" ELSE "none"
  BY <1>4 DEF MoneyOf
<1>6. ASSUME NEW x \in Orders, x # o PROVE MoneyOf(x)' = MoneyOf(x)
  BY <1>1, <1>3, <1>6 DEF MoneyOf, SessionIn
<1>7. QED
  BY <1>3, <1>5, <1>6 DEF Money

\* What the money of an order is while its session is open, processing or paid.
LEMMA MoneyIs ==
    ASSUME TypeOK, Consistent, NEW s \in Sessions, Charged(s) \/ Chargeable(s)
    PROVE  Money[OrderOf(s)] = IF sessions[s].state = "paid" THEN "taken"
                               ELSE IF sessions[s].state = "processing" THEN "processing"
                               ELSE "none"
<1>1. /\ OrderOf(s) \in Orders
      /\ \A t \in Sessions : Charged(t) /\ OrderOf(t) = OrderOf(s) => t = s
  BY ChargedOrder
<1>2. ASSUME NEW c \in {"paid", "processing"}
      PROVE  SessionIn(OrderOf(s), c) <=> sessions[s].state = c
  BY <1>1 DEF SessionIn, Charged
<1>3. QED
  BY <1>1, <1>2 DEF Money, MoneyOf

LEMMA PromiseInit == Init => Promise!Init
<1> SUFFICES ASSUME Init PROVE Promise!Init
  OBVIOUS
<1>1. \A o \in Orders : PhaseOf(orders[o].status) = "absent"
  BY DEF Init, PhaseOf
<1>2. \A o \in Orders : MoneyOf(o) = "none" /\ HasStatus(o, "succeeded") = FALSE
  BY DEF Init, MoneyOf, SessionIn, HasStatus, Attempts
<1>3. QED
  BY <1>1, <1>2 DEF Promise!Init

\* A customer pays, or an asynchronous method settles.
LEMMA PromiseSession ==
    ASSUME TypeOK, Consistent, [Next]_vars, NEW s \in Sessions, SessionStep(s)
    PROVE  [Promise!Next]_(Promise!vars)
<1> DEFINE o == OrderOf(s)
<1>1. Phase' = Phase /\ Recorded' = Recorded /\ payments' = payments
  BY DEF SessionStep, Pay, PayLater, AsyncSucceeds, AsyncFails, ExpireSession, SessionMoves,
     Phase, Recorded, HasStatus, Attempts
<1>2. ASSUME Charged(s) \/ Chargeable(s)
      PROVE  /\ o \in Orders
             /\ sessions[s].state \in {"open", "processing"} => Phase[o] = "open"
             /\ Money[o] = IF sessions[s].state = "paid" THEN "taken"
                           ELSE IF sessions[s].state = "processing" THEN "processing" ELSE "none"
  <2>1. sessions[s].state \in {"open", "processing"} => payments[sessions[s].payment].status = "pending"
    BY <1>2 DEF Charged, Chargeable, Consistent, RowsAgreeWithStripe
  <2>2. QED
    BY <1>2, <2>1, ChargedOrder, MoneyIs DEF Phase, PhaseOf
<1>3. CASE Pay(s) \/ PayLater(s)
  <2>1. Chargeable(s) /\ sessions[s].state = "open"
    BY <1>3 DEF Pay, PayLater, Reachable, SessionMoves, Chargeable
  <2>2. \/ sessions' = [sessions EXCEPT ![s].state = "paid"]
        \/ sessions' = [sessions EXCEPT ![s].state = "processing"]
    BY <1>3 DEF Pay, PayLater, SessionMoves
  <2>3. \E m \in {"processing", "taken"} : Money' = [Money EXCEPT ![o] = m]
    BY <1>1, <2>1, <2>2, MoneyMoves
  <2>4. QED
    BY <1>1, <1>2, <2>1, <2>3 DEF Promise!Next, Promise!Charge, Phase, Money, Recorded
<1>4. CASE AsyncSucceeds(s) \/ AsyncFails(s)
  <2>1. Charged(s) /\ sessions[s].state = "processing"
    BY <1>4 DEF AsyncSucceeds, AsyncFails, SessionMoves, Charged
  <2>2. \/ sessions' = [sessions EXCEPT ![s].state = "paid"]
        \/ sessions' = [sessions EXCEPT ![s].state = "refused"]
    BY <1>4 DEF AsyncSucceeds, AsyncFails, SessionMoves
  <2>3. \E m \in {"none", "taken"} : Money' = [Money EXCEPT ![o] = m]
    BY <1>1, <2>1, <2>2, MoneyMoves
  <2>4. QED
    BY <1>1, <1>2, <2>1, <2>3 DEF Promise!Next, Promise!Settle, Phase, Money, Recorded
<1>5. CASE ExpireSession(s)
  <2>1. sessions[s].state = "open" /\ sessions' = [sessions EXCEPT ![s].state = "expired"]
    BY <1>5 DEF ExpireSession, SessionMoves
  <2>2. Money' = Money
    BY <2>1, MoneyStays, StateUpdate DEF Money
  <2>3. QED
    BY <1>1, <2>2 DEF Promise!vars, Phase, Money, Recorded
<1>6. QED
  BY <1>3, <1>4, <1>5 DEF SessionStep

\* A webhook records a success, or something else about a payment.
LEMMA PromiseEvent ==
    ASSUME TypeOK, Consistent, [Next]_vars, NEW e \in Events, ProcessEvent(e)
    PROVE  [Promise!Next]_(Promise!vars)
<1>1. Phase' = Phase /\ sessions' = sessions
  BY DEF ProcessEvent, Phase
<1>2. Money' = Money
  BY <1>1, MoneyStays DEF Money
<1>3. CASE ~(TransitionDecision(e) = "transitioned" /\ Confirms[e.kind] = "succeeded")
  <2>1. \A f \in Events : ~(ProcessEvent(f) /\ TransitionDecision(f) = "transitioned"
                                             /\ Confirms[f.kind] = "succeeded")
    <3> SUFFICES ASSUME NEW f \in Events, ProcessEvent(f), f # e PROVE FALSE
      BY <1>3
    <3>1. receipts'[e] # "none" /\ receipts'[e] = receipts[e] /\ receipts[e] = "none"
      <4>1. receipts[e] = "none" /\ receipts'[e] = TransitionDecision(e)
        BY DEF ProcessEvent, TypeOK
      <4>2. receipts'[e] = receipts[e]
        BY DEF ProcessEvent, TypeOK
      <4>3. TransitionDecision(e) # "none"
        BY DEF TransitionDecision
      <4>4. QED
        BY <4>1, <4>2, <4>3
    <3>2. QED
      BY <3>1
  <2>2. Recorded' = Recorded
    BY <2>1, RecordedStays DEF Recorded
  <2>3. QED
    BY <1>1, <1>2, <2>2 DEF Promise!vars, Phase, Money, Recorded
<1>4. CASE TransitionDecision(e) = "transitioned" /\ Confirms[e.kind] = "succeeded"
  <2> DEFINE p == EventPayment(e)
             s == e.session
  <2>1. /\ s \in Sessions /\ sessions[s].state = "paid" /\ Charged(s)
        /\ OrderOf(s) = payments[p].order
        /\ p \in Payments /\ payments[p].status = "pending"
    BY <1>4, TransitionMeans DEF ProcessEvent, Events, Charged, OrderOf, EventPayment
  <2>2. PICK o \in Orders : o = payments[p].order /\ Money[o] = "taken"
    BY <2>1, ChargedOrder, MoneyIs
  <2>3. ~Recorded[o]
    BY <2>1, <2>2 DEF Recorded, HasStatus, Attempts, Consistent, OneBlockingAttempt, Blocking
  <2>4. payments' = [payments EXCEPT ![p].status = "succeeded"]
    BY <1>4 DEF ProcessEvent
  <2>5. /\ payments'[p].status = "succeeded" /\ payments'[p].order = o
        /\ \A q \in Payments : q # p => payments'[q] = payments[q]
    BY <2>1, <2>2, <2>4, StatusUpdate
  <2> HIDE DEF p, s
  <2>6. HasStatus(o, "succeeded")' = TRUE
    BY <2>1, <2>5 DEF HasStatus, Attempts
  <2>7. \A x \in Orders : x # o => HasStatus(x, "succeeded")' = HasStatus(x, "succeeded")
    BY <2>1, <2>2, <2>5 DEF HasStatus, Attempts
  <2>8. Recorded' = [Recorded EXCEPT ![o] = TRUE]
    BY <2>2, <2>6, <2>7 DEF Recorded
  <2>9. QED
    BY <1>1, <1>2, <2>2, <2>3, <2>8 DEF Promise!Next, Promise!Record, Phase, Money, Recorded
<1>5. QED
  BY <1>3, <1>4

\* An order is placed, accepted or cancelled, or moves on in the kitchen.
LEMMA PromiseOrder ==
    ASSUME TypeOK, Consistent, [Next]_vars, NEW o \in Orders,
           CreateOrder(o) \/ \E target \in OrderStatus : TransitionOrderStatus(o, target)
    PROVE  [Promise!Next]_(Promise!vars)
<1>1. payments' = payments /\ sessions' = sessions
  BY DEF CreateOrder, TransitionOrderStatus
<1>2. Money' = Money /\ Recorded' = Recorded
  BY <1>1 DEF Money, MoneyOf, SessionIn, OrderOf, Recorded, HasStatus, Attempts
<1>3. PICK to \in OrderStatus :
        orders'[o].status = to /\ \A x \in Orders : x # o => orders'[x] = orders[x]
  BY DEF CreateOrder, TransitionOrderStatus, OrderStatus, TypeOK
<1>4. Phase' = [Phase EXCEPT ![o] = PhaseOf(to)]
  BY <1>3 DEF Phase
<1>5. CASE CreateOrder(o)
  <2>1. PhaseOf(to) = "open" /\ Phase[o] = "absent"
    BY <1>3, <1>5 DEF CreateOrder, PhaseOf, Phase, TypeOK
  <2>2. QED
    BY <1>2, <1>4, <2>1 DEF Promise!Next, Promise!Place, Phase, Money, Recorded
<1>6. ASSUME NEW target \in OrderStatus, TransitionOrderStatus(o, target)
      PROVE  [Promise!Next]_(Promise!vars)
  <2>1. target = to /\ <<orders[o].status, to>> \in AllowedTransitions
    BY <1>3, <1>6 DEF TransitionOrderStatus, TypeOK
  <2>2. CASE to = "accepted"
    <3>1. PhaseOf(to) = "fulfilled" /\ Phase[o] = "open"
      BY <2>1, <2>2 DEF AllowedTransitions, PhaseOf, Phase
    <3>2. Recorded[o]
      BY <1>6, <2>1, <2>2 DEF TransitionOrderStatus, Recorded
    <3>3. QED
      BY <1>2, <1>4, <3>1, <3>2 DEF Promise!Next, Promise!Accept, Phase, Money, Recorded
  <2>3. CASE to = "cancelled"
    <3>1. PhaseOf(to) = "cancelled" /\ Phase[o] = "open"
      BY <2>1, <2>3 DEF AllowedTransitions, PhaseOf, Phase
    <3>2. ASSUME NEW s \in Sessions, Charged(s), OrderOf(s) = o PROVE FALSE
      <4>1. ~HasBlocking(o)
        BY <1>6, <2>1, <2>3 DEF TransitionOrderStatus
      <4>2. QED
        BY <3>2, <4>1, ChargedAttempt DEF HasBlocking, Attempts, OrderOf, Blocking
    <3>3. Money[o] = "none"
      BY <3>2 DEF Money, MoneyOf, SessionIn, Charged
    <3>4. QED
      BY <1>2, <1>4, <3>1, <3>3 DEF Promise!Next, Promise!Cancel, Phase, Money, Recorded
  <2>4. CASE to \notin {"accepted", "cancelled"}
    <3>1. PhaseOf(to) = "fulfilled" /\ Phase[o] = "fulfilled"
      BY <2>1, <2>4 DEF AllowedTransitions, PhaseOf, Phase
    <3>2. Phase' = Phase
      BY <1>4, <3>1 DEF Phase
    <3>3. QED
      BY <1>2, <3>2 DEF Promise!vars, Phase, Money, Recorded
  <2>5. QED
    BY <2>2, <2>3, <2>4
<1>7. QED
  BY <1>5, <1>6

\* No other step changes what the promise is about.
LEMMA PromiseSilent ==
    ASSUME TypeOK, Consistent, [Next]_vars, orders' = orders,
           \A e \in Events : ~ProcessEvent(e),
           \A s \in Sessions : \A st \in {"paid", "processing"} :
             sessions'[s].state = st <=> sessions[s].state = st
    PROVE  UNCHANGED Promise!vars
<1>1. Phase' = Phase
  BY DEF Phase
<1>2. Money' = Money
  BY MoneyStays DEF Money
<1>3. Recorded' = Recorded
  BY RecordedStays DEF Recorded
<1>4. QED
  BY <1>1, <1>2, <1>3 DEF Promise!vars, Phase, Money, Recorded

LEMMA PromiseStep == TypeOK /\ Consistent /\ [Next]_vars => [Promise!Next]_(Promise!vars)
<1> SUFFICES ASSUME TypeOK, Consistent, [Next]_vars PROVE [Promise!Next]_(Promise!vars)
  OBVIOUS
<1>1. CASE \E e \in Events : ProcessEvent(e)
  BY <1>1, PromiseEvent
<1>2. CASE \E s \in Sessions : SessionStep(s)
  BY <1>2, PromiseSession
<1>3. CASE \/ \E o \in Orders : CreateOrder(o)
           \/ \E o \in Orders, target \in OrderStatus : TransitionOrderStatus(o, target)
  BY <1>3, PromiseOrder
<1>4. ASSUME NEW r \in Requests, Proceed(r)
      PROVE  /\ orders' = orders
             /\ \A s \in Sessions : \A st \in {"paid", "processing"} :
                  sessions'[s].state = st <=> sessions[s].state = st
  <2>1. CASE sessions' = sessions
    BY <1>4, <2>1 DEF Proceed, Replay, Retry, CreateAttempt, ProviderReplays, ProviderCreates,
       Refuse, ProviderRejects, Lose, PersistSuccess, DiscardAnswer, FailAttempt, ReturnStored,
       ReportRejection
  <2>2. ASSUME NEW s \in Sessions, ProviderCreates(r, s)
        PROVE  /\ orders' = orders
               /\ \A t \in Sessions : \A st \in {"paid", "processing"} :
                    sessions'[t].state = st <=> sessions[t].state = st
    BY <2>2 DEF ProviderCreates, TypeOK
  <2>3. sessions' = sessions \/ \E s \in Sessions : ProviderCreates(r, s)
    BY <1>4 DEF Proceed, Replay, Retry, CreateAttempt, ProviderReplays, Refuse, ProviderRejects,
       Lose, PersistSuccess, DiscardAnswer, FailAttempt, ReturnStored, ReportRejection
  <2>4. QED
    BY <2>1, <2>2, <2>3
<1>5. CASE \/ \E r \in Requests, o \in Orders, k \in Keys : Arrive(r, o, k)
           \/ \E e \in Foreign : ProcessForeignEvent(e)
           \/ Tick \/ UNCHANGED vars
  <2>1. orders' = orders /\ sessions' = sessions
    BY <1>5 DEF Arrive, ProcessForeignEvent, Tick, vars
  <2>2. CASE \A e \in Events : ~ProcessEvent(e)
    BY <2>1, <2>2, PromiseSilent
  <2>3. QED
    BY <1>1, <2>2
<1>6. CASE \E r \in Requests : Proceed(r)
  <2>1. CASE \A e \in Events : ~ProcessEvent(e)
    BY <1>4, <1>6, <2>1, PromiseSilent
  <2>2. QED
    BY <1>1, <2>1
<1>7. QED
  BY <1>1, <1>2, <1>3, <1>5, <1>6 DEF Next

\* Checkout implements PaidOrder: seen from outside, an order is charged at most once, only
\* while it is open, and fulfilled or cancelled accordingly.
THEOREM ImplementsPaidOrderSafelyAlways == Spec => ImplementsPaidOrderSafely
<1>1. TypeOK /\ Consistent /\ [Next]_vars => [Promise!Next]_(Promise!vars)
  BY PromiseStep
<1>2. Init => Promise!Init
  BY PromiseInit
<1>3. QED
  BY <1>1, <1>2, ConsistentAlways, PTL DEF Spec, ImplementsPaidOrderSafely, Promise!Safe
=============================================================================
