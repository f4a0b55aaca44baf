------------------------ MODULE CheckoutSafetyProofs ------------------------
(***************************************************************************)
(* Types of Checkout, that Consistent is an inductive invariant of it, and *)
(* what it implies about the customer's money, for every number of orders, *)
(* attempts, keys, requests and sessions and every value of the limits.    *)
(***************************************************************************)
EXTENDS CheckoutInvariant, TLAPS

-----------------------------------------------------------------------------
(* Types.                                                                  *)

LEMMA AgeBounds ==
    /\ MaxAge \in Nat
    /\ MaxAge >= KeyRetention
    /\ MaxAge >= RetryLimit + Slack
    /\ MaxAge >= SessionLife + Slack
    /\ MaxAge >= Slack
BY TimeConstants DEF MaxAge

LEMMA IdleType == Idle \in RequestRow
BY DEF Idle, RequestRow

LEMMA TypeInit == Init => TypeOK
<1> SUFFICES ASSUME Init PROVE TypeOK
  OBVIOUS
<1>1. 0 \in 0..MaxAge
  BY AgeBounds
<1>2. RequestRows
  BY IdleType DEF Init, RequestRows, Idle
<1>3. [status |-> "absent", order |-> None, key |-> None, session |-> None] \in PaymentRow
  BY DEF PaymentRow
<1>4. [state |-> "absent", payment |-> None] \in SessionRow
  BY DEF SessionRow
<1>5. [status |-> "absent", history |-> <<>>] \in OrderRow
  BY DEF OrderRow
<1>6. QED
  BY <1>1, <1>2, <1>3, <1>4, <1>5 DEF Init, TypeOK

\* Finishing a request is well typed, whatever the request was.
LEMMA FinishType ==
    ASSUME TypeOK, NEW r \in Requests, Finish(r)
    PROVE  /\ RequestRows'
           /\ age' \in [Clocks -> 0..MaxAge]
<1>1. age' \in [Clocks -> 0..MaxAge]
  BY AgeBounds DEF TypeOK, Finish, Clocks
<1>2. requests \in [Requests -> RequestRow] /\ requests' = [requests EXCEPT ![r] = Idle]
  BY DEF TypeOK, RequestRows, Finish
<1>3. requests' \in [Requests -> RequestRow]
  BY <1>2, IdleType
<1>4. Idle.pc = "idle"
  BY DEF Idle
<1>5. \A q \in Requests : q # r => requests'[q] = requests[q]
  BY <1>2
<1>6. requests'[r] = Idle
  BY <1>2
<1>7. RequestRows'
  BY <1>3, <1>4, <1>5, <1>6 DEF TypeOK, RequestRows
<1>8. QED
  BY <1>1, <1>7

\* A request moves on: its order and key stay, and it has what its new place needs.
LEMMA MoveType ==
    ASSUME TypeOK, NEW r \in Requests, requests[r].pc # "idle",
           NEW pc \in {"calling", "created", "rejected"},
           NEW p \in Payments, NEW s \in Sessions \cup {None},
           pc = "created" => s \in Sessions,
           Move(r, pc, p, s)
    PROVE  RequestRows'
<1> DEFINE row == [requests[r] EXCEPT !.pc = pc, !.payment = p, !.session = s]
<1>1. requests \in [Requests -> RequestRow] /\ requests[r] \in RequestRow
  BY DEF TypeOK, RequestRows
<1>2. /\ row \in RequestRow /\ row.pc = pc /\ row.payment = p /\ row.session = s
      /\ row.order = requests[r].order /\ row.key = requests[r].key
  BY <1>1 DEF RequestRow
<1>3. requests' = [requests EXCEPT ![r] = row]
  BY DEF Move
<1> HIDE DEF row
<1>4. requests' \in [Requests -> RequestRow] /\ requests'[r] = row
  BY <1>1, <1>2, <1>3
<1>5. \A q \in Requests : q # r => requests'[q] = requests[q]
  BY <1>1, <1>3
<1>6. requests[r].order \in Orders /\ requests[r].key \in Keys
  BY DEF TypeOK, RequestRows
<1>7. QED
  BY <1>2, <1>4, <1>5, <1>6 DEF TypeOK, RequestRows

LEMMA ProceedType ==
    ASSUME TypeOK, NEW r \in Requests, Proceed(r)
    PROVE  TypeOK'
<1>0. /\ payments \in [Payments -> PaymentRow] /\ sessions \in [Sessions -> SessionRow]
      /\ age \in [Clocks -> 0..MaxAge]
      /\ 0 \in 0..MaxAge /\ r \in Clocks /\ RequestRows
  BY AgeBounds DEF TypeOK, Clocks
<1>1. ASSUME NEW p \in Payments, Replay(r, p) PROVE TypeOK'
  <2>1. payments[p].session \in Sessions
    BY <1>0, <1>1 DEF Replay, PaymentRow
  <2>2. QED
    BY <1>1, <2>1, FinishType DEF Replay, TypeOK
<1>2. ASSUME NEW p \in Payments, Retry(r, p) PROVE TypeOK'
  <2>1. RequestRows'
    BY <1>2, MoveType DEF Retry, Payable
  <2>2. QED
    BY <1>2, <2>1 DEF Retry, TypeOK
<1>3. ASSUME NEW p \in Payments, CreateAttempt(r, p) PROVE TypeOK'
  <2>1. RequestRows'
    BY <1>3, MoveType DEF CreateAttempt, Payable
  <2>2. requests[r].order \in Orders /\ requests[r].key \in Keys
    BY <1>0, <1>3 DEF RequestRows, CreateAttempt, Payable
  <2>3. [status |-> "pending", order |-> requests[r].order,
         key |-> requests[r].key, session |-> None] \in PaymentRow
    BY <2>2 DEF PaymentRow, PaymentStatus
  <2>4. payments' \in [Payments -> PaymentRow]
    BY <1>0, <1>3, <2>3 DEF CreateAttempt
  <2>5. age' \in [Clocks -> 0..MaxAge]
    BY <1>0, <1>3 DEF CreateAttempt
  <2>6. QED
    BY <1>3, <2>1, <2>4, <2>5 DEF CreateAttempt, TypeOK
<1>4. ASSUME NEW s \in Sessions, ProviderReplays(r, s) PROVE TypeOK'
  <2>1. requests[r].payment \in Payments
    BY <1>0, <1>4 DEF ProviderReplays, RequestRows
  <2>2. RequestRows'
    BY <1>4, <2>1, MoveType DEF ProviderReplays
  <2>3. age' \in [Clocks -> 0..MaxAge]
    BY <1>0, <1>4 DEF ProviderReplays
  <2>4. QED
    BY <1>4, <2>2, <2>3 DEF ProviderReplays, TypeOK
<1>5. ASSUME NEW s \in Sessions, ProviderCreates(r, s) PROVE TypeOK'
  <2>1. requests[r].payment \in Payments
    BY <1>0, <1>5 DEF ProviderCreates, RequestRows
  <2>2. RequestRows'
    BY <1>5, <2>1, MoveType DEF ProviderCreates
  <2>3. [state |-> "open", payment |-> requests[r].payment] \in SessionRow
    BY <2>1 DEF SessionRow
  <2>4. sessions' \in [Sessions -> SessionRow]
    BY <1>0, <1>5, <2>3 DEF ProviderCreates
  <2>5. age' \in [Clocks -> 0..MaxAge]
    BY <1>0, <1>5 DEF ProviderCreates
  <2>6. QED
    BY <1>5, <2>2, <2>4, <2>5 DEF ProviderCreates, TypeOK
<1>6. ASSUME ProviderRejects(r) PROVE TypeOK'
  <2>1. requests[r].payment \in Payments
    BY <1>0, <1>6 DEF ProviderRejects, RequestRows
  <2>2. RequestRows'
    BY <1>6, <2>1, MoveType DEF ProviderRejects
  <2>3. age' \in [Clocks -> 0..MaxAge]
    BY <1>0, <1>6 DEF ProviderRejects
  <2>4. QED
    BY <1>6, <2>2, <2>3 DEF ProviderRejects, TypeOK
<1>7. ASSUME Refuse(r) \/ Lose(r) \/ DiscardAnswer(r) \/ ReportRejection(r) PROVE TypeOK'
  BY <1>7, FinishType DEF Refuse, Lose, DiscardAnswer, ReportRejection, TypeOK
<1>8. ASSUME PersistSuccess(r) PROVE TypeOK'
  <2>1. requests[r].session \in Sessions /\ requests[r].payment \in Payments
    BY <1>0, <1>8 DEF RequestRows, PersistSuccess
  <2> DEFINE p == requests[r].payment
             row == [payments[p] EXCEPT !.session = requests[r].session]
  <2>2. row \in PaymentRow
    BY <1>0, <2>1 DEF PaymentRow
  <2>3. payments' = [payments EXCEPT ![p] = row]
    BY <1>8 DEF PersistSuccess
  <2> HIDE DEF row
  <2>4. payments' \in [Payments -> PaymentRow]
    BY <1>0, <2>2, <2>3
  <2>5. disclosed' \subseteq Sessions
    BY <1>8, <2>1 DEF PersistSuccess, TypeOK
  <2>6. QED
    BY <1>8, <2>4, <2>5, FinishType DEF PersistSuccess, TypeOK
<1>9. ASSUME FailAttempt(r) PROVE TypeOK'
  <2>1. requests[r].payment \in Payments
    BY <1>0, <1>9 DEF RequestRows, FailAttempt
  <2> DEFINE p == requests[r].payment
             row == [payments[p] EXCEPT !.status = "failed"]
  <2>2. row \in PaymentRow
    BY <1>0, <2>1 DEF PaymentRow, PaymentStatus, Terminal
  <2>3. payments' = [payments EXCEPT ![p] = row]
    BY <1>9 DEF FailAttempt
  <2> HIDE DEF row
  <2>4. payments' \in [Payments -> PaymentRow]
    BY <1>0, <2>2, <2>3
  <2>5. QED
    BY <1>9, <2>4, FinishType DEF FailAttempt, TypeOK
<1>10. ASSUME ReturnStored(r) PROVE TypeOK'
  <2>1. requests[r].payment \in Payments
    BY <1>0, <1>10 DEF RequestRows, ReturnStored
  <2>2. payments[requests[r].payment].session \in Sessions
    BY <1>0, <1>10, <2>1 DEF ReturnStored, PaymentRow
  <2>3. QED
    BY <1>10, <2>2, FinishType DEF ReturnStored, TypeOK
<1>11. QED
  BY <1>1, <1>2, <1>3, <1>4, <1>5, <1>6, <1>7, <1>8, <1>9, <1>10 DEF Proceed

LEMMA ConfirmsType == \A k \in Kinds : Confirms[k] \in PaymentStatus
BY DEF Kinds, Confirms, PaymentStatus, Terminal

LEMMA DecisionType == \A e \in Events : TransitionDecision(e) \in Results
BY DEF TransitionDecision, Results

LEMMA ArriveType ==
    ASSUME TypeOK, NEW r \in Requests, NEW o \in Orders, NEW k \in Keys, Arrive(r, o, k)
    PROVE  TypeOK'
<1> DEFINE row == [Idle EXCEPT !.pc = "waiting", !.order = o, !.key = k]
<1>1. /\ row \in RequestRow /\ row.pc = "waiting" /\ row.order = o /\ row.key = k
  BY DEF Idle, RequestRow
<1>2. requests' = [requests EXCEPT ![r] = row]
  BY DEF Arrive
<1> HIDE DEF row
<1>3. requests' \in [Requests -> RequestRow] /\ requests'[r] = row
  BY <1>1, <1>2 DEF TypeOK, RequestRows
<1>4. \A q \in Requests : q # r => requests'[q] = requests[q]
  BY <1>2 DEF TypeOK, RequestRows
<1>5. RequestRows'
  BY <1>1, <1>3, <1>4 DEF TypeOK, RequestRows
<1>6. age' \in [Clocks -> 0..MaxAge]
  BY AgeBounds DEF TypeOK, Arrive, Clocks
<1>7. QED
  BY <1>5, <1>6 DEF TypeOK, Arrive

LEMMA SessionStepType ==
    ASSUME TypeOK, NEW s \in Sessions, SessionStep(s)
    PROVE  TypeOK'
<1>1. ASSUME NEW from, NEW to \in {"processing", "paid", "refused", "expired"},
             NEW kind \in Kinds, SessionMoves(s, from, to, kind)
      PROVE  TypeOK'
  <2> DEFINE row == [sessions[s] EXCEPT !.state = to]
  <2>1. row \in SessionRow
    BY DEF TypeOK, SessionRow
  <2>2. sessions' = [sessions EXCEPT ![s] = row]
    BY <1>1 DEF SessionMoves
  <2> HIDE DEF row
  <2>3. sessions' \in [Sessions -> SessionRow]
    BY <2>1, <2>2 DEF TypeOK
  <2>4. [session |-> s, kind |-> kind] \in Events
    BY DEF Events
  <2>5. QED
    BY <1>1, <2>3, <2>4 DEF SessionMoves, TypeOK, RequestRows
<1>2. QED
  BY <1>1 DEF SessionStep, Pay, PayLater, AsyncSucceeds, AsyncFails, ExpireSession, Kinds

LEMMA ProcessEventType ==
    ASSUME TypeOK, NEW e \in Events, ProcessEvent(e)
    PROVE  TypeOK'
<1>1. receipts' \in [Events \cup Foreign -> Results \cup {"none"}]
  BY DecisionType DEF TypeOK, ProcessEvent
<1>2. payments' \in [Payments -> PaymentRow]
  <2> DEFINE p == EventPayment(e)
             row == [payments[p] EXCEPT !.status = Confirms[e.kind]]
  <2>1. CASE p \in Payments
    <3>1. e.kind \in Kinds
      BY DEF Events
    <3>2. row \in PaymentRow
      BY <2>1, <3>1, ConfirmsType DEF TypeOK, PaymentRow
    <3>3. payments' \in {payments, [payments EXCEPT ![p] = row]}
      BY DEF ProcessEvent
    <3> HIDE DEF row
    <3>4. QED
      BY <2>1, <3>2, <3>3 DEF TypeOK
  <2>2. CASE p \notin Payments
    <3>1. [payments EXCEPT ![p].status = Confirms[e.kind]] = payments
      BY <2>2 DEF TypeOK
    <3>2. QED
      BY <3>1 DEF ProcessEvent, TypeOK
  <2>3. QED
    BY <2>1, <2>2
<1>3. QED
  BY <1>1, <1>2 DEF ProcessEvent, TypeOK, RequestRows

LEMMA OrderStepType ==
    ASSUME TypeOK, NEW o \in Orders,
           CreateOrder(o) \/ \E target \in OrderStatus : TransitionOrderStatus(o, target)
    PROVE  TypeOK'
<1>1. CASE CreateOrder(o)
  <2>1. [status |-> "created", history |-> <<"created">>] \in OrderRow
    BY DEF OrderRow, OrderStatus
  <2>2. orders' \in [Orders -> OrderRow]
    BY <1>1, <2>1 DEF CreateOrder, TypeOK
  <2>3. QED
    BY <1>1, <2>2 DEF CreateOrder, TypeOK, RequestRows
<1>2. ASSUME NEW target \in OrderStatus, TransitionOrderStatus(o, target) PROVE TypeOK'
  <2> DEFINE row == [status |-> target, history |-> Append(orders[o].history, target)]
  <2>1. orders[o].history \in Seq(OrderStatus)
    BY DEF TypeOK, OrderRow
  <2>2. Append(orders[o].history, target) \in Seq(OrderStatus)
    BY <2>1
  <2>3. row \in OrderRow
    BY <2>2 DEF OrderRow
  <2>4. orders' = [orders EXCEPT ![o] = row]
    BY <1>2 DEF TransitionOrderStatus
  <2> HIDE DEF row
  <2>5. orders' \in [Orders -> OrderRow]
    BY <2>3, <2>4 DEF TypeOK
  <2>6. QED
    BY <1>2, <2>5 DEF TransitionOrderStatus, TypeOK, RequestRows
<1>3. QED
  BY <1>1, <1>2

LEMMA TickType == TypeOK /\ Tick => TypeOK'
<1> SUFFICES ASSUME TypeOK, Tick PROVE TypeOK'
  OBVIOUS
<1>1. \A c \in Clocks : Older(c) \in 0..MaxAge
  BY AgeBounds DEF TypeOK, Older
<1>2. age' \in [Clocks -> 0..MaxAge]
  BY <1>1 DEF Tick
<1>3. QED
  BY <1>2 DEF Tick, TypeOK, RequestRows

LEMMA TypeStep == TypeOK /\ [Next]_vars => TypeOK'
<1> SUFFICES ASSUME TypeOK, [Next]_vars PROVE TypeOK'
  OBVIOUS
<1>1. ASSUME NEW e \in Foreign, ProcessForeignEvent(e) PROVE TypeOK'
  BY <1>1 DEF ProcessForeignEvent, TypeOK, Results, RequestRows
<1>2. CASE UNCHANGED vars
  BY <1>2 DEF vars, TypeOK, RequestRows
<1>3. QED
  BY <1>1, <1>2, ArriveType, ProceedType, SessionStepType, ProcessEventType, OrderStepType,
     TickType DEF Next

\* Every row, session, request and receipt keeps its shape, and a request in progress has
\* what its place in checkout_order needs.
THEOREM TypeCorrect == Spec => []TypeOK
BY TypeInit, TypeStep, PTL DEF Spec

-----------------------------------------------------------------------------
(* Facts about types and single-row updates.                               *)

LEMMA RowTypes ==
    ASSUME TypeOK
    PROVE  /\ \A p \in Payments : /\ payments[p].status \in PaymentStatus \cup {"absent"}
                                  /\ payments[p].order \in Orders \cup {None}
                                  /\ payments[p].session \in Sessions \cup {None}
           /\ \A s \in Sessions : /\ sessions[s].payment \in Payments \cup {None}
                                  /\ sessions[s].state \in {"absent", "open", "processing", "paid",
                                                            "refused", "expired"}
BY DEF TypeOK, PaymentRow, SessionRow

LEMMA StatusUpdate ==
    ASSUME TypeOK, NEW p \in Payments, NEW st,
           payments' = [payments EXCEPT ![p].status = st]
    PROVE  /\ payments'[p].status = st
           /\ payments'[p].order = payments[p].order
           /\ payments'[p].key = payments[p].key
           /\ payments'[p].session = payments[p].session
           /\ \A q \in Payments : q # p => payments'[q] = payments[q]
BY DEF TypeOK, PaymentRow

LEMMA SessionUpdate ==
    ASSUME TypeOK, NEW p \in Payments, NEW s,
           payments' = [payments EXCEPT ![p].session = s]
    PROVE  /\ payments'[p].session = s
           /\ payments'[p].order = payments[p].order
           /\ payments'[p].key = payments[p].key
           /\ payments'[p].status = payments[p].status
           /\ \A q \in Payments : q # p => payments'[q] = payments[q]
BY DEF TypeOK, PaymentRow

LEMMA StateUpdate ==
    ASSUME TypeOK, NEW s \in Sessions, NEW st,
           sessions' = [sessions EXCEPT ![s].state = st]
    PROVE  /\ sessions'[s].state = st
           /\ sessions'[s].payment = sessions[s].payment
           /\ \A t \in Sessions : t # s => sessions'[t] = sessions[t]
BY DEF TypeOK, SessionRow

LEMMA MoveUpdate ==
    ASSUME TypeOK, NEW r \in Requests, NEW pc, NEW p, NEW s, Move(r, pc, p, s)
    PROVE  /\ requests'[r].pc = pc
           /\ requests'[r].payment = p
           /\ requests'[r].session = s
           /\ requests'[r].order = requests[r].order
           /\ \A q \in Requests : q # r => requests'[q] = requests[q]
BY DEF TypeOK, RequestRows, RequestRow, Move

LEMMA FinishUpdate ==
    ASSUME TypeOK, NEW r \in Requests, Finish(r)
    PROVE  /\ requests'[r].pc = "idle"
           /\ \A q \in Requests : q # r => requests'[q] = requests[q]
BY DEF TypeOK, RequestRows, Finish, Idle

\* The initial state is consistent: nothing exists.
LEMMA ConsistentInit == Init => Consistent
BY DEF Init, Consistent, RowsAreWhole, SessionsHaveAttempts, RequestsHaveAttempts,
       DisclosedIsStored, EventsAreTrue, RowsAgreeWithStripe, SucceededIsPaid, Chargeable,
       OneBlockingAttempt, Blocking, OrdersWaitForPayments, Idle

-----------------------------------------------------------------------------
(* A pending attempt becomes terminal, by an event or by a rejection.      *)

LEMMA Settling ==
    ASSUME TypeOK, Consistent, NEW p \in Payments, NEW st \in Terminal,
           payments[p].status = "pending",
           payments' = [payments EXCEPT ![p].status = st],
           UNCHANGED <<orders, sessions, disclosed>>,
           st = "succeeded" =>
             \E s \in Sessions : sessions[s].state = "paid" /\ sessions[s].payment = p,
           \A s \in Sessions : sessions[s].payment = p =>
             /\ sessions[s].state = "paid" => st = "succeeded"
             /\ sessions[s].state # "processing"
             /\ ~Chargeable(s)
    PROVE  /\ RowsAreWhole' /\ SessionsHaveAttempts' /\ DisclosedIsStored'
           /\ RowsAgreeWithStripe' /\ SucceededIsPaid'
           /\ OneBlockingAttempt' /\ OrdersWaitForPayments'
<1>1. /\ payments'[p].status = st
      /\ payments'[p].order = payments[p].order
      /\ payments'[p].key = payments[p].key
      /\ payments'[p].session = payments[p].session
      /\ \A q \in Payments : q # p => payments'[q] = payments[q]
  BY StatusUpdate
<1>2. st # "absent" /\ st # "pending"
  BY DEF Terminal
<1>3. RowsAreWhole'
  BY <1>1, <1>2 DEF Consistent, RowsAreWhole
<1>4. SessionsHaveAttempts'
  BY <1>1, <1>2, RowTypes DEF Consistent, SessionsHaveAttempts
<1>5. DisclosedIsStored'
  BY <1>1, RowTypes DEF Consistent, DisclosedIsStored, TypeOK
<1>6. RowsAgreeWithStripe'
  BY <1>1, <1>2, RowTypes DEF Consistent, RowsAgreeWithStripe, Chargeable, SessionsHaveAttempts
<1>7. SucceededIsPaid'
  BY <1>1 DEF Consistent, SucceededIsPaid
<1>8. OneBlockingAttempt'
  BY <1>1, <1>2 DEF Consistent, OneBlockingAttempt, Blocking
<1>9. OrdersWaitForPayments'
  BY <1>1, <1>2, RowTypes DEF Consistent, OrdersWaitForPayments, HasStatus, Attempts
<1>10. QED
  BY <1>3, <1>4, <1>5, <1>6, <1>7, <1>8, <1>9

-----------------------------------------------------------------------------
(* Steps that only move a request.                                         *)

LEMMA RequestStep ==
    ASSUME TypeOK, Consistent, NEW r \in Requests,
           UNCHANGED <<orders, payments, sessions, disclosed, emitted, receipts>>,
           \A q \in Requests : q # r => requests'[q] = requests[q],
           requests'[r].pc \in {"calling", "created", "rejected"} =>
             /\ payments[requests'[r].payment].status # "absent"
             /\ payments[requests'[r].payment].order = requests'[r].order,
           requests'[r].pc = "created" =>
             sessions[requests'[r].session].payment = requests'[r].payment
    PROVE  Consistent'
<1>1. RequestsHaveAttempts'
  BY DEF Consistent, RequestsHaveAttempts
<1>2. QED
  BY <1>1 DEF Consistent, RowsAreWhole, SessionsHaveAttempts, DisclosedIsStored, EventsAreTrue,
     RowsAgreeWithStripe, SucceededIsPaid, Chargeable, OneBlockingAttempt,
     OrdersWaitForPayments, HasStatus, Attempts

LEMMA ArriveStep ==
    ASSUME TypeOK, Consistent, NEW r \in Requests, NEW o \in Orders, NEW k \in Keys,
           Arrive(r, o, k)
    PROVE  Consistent'
<1>1. requests'[r].pc = "waiting"
  BY DEF Arrive, TypeOK, RequestRows, Idle
<1>2. \A q \in Requests : q # r => requests'[q] = requests[q]
  BY DEF Arrive, TypeOK, RequestRows
<1>3. QED
  BY <1>1, <1>2, RequestStep DEF Arrive

LEMMA EndStep ==
    ASSUME TypeOK, Consistent, NEW r \in Requests,
           Refuse(r) \/ Lose(r) \/ DiscardAnswer(r) \/ ReportRejection(r)
    PROVE  Consistent'
<1>1. Finish(r) /\ UNCHANGED <<orders, payments, sessions, disclosed, emitted, receipts>>
  BY DEF Refuse, Lose, DiscardAnswer, ReportRejection
<1>2. QED
  BY <1>1, FinishUpdate, RequestStep

LEMMA RetryStep ==
    ASSUME TypeOK, Consistent, NEW r \in Requests, NEW p \in Payments, Retry(r, p)
    PROVE  Consistent'
<1>1. /\ requests'[r].pc = "calling"
      /\ requests'[r].payment = p
      /\ requests'[r].order = requests[r].order
      /\ \A q \in Requests : q # r => requests'[q] = requests[q]
  BY MoveUpdate DEF Retry
<1>2. payments[p].status # "absent" /\ payments[p].order = requests[r].order
  BY DEF Retry, SameKey, Attempts
<1>3. QED
  BY <1>1, <1>2, RequestStep DEF Retry

LEMMA ProviderRejectsStep ==
    ASSUME TypeOK, Consistent, NEW r \in Requests, ProviderRejects(r)
    PROVE  Consistent'
<1>1. /\ requests'[r].pc = "rejected"
      /\ requests'[r].payment = requests[r].payment
      /\ requests'[r].order = requests[r].order
      /\ \A q \in Requests : q # r => requests'[q] = requests[q]
  BY MoveUpdate DEF ProviderRejects
<1>2. /\ payments[requests[r].payment].status # "absent"
      /\ payments[requests[r].payment].order = requests[r].order
  BY DEF ProviderRejects, Consistent, RequestsHaveAttempts
<1>3. QED
  BY <1>1, <1>2, RequestStep DEF ProviderRejects

LEMMA ProviderReplaysStep ==
    ASSUME TypeOK, Consistent, NEW r \in Requests, NEW s \in Sessions, ProviderReplays(r, s)
    PROVE  Consistent'
<1>1. /\ requests'[r].pc = "created"
      /\ requests'[r].payment = requests[r].payment
      /\ requests'[r].session = s
      /\ requests'[r].order = requests[r].order
      /\ \A q \in Requests : q # r => requests'[q] = requests[q]
  BY MoveUpdate DEF ProviderReplays
<1>2. /\ payments[requests[r].payment].status # "absent"
      /\ payments[requests[r].payment].order = requests[r].order
  BY DEF ProviderReplays, Consistent, RequestsHaveAttempts
<1>3. sessions[s].payment = requests[r].payment
  BY DEF ProviderReplays, Remembered
<1>4. QED
  BY <1>1, <1>2, <1>3, RequestStep DEF ProviderReplays

-----------------------------------------------------------------------------
(* Steps that return a stored URL.                                         *)

LEMMA DiscloseStep ==
    ASSUME TypeOK, Consistent, NEW r \in Requests, NEW p \in Payments,
           payments[p].status = "pending", payments[p].session # None,
           disclosed' = disclosed \cup {payments[p].session},
           Finish(r), UNCHANGED <<orders, payments, sessions, emitted, receipts>>
    PROVE  Consistent'
<1> DEFINE s == payments[p].session
<1>1. s \in Sessions /\ sessions[s].payment = p
  BY RowTypes DEF Consistent, SessionsHaveAttempts
<1>2. p # None
  BY DistinctConstants
<1>3. RequestsHaveAttempts'
  BY FinishUpdate DEF Consistent, RequestsHaveAttempts
<1>4. DisclosedIsStored'
  BY <1>1, <1>2 DEF Consistent, DisclosedIsStored
<1>5. RowsAgreeWithStripe'
  BY <1>1 DEF Consistent, RowsAgreeWithStripe, Chargeable
<1>6. QED
  BY <1>3, <1>4, <1>5 DEF Consistent, RowsAreWhole, SessionsHaveAttempts, EventsAreTrue,
     SucceededIsPaid, OneBlockingAttempt, OrdersWaitForPayments, HasStatus, Attempts

LEMMA ReplayStep ==
    ASSUME TypeOK, Consistent, NEW r \in Requests, NEW p \in Payments, Replay(r, p)
    PROVE  Consistent'
BY DiscloseStep DEF Replay

LEMMA ReturnStoredStep ==
    ASSUME TypeOK, Consistent, NEW r \in Requests, ReturnStored(r)
    PROVE  Consistent'
<1>1. requests[r].payment \in Payments
  BY DEF ReturnStored, TypeOK, RequestRows
<1>2. QED
  BY <1>1, DiscloseStep DEF ReturnStored

-----------------------------------------------------------------------------
(* Steps that insert an attempt, create a session or store one.            *)

LEMMA CreateAttemptStep ==
    ASSUME TypeOK, Consistent, NEW r \in Requests, NEW p \in Payments, CreateAttempt(r, p)
    PROVE  Consistent'
<1> DEFINE o == requests[r].order
<1>1. o \in Orders /\ requests[r].key \in Keys /\ orders[o].status = "created"
  BY DEF CreateAttempt, Payable, TypeOK, RequestRows
<1>2. /\ payments'[p] = [status |-> "pending", order |-> o, key |-> requests[r].key, session |-> None]
      /\ \A q \in Payments : q # p => payments'[q] = payments[q]
  BY DEF CreateAttempt, TypeOK
<1>3. /\ payments[p].status = "absent" /\ payments[p].order = None /\ payments[p].session = None
      /\ payments'[p].status = "pending" /\ payments'[p].order = o
      /\ payments'[p].session = None /\ payments'[p].key = requests[r].key
  BY <1>2 DEF CreateAttempt, Consistent, RowsAreWhole
<1>4. \A s \in Sessions : sessions[s].payment # p
  BY <1>3, DistinctConstants DEF Consistent, SessionsHaveAttempts
<1>5. \A q \in Payments : payments[q].order = o => payments[q].status \notin Blocking
  <2> SUFFICES ASSUME NEW q \in Payments, payments[q].order = o, payments[q].status \in Blocking
               PROVE  FALSE
    OBVIOUS
  <2>1. q \in Attempts(o)
    BY DEF Attempts, Blocking
  <2>2. QED
    BY <2>1 DEF CreateAttempt, Payable, HasStatus, Blocking
<1>6. RowsAreWhole'
  BY <1>1, <1>2, <1>3, DistinctConstants DEF Consistent, RowsAreWhole
<1>7. SessionsHaveAttempts'
  BY <1>2, <1>3, <1>4, RowTypes DEF CreateAttempt, Consistent, SessionsHaveAttempts
<1>8. RequestsHaveAttempts'
  <2>1. /\ requests'[r].pc = "calling"
        /\ requests'[r].payment = p
        /\ requests'[r].order = o
        /\ \A q \in Requests : q # r => requests'[q] = requests[q]
    BY MoveUpdate DEF CreateAttempt
  <2>2. \A q \in Requests : requests[q].pc \in {"calling", "created", "rejected"} =>
           requests[q].payment \in Payments
    BY DEF TypeOK, RequestRows
  <2>3. QED
    BY <1>2, <1>3, <2>1, <2>2 DEF CreateAttempt, Consistent, RequestsHaveAttempts
<1>9. DisclosedIsStored'
  BY <1>2, <1>4, RowTypes DEF CreateAttempt, Consistent, DisclosedIsStored, TypeOK
<1>10. EventsAreTrue'
  BY DEF CreateAttempt, Consistent, EventsAreTrue
<1>11. RowsAgreeWithStripe'
  BY <1>2, <1>4, RowTypes, DistinctConstants
  DEF CreateAttempt, Consistent, RowsAgreeWithStripe, Chargeable, SessionsHaveAttempts
<1>12. SucceededIsPaid'
  BY <1>2, <1>3 DEF CreateAttempt, Consistent, SucceededIsPaid
<1>13. OneBlockingAttempt'
  BY <1>2, <1>3, <1>5 DEF Consistent, OneBlockingAttempt
<1>14. OrdersWaitForPayments'
  BY <1>1, <1>2, <1>3 DEF CreateAttempt, Consistent, OrdersWaitForPayments, HasStatus, Attempts
<1>15. QED
  BY <1>6, <1>7, <1>8, <1>9, <1>10, <1>11, <1>12, <1>13, <1>14 DEF Consistent

LEMMA ProviderCreatesStep ==
    ASSUME TypeOK, Consistent, NEW r \in Requests, NEW s \in Sessions, ProviderCreates(r, s)
    PROVE  Consistent'
<1> DEFINE p == requests[r].payment
<1>1. /\ p \in Payments /\ p # None
      /\ payments[p].status # "absent" /\ payments[p].order = requests[r].order
  BY DistinctConstants DEF ProviderCreates, TypeOK, RequestRows, Consistent, RequestsHaveAttempts
<1>2. /\ sessions[s].state = "absent" /\ sessions[s].payment = None
      /\ sessions'[s] = [state |-> "open", payment |-> p]
      /\ sessions'[s].state = "open" /\ sessions'[s].payment = p
      /\ \A t \in Sessions : t # s => sessions'[t] = sessions[t]
  BY DEF ProviderCreates, TypeOK, Consistent, SessionsHaveAttempts
<1>3. /\ s \notin disclosed
      /\ \A q \in Payments : payments[q].session # s
  BY <1>2, DistinctConstants DEF Consistent, DisclosedIsStored, SessionsHaveAttempts
<1>4. SessionsHaveAttempts'
  BY <1>1, <1>2, <1>3, RowTypes DEF ProviderCreates, Consistent, SessionsHaveAttempts
<1>5. RequestsHaveAttempts'
  <2>1. /\ requests'[r].pc = "created"
        /\ requests'[r].payment = p
        /\ requests'[r].session = s
        /\ requests'[r].order = requests[r].order
        /\ \A q \in Requests : q # r => requests'[q] = requests[q]
    BY MoveUpdate DEF ProviderCreates
  <2>2. \A q \in Requests : requests[q].pc = "created" =>
           /\ requests[q].session \in Sessions /\ requests[q].payment \in Payments
    BY DEF TypeOK, RequestRows
  <2>3. \A q \in Requests : requests[q].pc = "created" => requests[q].session # s
    BY <1>2, <2>2, DistinctConstants DEF Consistent, RequestsHaveAttempts
  <2>4. QED
    BY <1>1, <1>2, <2>1, <2>2, <2>3 DEF ProviderCreates, Consistent, RequestsHaveAttempts
<1>6. DisclosedIsStored'
  BY <1>2, <1>3, RowTypes DEF ProviderCreates, Consistent, DisclosedIsStored, TypeOK
<1>7. EventsAreTrue'
  <2>1. \A e \in emitted : e.session \in Sessions /\ e.kind \in Kinds
    BY DEF TypeOK, Events
  <2>2. \A e \in emitted : e.session # s
    BY <1>2, <2>1 DEF Consistent, EventsAreTrue, StatesAfter, Kinds
  <2>3. QED
    BY <1>2, <2>1, <2>2 DEF ProviderCreates, Consistent, EventsAreTrue
<1>8. RowsAgreeWithStripe'
  BY <1>2, <1>3 DEF ProviderCreates, Consistent, RowsAgreeWithStripe, Chargeable
<1>9. SucceededIsPaid'
  BY <1>2 DEF ProviderCreates, Consistent, SucceededIsPaid
<1>10. QED
  BY <1>4, <1>5, <1>6, <1>7, <1>8, <1>9 DEF ProviderCreates, Consistent, RowsAreWhole,
     OneBlockingAttempt, OrdersWaitForPayments, HasStatus, Attempts

LEMMA PersistSuccessStep ==
    ASSUME TypeOK, Consistent, NEW r \in Requests, PersistSuccess(r)
    PROVE  Consistent'
<1> DEFINE p == requests[r].payment
           s == requests[r].session
<1>1. /\ p \in Payments /\ s \in Sessions /\ p # None /\ s # None
      /\ sessions[s].payment = p
      /\ payments[p].status \in Blocking
      /\ payments[p].session \in {None, s}
  BY DistinctConstants DEF PersistSuccess, Storable, TypeOK, RequestRows, Consistent,
     RequestsHaveAttempts
<1>2. /\ payments'[p].session = s
      /\ payments'[p].order = payments[p].order
      /\ payments'[p].key = payments[p].key
      /\ payments'[p].status = payments[p].status
      /\ \A q \in Payments : q # p => payments'[q] = payments[q]
  BY <1>1, SessionUpdate DEF PersistSuccess
<1>3. RowsAreWhole'
  BY <1>1, <1>2 DEF Consistent, RowsAreWhole, Blocking
<1>4. SessionsHaveAttempts'
  BY <1>1, <1>2, RowTypes DEF PersistSuccess, Consistent, SessionsHaveAttempts
<1>5. RequestsHaveAttempts'
  <2>1. /\ requests'[r].pc = "idle"
        /\ \A q \in Requests : q # r => requests'[q] = requests[q]
    BY FinishUpdate DEF PersistSuccess
  <2>2. \A q \in Requests : requests[q].pc \in {"calling", "created", "rejected"} =>
           requests[q].payment \in Payments
    BY DEF TypeOK, RequestRows
  <2>3. QED
    BY <1>2, <2>1, <2>2 DEF PersistSuccess, Consistent, RequestsHaveAttempts
<1>6. disclosed \subseteq disclosed' /\ disclosed' \subseteq disclosed \cup {s}
  BY DEF PersistSuccess
<1>7. DisclosedIsStored'
  BY <1>1, <1>2, <1>6, RowTypes, DistinctConstants
  DEF PersistSuccess, Consistent, DisclosedIsStored, TypeOK
<1>8. RowsAgreeWithStripe'
  BY <1>1, <1>2, RowTypes DEF PersistSuccess, Consistent, RowsAgreeWithStripe, Chargeable,
     SessionsHaveAttempts
<1>9. SucceededIsPaid'
  BY <1>1, <1>2 DEF PersistSuccess, Consistent, SucceededIsPaid
<1>10. OneBlockingAttempt'
  BY <1>1, <1>2 DEF Consistent, OneBlockingAttempt
<1>11. OrdersWaitForPayments'
  BY <1>1, <1>2 DEF PersistSuccess, Consistent, OrdersWaitForPayments, HasStatus, Attempts
<1>12. QED
  BY <1>3, <1>4, <1>5, <1>7, <1>8, <1>9, <1>10, <1>11 DEF PersistSuccess, Consistent, EventsAreTrue

LEMMA FailAttemptStep ==
    ASSUME TypeOK, Consistent, NEW r \in Requests, FailAttempt(r)
    PROVE  Consistent'
<1> DEFINE p == requests[r].payment
<1>1. p \in Payments /\ payments[p].status = "pending" /\ payments[p].session = None
  BY DEF FailAttempt, TypeOK, RequestRows
<1>2. \A s \in Sessions : sessions[s].payment = p =>
        sessions[s].state \notin {"processing", "paid"} /\ ~Chargeable(s)
  BY <1>1, DistinctConstants DEF Consistent, DisclosedIsStored, Chargeable
<1>3. /\ RowsAreWhole' /\ SessionsHaveAttempts' /\ DisclosedIsStored'
      /\ RowsAgreeWithStripe' /\ SucceededIsPaid'
      /\ OneBlockingAttempt' /\ OrdersWaitForPayments'
  <2> DEFINE st == "failed"
  <2>1. st \in Terminal /\ st # "succeeded"
    BY DEF Terminal
  <2>2. /\ payments' = [payments EXCEPT ![p].status = st]
        /\ UNCHANGED <<orders, sessions, disclosed>>
    BY DEF FailAttempt
  <2>3. \A s \in Sessions : sessions[s].payment = p =>
          /\ sessions[s].state = "paid" => st = "succeeded"
          /\ sessions[s].state # "processing"
          /\ ~Chargeable(s)
    BY <1>2
  <2> HIDE DEF p, st
  <2>4. QED
    BY <1>1, <2>1, <2>2, <2>3, Settling
<1>4. RequestsHaveAttempts'
  <2>1. /\ requests'[r].pc = "idle"
        /\ \A q \in Requests : q # r => requests'[q] = requests[q]
    BY FinishUpdate DEF FailAttempt
  <2>2. \A q \in Requests : requests[q].pc \in {"calling", "created", "rejected"} =>
           requests[q].payment \in Payments
    BY DEF TypeOK, RequestRows
  <2>3. /\ payments'[p].status = "failed"
        /\ payments'[p].order = payments[p].order
        /\ \A q \in Payments : q # p => payments'[q] = payments[q]
    BY <1>1, StatusUpdate DEF FailAttempt
  <2>4. QED
    BY <2>1, <2>2, <2>3 DEF FailAttempt, Consistent, RequestsHaveAttempts
<1>5. QED
  BY <1>3, <1>4 DEF FailAttempt, Consistent, EventsAreTrue

-----------------------------------------------------------------------------
(* Steps of Stripe and of the customer.                                    *)

LEMMA SessionMovesStep ==
    ASSUME TypeOK, Consistent, NEW s \in Sessions, NEW from, NEW to, NEW kind \in Kinds,
           SessionMoves(s, from, to, kind),
           \/ from = "open" /\ to \in {"paid", "processing"} /\ s \in disclosed
           \/ from = "processing" /\ to \in {"paid", "refused"}
           \/ from = "open" /\ to = "expired",
           to \in StatesAfter[kind]
    PROVE  Consistent'
<1>1. /\ sessions[s].state = from
      /\ sessions'[s].state = to
      /\ sessions'[s].payment = sessions[s].payment
      /\ \A t \in Sessions : t # s => sessions'[t] = sessions[t]
  BY StateUpdate DEF SessionMoves
<1>2. SessionsHaveAttempts'
  BY <1>1, RowTypes DEF SessionMoves, Consistent, SessionsHaveAttempts
<1>3. RequestsHaveAttempts'
  <2>1. \A q \in Requests : requests[q].pc = "created" => requests[q].session \in Sessions
    BY DEF TypeOK, RequestRows
  <2>2. QED
    BY <1>1, <2>1 DEF SessionMoves, Consistent, RequestsHaveAttempts
<1>4. DisclosedIsStored'
  BY <1>1, RowTypes DEF SessionMoves, Consistent, DisclosedIsStored, TypeOK
<1>5. EventsAreTrue'
  <2>1. \A e \in emitted : e.session \in Sessions /\ e.kind \in Kinds
    BY DEF TypeOK, Events
  <2>2. \A e \in emitted : e.session = s => to \in StatesAfter[e.kind]
    BY <1>1, <2>1 DEF Consistent, EventsAreTrue, StatesAfter, Kinds
  <2>3. \A e \in emitted : sessions'[e.session].state \in StatesAfter[e.kind]
    BY <1>1, <2>1, <2>2 DEF Consistent, EventsAreTrue
  <2>4. \A e \in emitted' : sessions'[e.session].state \in StatesAfter[e.kind]
    BY <1>1, <2>3 DEF SessionMoves
  <2>5. QED
    BY <2>4 DEF SessionMoves, Consistent, EventsAreTrue
<1>6. RowsAgreeWithStripe'
  BY <1>1 DEF SessionMoves, Consistent, RowsAgreeWithStripe, Chargeable
<1>7. SucceededIsPaid'
  BY <1>1 DEF SessionMoves, Consistent, SucceededIsPaid
<1>8. QED
  BY <1>2, <1>3, <1>4, <1>5, <1>6, <1>7 DEF SessionMoves, Consistent, RowsAreWhole,
     OneBlockingAttempt, OrdersWaitForPayments, HasStatus, Attempts

LEMMA SessionStepStep ==
    ASSUME TypeOK, Consistent, NEW s \in Sessions, SessionStep(s)
    PROVE  Consistent'
<1>1. /\ {"completed_paid", "completed_unpaid", "async_succeeded", "async_failed", "expired"} \subseteq Kinds
      /\ "paid" \in StatesAfter["completed_paid"] /\ "processing" \in StatesAfter["completed_unpaid"]
      /\ "paid" \in StatesAfter["async_succeeded"] /\ "refused" \in StatesAfter["async_failed"]
      /\ "expired" \in StatesAfter["expired"]
  BY DEF Kinds, StatesAfter
<1>2. CASE Pay(s)
  BY <1>1, <1>2, SessionMovesStep DEF Pay, Reachable
<1>3. CASE PayLater(s)
  BY <1>1, <1>3, SessionMovesStep DEF PayLater, Reachable
<1>4. CASE AsyncSucceeds(s)
  BY <1>1, <1>4, SessionMovesStep DEF AsyncSucceeds
<1>5. CASE AsyncFails(s)
  BY <1>1, <1>5, SessionMovesStep DEF AsyncFails
<1>6. CASE ExpireSession(s)
  BY <1>1, <1>6, SessionMovesStep DEF ExpireSession
<1>7. QED
  BY <1>2, <1>3, <1>4, <1>5, <1>6 DEF SessionStep

-----------------------------------------------------------------------------
(* Webhook events.                                                         *)

\* What an event that moves a payment says about Stripe.
LEMMA TransitionMeans ==
    ASSUME TypeOK, Consistent, NEW e \in Events, e \in emitted,
           TransitionDecision(e) = "transitioned"
    PROVE  LET p == EventPayment(e)
               st == Confirms[e.kind]
           IN  /\ p \in Payments
               /\ payments[p].status = "pending"
               /\ st \in Terminal
               /\ st = "succeeded" => sessions[e.session].state = "paid"
               /\ \A s \in Sessions : sessions[s].payment = p =>
                    /\ sessions[s].state = "paid" => st = "succeeded"
                    /\ sessions[s].state # "processing"
                    /\ ~Chargeable(s)
<1> DEFINE p == EventPayment(e)
           st == Confirms[e.kind]
<1>1. e.session \in Sessions /\ e.kind \in Kinds
  BY DEF Events
<1>2. sessions[e.session].state \in StatesAfter[e.kind]
  BY DEF Consistent, EventsAreTrue
<1>3. p \in Payments
  BY <1>1, <1>2, RowTypes
  DEF EventPayment, Consistent, SessionsHaveAttempts, StatesAfter, Kinds
<1>4. st # "pending" /\ payments[p].status = "pending" /\ payments[p].session \in {None, e.session}
  BY DEF TransitionDecision, IntegrityMatches
<1>5. /\ st \in Terminal
      /\ st = "succeeded" => sessions[e.session].state = "paid"
      /\ st # "succeeded" => sessions[e.session].state \in {"refused", "expired"}
  BY <1>1, <1>2, <1>4 DEF Confirms, Terminal, StatesAfter, Kinds
<1>6. sessions[e.session].state \in {"paid", "refused", "expired"}
  BY <1>5
<1>7. \A s \in Sessions : sessions[s].payment = p /\ s \in disclosed => s = e.session
  BY <1>1, <1>4, DistinctConstants DEF Consistent, DisclosedIsStored
<1>8. ASSUME NEW s \in Sessions, sessions[s].payment = p
      PROVE  /\ sessions[s].state = "paid" => st = "succeeded"
             /\ sessions[s].state # "processing"
             /\ ~Chargeable(s)
  <2>1. CASE s \in disclosed
    BY <1>5, <1>6, <1>7, <1>8, <2>1 DEF Chargeable
  <2>2. CASE s \notin disclosed
    BY <2>2 DEF Chargeable, Consistent, DisclosedIsStored
  <2>3. QED
    BY <2>1, <2>2
<1>9. QED
  BY <1>3, <1>4, <1>5, <1>8

LEMMA ProcessEventStep ==
    ASSUME TypeOK, Consistent, NEW e \in Events, ProcessEvent(e)
    PROVE  Consistent'
<1>1. EventsAreTrue'
  <2>1. \A f \in Events : receipts'[f] # "none" => f = e \/ receipts[f] # "none"
    BY DEF ProcessEvent, TypeOK
  <2>2. QED
    BY <2>1 DEF ProcessEvent, Consistent, EventsAreTrue
<1>2. CASE TransitionDecision(e) = "transitioned"
  <2> DEFINE p == EventPayment(e)
             st == Confirms[e.kind]
  <2>1. /\ p \in Payments
        /\ payments[p].status = "pending"
        /\ st \in Terminal
        /\ st = "succeeded" => sessions[e.session].state = "paid"
        /\ \A s \in Sessions : sessions[s].payment = p =>
             /\ sessions[s].state = "paid" => st = "succeeded"
             /\ sessions[s].state # "processing"
             /\ ~Chargeable(s)
    BY <1>2, TransitionMeans DEF ProcessEvent
  <2>2. /\ payments' = [payments EXCEPT ![p].status = st]
        /\ UNCHANGED <<orders, sessions, disclosed, requests>>
    BY <1>2 DEF ProcessEvent
  <2>3. st = "succeeded" =>
          \E s \in Sessions : sessions[s].state = "paid" /\ sessions[s].payment = p
    BY <2>1 DEF EventPayment, Events
  <2> HIDE DEF p, st
  <2>4. /\ RowsAreWhole' /\ SessionsHaveAttempts' /\ DisclosedIsStored'
        /\ RowsAgreeWithStripe' /\ SucceededIsPaid'
        /\ OneBlockingAttempt' /\ OrdersWaitForPayments'
    BY <2>1, <2>2, <2>3, Settling
  <2>5. RequestsHaveAttempts'
    <3>1. \A q \in Requests : requests[q].pc \in {"calling", "created", "rejected"} =>
             requests[q].payment \in Payments
      BY DEF TypeOK, RequestRows
    <3>2. /\ payments'[p].status = st /\ st # "absent"
          /\ payments'[p].order = payments[p].order
          /\ \A q \in Payments : q # p => payments'[q] = payments[q]
      BY <2>1, <2>2, StatusUpdate DEF Terminal
    <3>3. QED
      BY <2>2, <3>1, <3>2 DEF Consistent, RequestsHaveAttempts
  <2>6. QED
    BY <1>1, <2>4, <2>5 DEF Consistent
<1>3. CASE TransitionDecision(e) # "transitioned"
  <2>1. UNCHANGED <<orders, payments, sessions, disclosed, requests, emitted>>
    BY <1>3 DEF ProcessEvent
  <2>2. QED
    BY <1>1, <2>1 DEF Consistent, RowsAreWhole, SessionsHaveAttempts, RequestsHaveAttempts,
       DisclosedIsStored, RowsAgreeWithStripe, SucceededIsPaid, Chargeable, OneBlockingAttempt,
       OrdersWaitForPayments, HasStatus, Attempts
<1>4. QED
  BY <1>2, <1>3

LEMMA ProcessForeignEventStep ==
    ASSUME TypeOK, Consistent, NEW e \in Foreign, ProcessForeignEvent(e)
    PROVE  Consistent'
<1>1. \A f \in Events : receipts'[f] = receipts[f]
  BY ForeignDistinct DEF ProcessForeignEvent, TypeOK
<1>2. QED
  BY <1>1 DEF ProcessForeignEvent, Consistent, RowsAreWhole, SessionsHaveAttempts, EventsAreTrue,
     RequestsHaveAttempts, DisclosedIsStored, RowsAgreeWithStripe, SucceededIsPaid, Chargeable,
     OneBlockingAttempt, OrdersWaitForPayments, HasStatus, Attempts

-----------------------------------------------------------------------------
(* Orders and time.                                                        *)

LEMMA OrderStep ==
    ASSUME TypeOK, Consistent, NEW o \in Orders,
           CreateOrder(o) \/ \E target \in OrderStatus : TransitionOrderStatus(o, target)
    PROVE  Consistent'
<1>1. UNCHANGED <<payments, sessions, disclosed, requests, emitted, receipts>>
  BY DEF CreateOrder, TransitionOrderStatus
<1>2. \A q \in Orders : q # o => orders'[q] = orders[q]
  BY DEF CreateOrder, TransitionOrderStatus, TypeOK
<1>3. CASE CreateOrder(o)
  <2>1. orders[o].status = "absent" /\ orders'[o].status = "created"
    BY <1>3 DEF CreateOrder, TypeOK
  <2>2. OrdersWaitForPayments'
    <3>1. \A p \in Payments : payments[p].status \in Blocking => payments[p].order \in Orders
      BY RowTypes DEF Consistent, RowsAreWhole, Blocking
    <3>2. QED
      BY <1>1, <1>2, <2>1, <3>1 DEF Consistent, OrdersWaitForPayments, HasStatus, Attempts, Blocking
  <2>3. QED
    BY <1>1, <2>2 DEF Consistent, RowsAreWhole, SessionsHaveAttempts, EventsAreTrue,
       RequestsHaveAttempts, DisclosedIsStored, RowsAgreeWithStripe, SucceededIsPaid, Chargeable,
       OneBlockingAttempt
<1>4. ASSUME NEW target \in OrderStatus, TransitionOrderStatus(o, target) PROVE Consistent'
  <2>1. orders'[o].status = target
    BY <1>4 DEF TransitionOrderStatus, TypeOK
  <2>2. \A p \in Payments : payments[p].status \in Blocking => payments[p].order \in Orders
    BY RowTypes DEF Consistent, RowsAreWhole, Blocking
  <2>3. \A p \in Payments : payments[p].order = o /\ payments[p].status # "absent" => p \in Attempts(o)
    BY DEF Attempts
  \* Accepted because a payment succeeded, so none of the order is pending; cancelled
  \* because none is blocking; any later step starts from a status without pending ones.
  <2>4. \A p \in Payments : payments[p].order = o => payments[p].status # "pending"
    <3> SUFFICES ASSUME NEW p \in Payments, payments[p].order = o, payments[p].status = "pending"
                 PROVE  FALSE
      OBVIOUS
    <3>1. orders[o].status = "created"
      BY DEF Consistent, OrdersWaitForPayments
    <3>2. target \in {"accepted", "cancelled"}
      BY <1>4, <3>1 DEF TransitionOrderStatus, AllowedTransitions
    <3>3. CASE target = "accepted"
      <4>1. PICK q \in Attempts(o) : payments[q].status = "succeeded"
        BY <1>4, <3>3 DEF TransitionOrderStatus, HasStatus
      <4>2. p = q
        BY <4>1 DEF Consistent, OneBlockingAttempt, Blocking, Attempts
      <4>3. QED
        BY <4>1, <4>2
    <3>4. CASE target = "cancelled"
      BY <1>4, <2>3, <3>4 DEF TransitionOrderStatus, HasBlocking, Blocking
    <3>5. QED
      BY <3>2, <3>3, <3>4
  <2>5. \A p \in Payments : payments[p].order = o /\ payments[p].status = "succeeded" =>
           target \notin {"absent", "cancelled"}
    <3>1. target # "absent"
      BY DEF OrderStatus
    <3>2. QED
      BY <1>4, <2>3, <3>1 DEF TransitionOrderStatus, HasBlocking, Blocking
  <2>6. target \in {"accepted", "preparing", "ready", "completed"} => HasStatus(o, "succeeded")
    BY <1>4 DEF TransitionOrderStatus, AllowedTransitions, Consistent, OrdersWaitForPayments
  <2>7. OrdersWaitForPayments'
    BY <1>1, <1>2, <2>1, <2>2, <2>4, <2>5, <2>6
    DEF Consistent, OrdersWaitForPayments, HasStatus, Attempts, Blocking
  <2>8. QED
    BY <1>1, <2>7 DEF Consistent, RowsAreWhole, SessionsHaveAttempts, EventsAreTrue,
       RequestsHaveAttempts, DisclosedIsStored, RowsAgreeWithStripe, SucceededIsPaid, Chargeable,
       OneBlockingAttempt
<1>5. QED
  BY <1>3, <1>4

LEMMA SilentStep ==
    ASSUME Consistent, UNCHANGED <<orders, payments, sessions, disclosed, requests, emitted, receipts>>
    PROVE  Consistent'
BY DEF Consistent, RowsAreWhole, SessionsHaveAttempts, EventsAreTrue, RequestsHaveAttempts,
   DisclosedIsStored, RowsAgreeWithStripe, SucceededIsPaid, Chargeable, OneBlockingAttempt,
   OrdersWaitForPayments, HasStatus, Attempts

LEMMA ConsistentStep == TypeOK /\ Consistent /\ [Next]_vars => Consistent'
<1> SUFFICES ASSUME TypeOK, Consistent, [Next]_vars PROVE Consistent'
  OBVIOUS
<1>1. ASSUME NEW r \in Requests, Proceed(r) PROVE Consistent'
  BY <1>1, ReplayStep, RetryStep, CreateAttemptStep, ProviderReplaysStep, ProviderCreatesStep,
     ProviderRejectsStep, EndStep, PersistSuccessStep, FailAttemptStep, ReturnStoredStep
  DEF Proceed
<1>2. CASE Tick \/ UNCHANGED vars
  BY <1>2, SilentStep DEF Tick, vars
<1>3. QED
  BY <1>1, <1>2, ArriveStep, SessionStepStep, ProcessEventStep, ProcessForeignEventStep, OrderStep
  DEF Next

THEOREM ConsistentAlways == Spec => [](TypeOK /\ Consistent)
<1>1. Init => TypeOK /\ Consistent
  BY TypeInit, ConsistentInit
<1>2. TypeOK /\ Consistent /\ [Next]_vars => (TypeOK /\ Consistent)'
  BY TypeStep, ConsistentStep
<1>3. QED
  BY <1>1, <1>2, PTL DEF Spec

-----------------------------------------------------------------------------
(* What Consistent implies.                                                *)

\* However many requests, retries and events race, an order never has two attempts that
\* block it: the row lock and the checks under it suffice without the unique indexes.
THEOREM OneBlockingAttemptAlways == Spec => []OneBlockingAttempt
<1>1. TypeOK /\ Consistent => OneBlockingAttempt
  BY DEF Consistent
<1>2. QED
  BY <1>1, ConsistentAlways, PTL

\* The attempt behind a session that is charged or chargeable, and the only session of it
\* that a customer can have reached.
LEMMA ChargedAttempt ==
    ASSUME TypeOK, Consistent, NEW s \in Sessions, Charged(s) \/ Chargeable(s)
    PROVE  /\ sessions[s].payment \in Payments
           /\ payments[sessions[s].payment].status \in Blocking
           /\ payments[sessions[s].payment].session = s
<1>1. s \in disclosed
  BY DEF Charged, Chargeable, Consistent, DisclosedIsStored
<1>2. sessions[s].payment \in Payments
  BY <1>1, RowTypes DEF Consistent, DisclosedIsStored
<1>3. QED
  BY <1>1, <1>2 DEF Charged, Consistent, DisclosedIsStored, RowsAgreeWithStripe, Blocking

\* At most one Checkout Session of an order takes a customer's money, whatever Stripe
\* forgets and whatever is retried, lost, delivered late or delivered twice.
THEOREM NoDoubleChargeAlways == Spec => []NoDoubleCharge
<1>1. TypeOK /\ Consistent => NoDoubleCharge
  <2> SUFFICES ASSUME TypeOK, Consistent, NEW s \in Sessions, NEW t \in Sessions,
                      Charged(s), Charged(t) \/ Chargeable(t), OrderOf(s) = OrderOf(t)
               PROVE  s = t
    BY DEF NoDoubleCharge
  <2>1. sessions[s].payment = sessions[t].payment
    BY ChargedAttempt DEF OrderOf, Consistent, OneBlockingAttempt
  <2>2. QED
    BY <2>1, ChargedAttempt
<1>2. QED
  BY <1>1, ConsistentAlways, PTL

\* A cancelled order was not charged and no customer holds a payable session of it.
THEOREM CancelledIsNeverChargedAlways == Spec => []CancelledIsNeverCharged
<1>1. TypeOK /\ Consistent => CancelledIsNeverCharged
  <2> SUFFICES ASSUME TypeOK, Consistent, NEW s \in Sessions, Charged(s) \/ Chargeable(s)
               PROVE  orders[OrderOf(s)].status # "cancelled"
    BY DEF CancelledIsNeverCharged
  <2>1. QED
    BY ChargedAttempt DEF OrderOf, Consistent, OrdersWaitForPayments, Blocking
<1>2. QED
  BY <1>1, ConsistentAlways, PTL

\* An order the kitchen accepted was paid at Stripe.
THEOREM FulfilledIsPaidAlways == Spec => []FulfilledIsPaid
<1>1. TypeOK /\ Consistent => FulfilledIsPaid
  <2> SUFFICES ASSUME TypeOK, Consistent, NEW o \in Orders,
                      orders[o].status \in {"accepted", "preparing", "ready", "completed"}
               PROVE  \E s \in Sessions : sessions[s].state = "paid" /\ OrderOf(s) = o
    BY DEF FulfilledIsPaid
  <2>1. PICK p \in Attempts(o) : payments[p].status = "succeeded"
    BY DEF Consistent, OrdersWaitForPayments, HasStatus
  <2>2. PICK s \in Sessions : sessions[s].state = "paid" /\ sessions[s].payment = p
    BY <2>1 DEF Consistent, SucceededIsPaid, Attempts
  <2>3. QED
    BY <2>1, <2>2 DEF OrderOf, Attempts
<1>2. QED
  BY <1>1, ConsistentAlways, PTL

\* A terminal payment row tells the truth about Stripe.
THEOREM TerminalMatchesProviderAlways == Spec => []TerminalMatchesProvider
<1>1. TypeOK /\ Consistent => TerminalMatchesProvider
  <2> SUFFICES ASSUME TypeOK, Consistent PROVE TerminalMatchesProvider
    OBVIOUS
  <2>1. \A s \in Sessions : Charged(s) \/ Chargeable(s)
          => payments[sessions[s].payment].status \in Blocking
    BY ChargedAttempt
  <2>2. QED
    BY <2>1 DEF TerminalMatchesProvider, Consistent, SucceededIsPaid
<1>2. QED
  BY <1>1, ConsistentAlways, PTL
=============================================================================
