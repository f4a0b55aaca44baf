-------------------------- MODULE AdminOrderDetail --------------------------
(***************************************************************************)
(* The administrator's page of one order: its details, the confirmation of *)
(* one status action and the gate that keeps further actions until the     *)
(* order has been read again, against the order and its payment attempts,  *)
(* which other administrators, the customer and the provider move.         *)
(***************************************************************************)
EXTENDS AdminApi, OrderGraph, Integers

CONSTANTS
    Handlers,    \* bound: status actions the page may have asked for, one handler each
    MaxPayments  \* bound: payment attempts of the order

ASSUME OrderBounds == MaxPayments \in Nat

VARIABLES
    order,    \* the order of the service: its status and its payment attempts
    detail,   \* the page
    reading,  \* the detail request in progress (activeDetailControllerRef)
    doubts,   \* detail requests answered 403 whose session check is not back yet
    patches   \* the handlers of confirmed actions (confirmMutation)

orderVars == <<order, detail, reading, doubts, patches>>

-----------------------------------------------------------------------------
PaymentStatuses == {"pending", "succeeded", "failed", "expired"}
Targets == OrderStatus \ {"created"}

NoOrder == [known |-> FALSE, status |-> "created", payments |-> {}]
NoReading == [pc |-> "none", reason |-> "initial", gated |-> FALSE, view |-> NoOrder]
NoPatch == [pc |-> "idle", from |-> "created", target |-> "accepted", done |-> FALSE]

\* Mutant: an order may be cancelled beside a pending attempt.
ActionsBesidePending(view) ==
    IF view.status # "created" THEN {t \in Targets : <<view.status, t>> \in AllowedTransitions}
    ELSE IF "succeeded" \in view.payments THEN {"accepted"} ELSE {"cancelled"}

\* getActionAvailability: an unpaid order may only be cancelled, a paid one only be
\* accepted, and neither while an attempt is pending.
Actions(view) ==
    IF view.status # "created" THEN {t \in Targets : <<view.status, t>> \in AllowedTransitions}
    ELSE IF "succeeded" \in view.payments THEN {"accepted"}
    ELSE IF "pending" \in view.payments THEN {}
    ELSE {"cancelled"}

\* Mutant: only the payment attempts are looked at.
AcceptsFromAnywhere(target) ==
    /\ order.status # target
    /\ target = "accepted" => "succeeded" \in order.payments
    /\ target = "cancelled" => order.payments \cap {"pending", "succeeded"} = {}

\* transition_order_status, under the locks of the order and its payment attempts.
Accepts(target) ==
    /\ <<order.status, target>> \in AllowedTransitions
    /\ target = "accepted" => "succeeded" \in order.payments
    /\ target = "cancelled" => order.payments \cap {"pending", "succeeded"} = {}

-----------------------------------------------------------------------------
(* What the page offers.  "busy" is mutationInFlight, which each handler    *)
(* sets when it starts and clears when its request ends and once more when  *)
(* the handler itself ends.                                                 *)

Choices == IF ~detail.on \/ ~detail.view.known \/ detail.busy \/ detail.gate \/ detail.loading THEN {}
           ELSE Actions(detail.view)

\* Refresh, and Retry after a first load that failed.
CanRead == detail.on /\ ~detail.busy /\ ~detail.loading

CanConfirmAction ==
    detail.on /\ detail.view.known /\ detail.pending # "none" /\ ~detail.busy /\ ~detail.gate /\ reading.pc = "none"

-----------------------------------------------------------------------------
NewDetail == [on |-> TRUE, phase |-> "loading", view |-> NoOrder, loading |-> TRUE, pending |-> "none",
              notice |-> "none", gate |-> FALSE, busy |-> FALSE]
FirstReading == [NoReading EXCEPT !.pc = "asked"]

OrderInit ==
    /\ order = [status |-> "created", payments |-> {}, attempts |-> 0]
    /\ detail = NewDetail
    /\ reading = FirstReading
    /\ doubts = {}
    /\ patches = [h \in Handlers |-> NoPatch]

\* Unmounting aborts both requests; a status change that was sent may still be made.
OrderOff ==
    /\ detail' = [NewDetail EXCEPT !.on = FALSE]
    /\ reading' = NoReading
    /\ doubts' = {}
    /\ patches' = [h \in Handlers |-> [patches[h] EXCEPT !.pc =
                       IF @ = "idle" THEN @
                       ELSE IF @ \in {"asked", "left"} /\ ~patches[h].done THEN "left" ELSE "over"]]

OrderLeave == detail.on /\ OrderOff /\ UNCHANGED order

OrderVisit ==
    /\ ~detail.on
    /\ detail' = NewDetail
    /\ reading' = FirstReading
    /\ UNCHANGED <<order, doubts, patches>>

-----------------------------------------------------------------------------
(* loadOrder.                                                              *)

Reading(p, notice) ==
    [p EXCEPT !.loading = TRUE, !.pending = "none", !.notice = notice,
              !.phase = IF p.view.known THEN @ ELSE "loading"]

\* A new request supersedes the one in progress, and those still in doubt.
NewReading(reason, gated) ==
    /\ reading' = [NoReading EXCEPT !.pc = "asked", !.reason = reason, !.gated = gated]
    /\ doubts' = {[d EXCEPT !.current = FALSE] : d \in doubts}

ReadOrder ==
    /\ CanRead
    /\ detail' = Reading(detail, "none")
    /\ NewReading("manual", detail.gate)
    /\ UNCHANGED <<order, patches>>

\* get_admin_order reads the order and then its payment attempts.
ReadStatus ==
    /\ reading.pc = "asked"
    /\ reading' = [reading EXCEPT !.pc = "half", !.view = [NoOrder EXCEPT !.known = TRUE, !.status = order.status]]
    /\ UNCHANGED <<order, detail, doubts, patches>>

ReadPayments ==
    /\ reading.pc = "half"
    /\ reading' = [reading EXCEPT !.pc = "read", !.view.payments = order.payments]
    /\ UNCHANGED <<order, detail, doubts, patches>>

OrderArrives ==
    /\ reading.pc = "read"
    /\ detail' = [detail EXCEPT !.view = reading.view, !.phase = "ready", !.gate = FALSE, !.pending = "none",
                                !.loading = FALSE,
                                !.notice = CASE reading.reason = "post-mutation" -> "updated"
                                             [] reading.reason = "conflict" -> "changed"
                                             [] OTHER -> "none"]
    /\ reading' = NoReading
    /\ UNCHANGED <<order, doubts, patches>>

\* A failure leaves the order shown, if any, and the gate closed where it was wanted.
ReadingFailed(reason, gated, ends) ==
    detail' = [detail EXCEPT
        !.phase = IF detail.view.known THEN "ready" ELSE "error",
        !.gate = @ \/ gated \/ reason \in {"post-mutation", "conflict"},
        !.loading = @ /\ ~ends,
        !.notice = CASE reason = "post-mutation" -> "accepted"
                     [] reason = "conflict" -> "changed"
                     [] gated -> "unread"
                     [] OTHER -> @]

NotFound(p) == [p EXCEPT !.view = NoOrder, !.phase = "not-found", !.pending = "none", !.gate = TRUE]

OrderFails ==
    /\ reading.pc \in {"asked", "half", "read"}
    /\ \E o \in Failures :
        CASE o = "401" -> OrderOff
          [] o = "403" -> /\ doubts' = doubts \cup {[reason |-> reading.reason, gated |-> reading.gated, current |-> TRUE]}
                          /\ reading' = NoReading
                          /\ UNCHANGED <<detail, patches>>
          [] o = "404" -> /\ detail' = [NotFound(detail) EXCEPT !.loading = FALSE]
                          /\ reading' = NoReading
                          /\ UNCHANGED <<doubts, patches>>
          [] OTHER -> /\ ReadingFailed(reading.reason, reading.gated, TRUE)
                      /\ reading' = NoReading
                      /\ UNCHANGED <<doubts, patches>>
    /\ UNCHANGED order

\* The session check after a 403: the page goes, or the request has failed.
OrderDoubtEnds ==
    \E d \in doubts :
        /\ \/ OrderOff
           \/ /\ ReadingFailed(d.reason, d.gated, d.current)
              /\ doubts' = doubts \ {d}
              /\ UNCHANGED <<reading, patches>>
        /\ UNCHANGED order

-----------------------------------------------------------------------------
(* handleActionSelection, closeConfirmation, confirmMutation.              *)

SelectAction ==
    \E target \in Choices :
        /\ reading.pc = "none"
        /\ detail' = [detail EXCEPT !.pending = target, !.notice = "none"]
        /\ UNCHANGED <<order, reading, doubts, patches>>

CloseConfirmation ==
    /\ detail.on /\ detail.pending # "none" /\ ~detail.busy
    /\ detail' = [detail EXCEPT !.pending = "none"]
    /\ UNCHANGED <<order, reading, doubts, patches>>

ConfirmMutation ==
    \E h \in Handlers :
        /\ patches[h].pc = "idle"
        /\ CanConfirmAction
        /\ patches' = [patches EXCEPT ![h] = [NoPatch EXCEPT !.pc = "asked", !.from = detail.view.status,
                                                             !.target = detail.pending]]
        /\ detail' = [detail EXCEPT !.busy = TRUE, !.notice = "none"]
        /\ UNCHANGED <<order, reading, doubts>>

ServePatch ==
    \E h \in Handlers :
        /\ patches[h].pc \in {"asked", "left"} /\ ~patches[h].done
        /\ Accepts(patches[h].target)
        /\ order' = [order EXCEPT !.status = patches[h].target]
        /\ patches' = [patches EXCEPT ![h].done = TRUE]
        /\ UNCHANGED <<detail, reading, doubts>>

\* The request is over; the gate closes and, in the same handler, the order is read.
Followed(h, reason, notice) ==
    /\ detail' = Reading([detail EXCEPT !.busy = FALSE, !.gate = TRUE], notice)
    /\ NewReading(reason, TRUE)
    /\ patches' = [patches EXCEPT ![h].pc = "over"]

PatchArrives ==
    \E h \in Handlers :
        /\ patches[h].pc = "asked" /\ patches[h].done
        /\ Followed(h, "post-mutation", "accepted")
        /\ UNCHANGED order

Unsure(p) == [p EXCEPT !.pending = "none", !.gate = TRUE, !.notice = "uncertain"]

\* After a 403 the handler waits for the session check with its request over: nothing is
\* in flight, and the confirmation is still there.
PatchFails ==
    \E h \in Handlers :
        /\ patches[h].pc = "asked"
        /\ \E o \in Failures :
            /\ patches[h].done => Ambiguous(o)
            /\ CASE o = "401" -> OrderOff
                 [] o = "403" -> /\ detail' = [detail EXCEPT !.busy = FALSE]
                                 /\ patches' = [patches EXCEPT ![h].pc = "judged"]
                                 /\ UNCHANGED <<reading, doubts>>
                 [] o = "404" -> /\ detail' = [NotFound(detail) EXCEPT !.busy = FALSE]
                                 /\ patches' = [patches EXCEPT ![h].pc = "over"]
                                 /\ UNCHANGED <<reading, doubts>>
                 [] o = "409" -> Followed(h, "conflict", "changed")
                 [] o = "422" -> /\ detail' = [detail EXCEPT !.busy = FALSE, !.pending = "none", !.notice = "refused"]
                                 /\ patches' = [patches EXCEPT ![h].pc = "over"]
                                 /\ UNCHANGED <<reading, doubts>>
                 [] OTHER -> /\ detail' = [Unsure(detail) EXCEPT !.busy = FALSE]
                             /\ patches' = [patches EXCEPT ![h].pc = IF @ = "asked" /\ ~patches[h].done THEN "left" ELSE "over"]
                             /\ UNCHANGED <<reading, doubts>>
        /\ UNCHANGED order

\* The handler ends: the gate closes, and its "finally" clears mutationInFlight once more,
\* whoever has set it since.
PatchDoubtEnds ==
    \E h \in Handlers :
        /\ patches[h].pc = "judged"
        /\ \/ OrderOff
           \/ /\ detail' = [Unsure(detail) EXCEPT !.busy = FALSE]
              /\ patches' = [patches EXCEPT ![h].pc = "over"]
              /\ UNCHANGED <<reading, doubts>>
        /\ UNCHANGED order

-----------------------------------------------------------------------------
(* The rest of the system.                                                 *)

\* An attempt begins on an order that is still payable, and ends.
PaymentMoves ==
    /\ \/ /\ order.status = "created" /\ order.payments \cap {"pending", "succeeded"} = {}
          /\ order.attempts < MaxPayments
          /\ order' = [order EXCEPT !.payments = @ \cup {"pending"}, !.attempts = @ + 1]
       \/ /\ "pending" \in order.payments
          /\ \E s \in PaymentStatuses \ {"pending"} : order' = [order EXCEPT !.payments = (@ \ {"pending"}) \cup {s}]
    /\ UNCHANGED <<detail, reading, doubts, patches>>

MovedElsewhere ==
    /\ \E target \in Targets : Accepts(target) /\ order' = [order EXCEPT !.status = target]
    /\ UNCHANGED <<detail, reading, doubts, patches>>

OrderNext ==
    \/ OrderLeave \/ OrderVisit \/ ReadOrder \/ ReadStatus \/ ReadPayments \/ OrderArrives \/ OrderFails
    \/ OrderDoubtEnds \/ SelectAction \/ CloseConfirmation \/ ConfirmMutation \/ ServePatch
    \/ PatchArrives \/ PatchFails \/ PatchDoubtEnds \/ PaymentMoves \/ MovedElsewhere

OrderSpec == OrderInit /\ [][OrderNext]_orderVars

-----------------------------------------------------------------------------
Views == [known : BOOLEAN, status : OrderStatus, payments : SUBSET PaymentStatuses]
Reasons == {"initial", "manual", "post-mutation", "conflict"}

\* Besides the types: the page waits for details exactly while a request is in progress or
\* in doubt.
OrderPageTypeOK ==
    /\ order \in [status : OrderStatus, payments : SUBSET PaymentStatuses, attempts : 0..MaxPayments]
    /\ detail \in [on : BOOLEAN, phase : {"loading", "ready", "error", "not-found"}, view : Views, loading : BOOLEAN,
                   pending : Targets \cup {"none"}, gate : BOOLEAN, busy : BOOLEAN,
                   notice : {"none", "updated", "accepted", "changed", "unread", "uncertain", "refused"}]
    /\ reading \in [pc : {"none", "asked", "half", "read"}, reason : Reasons, gated : BOOLEAN, view : Views]
    /\ doubts \subseteq [reason : Reasons, gated : BOOLEAN, current : BOOLEAN]
    /\ patches \in [Handlers -> [pc : {"idle", "asked", "judged", "left", "over"}, from : OrderStatus,
                                 target : Targets, done : BOOLEAN]]
    /\ detail.on => (detail.loading <=> reading.pc # "none" \/ \E d \in doubts : d.current)

\* Every action the page offers on an order that has not changed since is one the service
\* accepts (getActionAvailability against transition_order_status).
OffersOnlyWhatIsAccepted ==
    detail.view.known /\ detail.view.status = order.status /\ detail.view.payments = order.payments
    => \A target \in Actions(detail.view) : Accepts(target)

\* A status change made for this page starts from the status that was on display when the
\* administrator confirmed it, however much happened to the order in between.
StatusChangesAsConfirmed ==
    [][\A h \in Handlers : patches'[h].done /\ ~patches[h].done
       => order.status = patches[h].from /\ order'.status = patches[h].target]_orderVars
=============================================================================
