---------------------------- MODULE ConsoleProofs ----------------------------
(***************************************************************************)
(* Proofs about the pages behind the sign-in, for every number of rows,    *)
(* accounts, payments and loads: what they show is so, and what they ask   *)
(* the service to change is what was confirmed.                            *)
(***************************************************************************)
EXTENDS MCConsole, TLAPS, SequenceTheorems

-----------------------------------------------------------------------------
(* The administrator's page of one order.                                  *)

\* One detail request at most is awaited, itself or the session check after its 403; and a
\* page that is gone awaits nothing.
OneIsAwaited ==
    /\ reading.pc # "none" => \A d \in doubts : ~d.current
    /\ \A d, e \in doubts : d.current /\ e.current => d = e
    /\ ~detail.on => /\ reading.pc = "none" /\ doubts = {}
                     /\ \A h \in Handlers : patches[h].pc \notin {"asked", "judged"}

\* What is to be confirmed, and what was, is an edge of the graph from the status shown.
AlongTheGraph ==
    /\ detail.pending # "none" => <<detail.view.status, detail.pending>> \in AllowedTransitions
    /\ \A h \in Handlers : <<patches[h].from, patches[h].target>> \in AllowedTransitions

OrderPageInv == OrderPageTypeOK /\ OneIsAwaited /\ AlongTheGraph

Details == [on : BOOLEAN, phase : {"loading", "ready", "error", "not-found"}, view : Views, loading : BOOLEAN,
            pending : Targets \cup {"none"}, gate : BOOLEAN, busy : BOOLEAN,
            notice : {"none", "updated", "accepted", "changed", "unread", "uncertain", "refused"}]
Readings == [pc : {"none", "asked", "half", "read"}, reason : Reasons, gated : BOOLEAN, view : Views]
Doubts == [reason : Reasons, gated : BOOLEAN, current : BOOLEAN]
Patches == [pc : {"idle", "asked", "judged", "left", "over"}, from : OrderStatus, target : Targets, done : BOOLEAN]
OrderRows == [status : OrderStatus, payments : SUBSET PaymentStatuses, attempts : 0..MaxPayments]

LEMMA NothingYet == /\ NoOrder \in Views /\ NoReading \in Readings /\ NoReading.pc = "none" /\ NoPatch \in Patches
                    /\ NewDetail \in Details /\ NewDetail.on /\ NewDetail.loading /\ NewDetail.pending = "none"
                    /\ FirstReading \in Readings /\ FirstReading.pc = "asked" /\ ~NoPatch.done
                    /\ <<NoPatch.from, NoPatch.target>> \in AllowedTransitions
BY DEF AllowedTransitions, NoOrder, Views, OrderStatus, NoReading, Readings, Reasons, NoPatch, Patches, Targets,
       NewDetail, Details, FirstReading

LEMMA OrderStarts == OrderInit => OrderPageInv
<1>. SUFFICES ASSUME OrderInit PROVE OrderPageInv
  OBVIOUS
<1>1. order \in OrderRows
  BY OrderBounds DEF OrderInit, OrderRows, OrderStatus
<1>2. \A h \in Handlers : patches[h] = NoPatch /\ patches[h].pc = "idle"
  BY DEF OrderInit, NoPatch
<1>3. OrderPageTypeOK
  BY <1>1, NothingYet DEF OrderInit, OrderPageTypeOK, OrderRows, Details, Readings, Patches
<1>. QED BY <1>2, <1>3, NothingYet DEF OrderInit, OrderPageInv, OneIsAwaited, AlongTheGraph

\* Every action offered is an edge of the graph; an edge is known by its end.
LEMMA EdgesOffered ==
    ASSUME NEW v \in Views, NEW target \in Actions(v)
    PROVE  <<v.status, target>> \in AllowedTransitions
BY DEF Actions, AllowedTransitions, Views, OrderStatus

LEMMA EdgesByEnd ==
    ASSUME NEW s, NEW t, NEW target, <<s, target>> \in AllowedTransitions, <<t, target>> \in AllowedTransitions
    PROVE  s = t
BY DEF AllowedTransitions

\* The state of the page in parts.
LEMMA OrderPageIs ==
    ASSUME OrderPageInv
    PROVE  /\ order \in OrderRows /\ detail \in Details /\ reading \in Readings /\ doubts \subseteq Doubts
           /\ patches \in [Handlers -> Patches]
           /\ detail.on => (detail.loading <=> reading.pc # "none" \/ \E d \in doubts : d.current)
BY DEF OrderPageInv, OrderPageTypeOK, OrderRows, Details, Readings, Doubts, Patches

LEMMA OrderPageIsNext ==
    ASSUME order' \in OrderRows, detail' \in Details, reading' \in Readings, doubts' \subseteq Doubts,
           patches' \in [Handlers -> Patches],
           detail'.on => (detail'.loading <=> reading'.pc # "none" \/ \E d \in doubts' : d.current),
           OneIsAwaited', AlongTheGraph'
    PROVE  OrderPageInv'
BY DEF OrderPageInv, OrderPageTypeOK, OrderRows, Details, Readings, Doubts, Patches

\* The page is left, or the session ended.
LEMMA OrderOffStep ==
    ASSUME OrderPageInv, OrderOff, UNCHANGED order
    PROVE  OrderPageInv'
<1>1. /\ detail' \in Details /\ ~detail'.on /\ detail'.pending = "none" /\ reading' = NoReading /\ doubts' = {}
  BY NothingYet DEF OrderOff, NewDetail, Details
<1>2. patches \in [Handlers -> Patches]
  BY OrderPageIs
<1>3. /\ patches' \in [Handlers -> Patches]
      /\ \A h \in Handlers : /\ patches'[h].from = patches[h].from /\ patches'[h].target = patches[h].target
                             /\ patches'[h].pc \in {"idle", "left", "over"}
  BY <1>2 DEF OrderOff, Patches
<1>4. AlongTheGraph'
  BY <1>1, <1>3 DEF OrderPageInv, AlongTheGraph
<1>5. OneIsAwaited'
  BY <1>1, <1>3, NothingYet DEF OneIsAwaited
<1>. QED BY <1>1, <1>3, <1>4, <1>5, OrderPageIs, OrderPageIsNext, NothingYet


LEMMA VisitStep ==
    ASSUME OrderPageInv, OrderVisit
    PROVE  OrderPageInv'
<1>1. ~detail.on /\ detail' = NewDetail /\ reading' = FirstReading /\ UNCHANGED <<order, doubts, patches>>
  BY DEF OrderVisit
<1>2. doubts = {}
  BY <1>1 DEF OrderPageInv, OneIsAwaited
<1>3. OneIsAwaited' /\ AlongTheGraph'
  BY <1>1, <1>2, NothingYet DEF OrderPageInv, OneIsAwaited, AlongTheGraph
<1>. QED BY <1>1, <1>2, <1>3, NothingYet, OrderPageIs, OrderPageIsNext

\* A detail request begins, in a page that may have been changed in the same handler.
LEMMA ReadingBegins ==
    ASSUME OrderPageInv, NEW p \in Details, NEW notice \in {"none", "accepted", "changed"}, NEW reason \in Reasons,
           NEW gated \in BOOLEAN, p.on,
           detail' = Reading(p, notice), NewReading(reason, gated), UNCHANGED order,
           patches' \in [Handlers -> Patches],
           \A h \in Handlers : patches'[h].from = patches[h].from /\ patches'[h].target = patches[h].target
    PROVE  OrderPageInv'
<1>1. detail' \in Details /\ detail'.on /\ detail'.loading /\ detail'.pending = "none"
  BY DEF Reading, Details
<1>2. reading' \in Readings /\ reading'.pc = "asked"
  BY NothingYet DEF NewReading, Readings
<1>3. doubts' \subseteq Doubts /\ \A d \in doubts' : ~d.current
  <2>1. doubts \subseteq Doubts /\ doubts' = {[d EXCEPT !.current = FALSE] : d \in doubts}
    BY OrderPageIs DEF NewReading
  <2>2. \A d \in Doubts : [d EXCEPT !.current = FALSE] \in Doubts /\ ~[d EXCEPT !.current = FALSE].current
    BY DEF Doubts
  <2>. QED BY <2>1, <2>2
<1>4. OneIsAwaited'
  BY <1>1, <1>2, <1>3 DEF OneIsAwaited
<1>5. AlongTheGraph'
  BY <1>1 DEF OrderPageInv, AlongTheGraph
<1>. QED BY <1>1, <1>2, <1>3, <1>4, <1>5, OrderPageIs, OrderPageIsNext

LEMMA ReadOrderStep ==
    ASSUME OrderPageInv, ReadOrder
    PROVE  OrderPageInv'
BY OrderPageIs, ReadingBegins DEF ReadOrder, CanRead, Reasons, Details

LEMMA ReadStep ==
    ASSUME OrderPageInv, ReadStatus \/ ReadPayments
    PROVE  OrderPageInv'
<1>1. order \in OrderRows /\ reading \in Readings
  BY OrderPageIs
<1>2. reading.pc # "none" /\ reading' \in Readings /\ reading'.pc # "none" /\ UNCHANGED <<order, detail, doubts, patches>>
  <2>1. CASE ReadStatus
    BY <1>1, <2>1, NothingYet DEF ReadStatus, Readings, Views, OrderRows
  <2>2. CASE ReadPayments
    BY <1>1, <2>2 DEF ReadPayments, Readings, Views, OrderRows
  <2>. QED BY <2>1, <2>2
<1>3. OneIsAwaited' /\ AlongTheGraph'
  BY <1>2 DEF OrderPageInv, OneIsAwaited, AlongTheGraph
<1>. QED BY <1>2, <1>3, OrderPageIs, OrderPageIsNext

\* The detail request ends, with the order, without it, or with a session check to come.
LEMMA ReadingEnds ==
    ASSUME OrderPageInv, reading.pc # "none", reading' = NoReading, UNCHANGED <<order, patches>>,
           detail' \in Details, detail'.on = detail.on, detail'.pending \in {"none", detail.pending},
           detail'.pending # "none" => detail'.view = detail.view,
           \/ doubts' = doubts /\ ~detail'.loading
           \/ detail' = detail /\ \E d \in Doubts : d.current /\ doubts' = doubts \cup {d}
    PROVE  OrderPageInv'
<1>1. detail.on /\ \A d \in doubts : ~d.current
  BY DEF OrderPageInv, OneIsAwaited
<1>2. OneIsAwaited'
  BY <1>1, NothingYet DEF OrderPageInv, OneIsAwaited
<1>3. AlongTheGraph'
  BY DEF OrderPageInv, AlongTheGraph
<1>4. detail'.loading <=> reading'.pc # "none" \/ \E d \in doubts' : d.current
  BY <1>1, NothingYet, OrderPageIs
<1>5. doubts' \subseteq Doubts
  BY OrderPageIs
<1>. QED BY <1>2, <1>3, <1>4, <1>5, NothingYet, OrderPageIs, OrderPageIsNext

LEMMA NotFoundIs ==
    ASSUME NEW p \in Details
    PROVE  NotFound(p) \in Details /\ NotFound(p).pending = "none" /\ NotFound(p).on = p.on /\ NotFound(p).loading = p.loading
BY NothingYet DEF NotFound, Details

\* What a failure leaves, whatever was asked.
LEMMA FailedIs ==
    ASSUME OrderPageInv, NEW reason \in Reasons, NEW gated \in BOOLEAN, NEW ends \in BOOLEAN,
           ReadingFailed(reason, gated, ends)
    PROVE  /\ detail' \in Details /\ detail'.on = detail.on /\ detail'.pending = detail.pending
           /\ detail'.view = detail.view /\ (detail'.loading <=> detail.loading /\ ~ends)
<1>1. detail \in Details
  BY OrderPageIs
<1>. DEFINE phase == IF detail.view.known THEN "ready" ELSE "error"
            gate == detail.gate \/ gated \/ reason \in {"post-mutation", "conflict"}
            loading == detail.loading /\ ~ends
            notice == CASE reason = "post-mutation" -> "accepted"
                        [] reason = "conflict" -> "changed"
                        [] gated -> "unread"
                        [] OTHER -> detail.notice
<1>2. detail' = [detail EXCEPT !.phase = phase, !.gate = gate, !.loading = loading, !.notice = notice]
  BY Zenon DEF ReadingFailed
<1>3. phase \in {"ready", "error"}
  OBVIOUS
<1>4. gate \in BOOLEAN /\ loading \in BOOLEAN
  BY <1>1 DEF Details
<1>5. notice \in {"none", "updated", "accepted", "changed", "unread", "uncertain", "refused"}
  BY <1>1 DEF Details
<1>6. loading <=> detail.loading /\ ~ends
  OBVIOUS
<1>. HIDE DEF phase, gate, loading, notice
<1>7. /\ detail' \in Details /\ detail'.on = detail.on /\ detail'.pending = detail.pending
      /\ detail'.view = detail.view /\ detail'.loading = loading
  BY <1>1, <1>2, <1>3, <1>4, <1>5 DEF Details
<1>. QED BY <1>6, <1>7

LEMMA OrderArrivesStep ==
    ASSUME OrderPageInv, OrderArrives
    PROVE  OrderPageInv'
<1>1. detail \in Details /\ reading \in Readings /\ reading.pc = "read" /\ reading' = NoReading
      /\ UNCHANGED <<order, doubts, patches>>
  BY OrderPageIs DEF OrderArrives
<1>2. detail' \in Details /\ detail'.on = detail.on /\ detail'.pending = "none" /\ ~detail'.loading
  BY <1>1 DEF OrderArrives, Details, Readings
<1>. QED BY <1>1, <1>2, ReadingEnds

LEMMA OrderFailsStep ==
    ASSUME OrderPageInv, OrderFails
    PROVE  OrderPageInv'
<1>1. detail \in Details /\ reading \in Readings /\ reading.pc # "none" /\ UNCHANGED order
  BY OrderPageIs DEF OrderFails
<1>2. \/ OrderOff
      \/ /\ doubts' = doubts \cup {[reason |-> reading.reason, gated |-> reading.gated, current |-> TRUE]}
         /\ reading' = NoReading /\ UNCHANGED <<detail, patches>>
      \/ detail' = [NotFound(detail) EXCEPT !.loading = FALSE] /\ reading' = NoReading /\ UNCHANGED <<doubts, patches>>
      \/ ReadingFailed(reading.reason, reading.gated, TRUE) /\ reading' = NoReading /\ UNCHANGED <<doubts, patches>>
  BY DEF OrderFails
<1>3. CASE doubts' = doubts \cup {[reason |-> reading.reason, gated |-> reading.gated, current |-> TRUE]}
            /\ reading' = NoReading /\ UNCHANGED <<detail, patches>>
  <2>1. PICK d \in Doubts : d.current /\ doubts' = doubts \cup {d}
    BY <1>1, <1>3 DEF Readings, Doubts
  <2>. QED BY <1>1, <1>3, <2>1, ReadingEnds
<1>4. CASE detail' = [NotFound(detail) EXCEPT !.loading = FALSE] /\ reading' = NoReading /\ UNCHANGED <<doubts, patches>>
  <2>1. detail' \in Details /\ detail'.on = detail.on /\ detail'.pending = "none" /\ ~detail'.loading
    <3>1. PICK p \in Details : p = NotFound(detail) /\ p.on = detail.on /\ p.pending = "none"
      BY <1>1, NotFoundIs
    <3>. QED BY <1>4, <3>1 DEF Details
  <2>. QED BY <1>1, <1>4, <2>1, ReadingEnds
<1>5. CASE ReadingFailed(reading.reason, reading.gated, TRUE) /\ reading' = NoReading /\ UNCHANGED <<doubts, patches>>
  <2>1. reading.reason \in Reasons /\ reading.gated \in BOOLEAN
    BY <1>1 DEF Readings
  <2>2. /\ detail' \in Details /\ detail'.on = detail.on /\ detail'.pending = detail.pending
        /\ detail'.view = detail.view /\ ~detail'.loading
    BY <1>5, <2>1, FailedIs
  <2>. QED BY <1>1, <1>5, <2>2, ReadingEnds
<1>. QED BY <1>1, <1>2, <1>3, <1>4, <1>5, OrderOffStep

LEMMA OrderDoubtEndsStep ==
    ASSUME OrderPageInv, OrderDoubtEnds
    PROVE  OrderPageInv'
<1>1. PICK d \in doubts : \/ OrderOff
                          \/ /\ ReadingFailed(d.reason, d.gated, d.current)
                             /\ doubts' = doubts \ {d} /\ UNCHANGED <<reading, patches>>
  BY DEF OrderDoubtEnds
<1>2. UNCHANGED order /\ doubts \subseteq Doubts /\ d \in Doubts
  BY OrderPageIs DEF OrderDoubtEnds
<1>3. CASE ReadingFailed(d.reason, d.gated, d.current) /\ doubts' = doubts \ {d} /\ UNCHANGED <<reading, patches>>
  <2>1. d.reason \in Reasons /\ d.gated \in BOOLEAN /\ d.current \in BOOLEAN
    BY <1>2 DEF Doubts
  <2>2. /\ detail' \in Details /\ detail'.on = detail.on /\ detail'.pending = detail.pending
        /\ detail'.view = detail.view /\ (detail'.loading <=> detail.loading /\ ~d.current)
    BY <1>3, <2>1, FailedIs
  <2>3. detail'.on => (detail'.loading <=> reading'.pc # "none" \/ \E e \in doubts' : e.current)
    BY <1>3, <2>2, OrderPageIs DEF OrderPageInv, OneIsAwaited
  <2>4. OneIsAwaited' /\ AlongTheGraph'
    BY <1>3, <2>2 DEF OrderPageInv, OneIsAwaited, AlongTheGraph
  <2>. QED BY <1>2, <1>3, <2>2, <2>3, <2>4, OrderPageIs, OrderPageIsNext
<1>. QED BY <1>1, <1>2, <1>3, OrderOffStep


\* No request for details is touched.
LEMMA PageStep ==
    ASSUME OrderPageInv, order' \in OrderRows, detail' \in Details, patches' \in [Handlers -> Patches],
           UNCHANGED <<reading, doubts>>, detail'.on = detail.on, detail'.loading = detail.loading,
           AlongTheGraph', detail.on \/ \A h \in Handlers : patches'[h].pc \notin {"asked", "judged"}
    PROVE  OrderPageInv'
<1>1. OneIsAwaited'
  BY DEF OrderPageInv, OneIsAwaited
<1>. QED BY <1>1, OrderPageIs, OrderPageIsNext

LEMMA SelectStep ==
    ASSUME OrderPageInv, SelectAction \/ CloseConfirmation
    PROVE  OrderPageInv'
<1>1. detail \in Details /\ UNCHANGED <<order, reading, doubts, patches>>
  BY OrderPageIs DEF SelectAction, CloseConfirmation
<1>2. CASE SelectAction
  <2>1. PICK target \in Actions(detail.view) : detail' = [detail EXCEPT !.pending = target, !.notice = "none"]
    BY <1>2 DEF SelectAction, Choices
  <2>2. target \in Targets /\ <<detail.view.status, target>> \in AllowedTransitions
    BY <1>1, EdgesOffered DEF Details, Actions, Targets, OrderStatus
  <2>3. /\ detail' \in Details /\ detail'.on = detail.on /\ detail'.loading = detail.loading
        /\ detail'.pending = target /\ detail'.view = detail.view
    BY <1>1, <2>1, <2>2 DEF Details
  <2>4. AlongTheGraph'
    BY <1>1, <2>2, <2>3 DEF OrderPageInv, AlongTheGraph
  <2>. QED BY <1>1, <2>3, <2>4, OrderPageIs, PageStep DEF OrderPageInv, OneIsAwaited
<1>3. CASE CloseConfirmation
  <2>1. /\ detail' \in Details /\ detail'.on = detail.on /\ detail'.loading = detail.loading
        /\ detail'.pending = "none"
    BY <1>1, <1>3 DEF CloseConfirmation, Details
  <2>2. AlongTheGraph'
    BY <1>1, <2>1 DEF OrderPageInv, AlongTheGraph
  <2>. QED BY <1>1, <2>1, <2>2, OrderPageIs, PageStep DEF OrderPageInv, OneIsAwaited
<1>. QED BY <1>2, <1>3

LEMMA ConfirmStep ==
    ASSUME OrderPageInv, ConfirmMutation
    PROVE  OrderPageInv'
<1>1. PICK h \in Handlers :
        /\ patches' = [patches EXCEPT ![h] = [NoPatch EXCEPT !.pc = "asked", !.from = detail.view.status,
                                                             !.target = detail.pending]]
        /\ detail' = [detail EXCEPT !.busy = TRUE, !.notice = "none"]
  BY DEF ConfirmMutation
<1>2. /\ detail \in Details /\ patches \in [Handlers -> Patches] /\ UNCHANGED <<order, reading, doubts>>
      /\ detail.on /\ detail.pending \in Targets /\ detail.view.status \in OrderStatus
      /\ <<detail.view.status, detail.pending>> \in AllowedTransitions
  BY OrderPageIs DEF ConfirmMutation, CanConfirmAction, OrderPageInv, AlongTheGraph, Details, Views
<1>. DEFINE r == [NoPatch EXCEPT !.pc = "asked", !.from = detail.view.status, !.target = detail.pending]
<1>3. r \in Patches /\ r.from = detail.view.status /\ r.target = detail.pending
  BY <1>2, NothingYet DEF Patches
<1>. HIDE DEF r
<1>4. /\ patches' \in [Handlers -> Patches] /\ patches'[h] = r
      /\ \A g \in Handlers \ {h} : patches'[g] = patches[g]
  BY <1>1, <1>2, <1>3 DEF r
<1>5. /\ detail' \in Details /\ detail'.on = detail.on /\ detail'.loading = detail.loading
      /\ detail'.pending = detail.pending /\ detail'.view = detail.view
  BY <1>1, <1>2 DEF Details
<1>6. AlongTheGraph'
  BY <1>2, <1>3, <1>4, <1>5 DEF OrderPageInv, AlongTheGraph
<1>. QED BY <1>2, <1>4, <1>5, <1>6, OrderPageIs, PageStep

\* One handler goes on.
LEMMA HandlerGoesOn ==
    ASSUME OrderPageInv, NEW h \in Handlers, NEW pc \in {"judged", "left", "over"},
           patches' = [patches EXCEPT ![h].pc = pc], patches[h].pc \in {"asked", "judged"}
    PROVE  /\ patches' \in [Handlers -> Patches] /\ detail.on
           /\ \A g \in Handlers : patches'[g].from = patches[g].from /\ patches'[g].target = patches[g].target
<1>1. patches \in [Handlers -> Patches]
  BY OrderPageIs
<1>2. detail.on
  BY DEF OrderPageInv, OneIsAwaited
<1>. QED BY <1>1, <1>2 DEF Patches

LEMMA ServePatchStep ==
    ASSUME OrderPageInv, ServePatch
    PROVE  OrderPageInv'
<1>1. PICK h \in Handlers : /\ order' = [order EXCEPT !.status = patches[h].target]
                            /\ patches' = [patches EXCEPT ![h].done = TRUE]
  BY DEF ServePatch
<1>2. /\ order \in OrderRows /\ patches \in [Handlers -> Patches] /\ patches[h].target \in OrderStatus
      /\ UNCHANGED <<detail, reading, doubts>>
  BY OrderPageIs DEF ServePatch, Patches, Targets
<1>3. /\ order' \in OrderRows /\ patches' \in [Handlers -> Patches]
      /\ \A g \in Handlers : /\ patches'[g].from = patches[g].from /\ patches'[g].target = patches[g].target
                             /\ patches'[g].pc = patches[g].pc
  BY <1>1, <1>2 DEF OrderRows, Patches
<1>4. AlongTheGraph' /\ (detail.on \/ \A g \in Handlers : patches'[g].pc \notin {"asked", "judged"})
  BY <1>2, <1>3 DEF OrderPageInv, AlongTheGraph, OneIsAwaited
<1>. QED BY <1>2, <1>3, <1>4, OrderPageIs, PageStep

LEMMA FollowedStep ==
    ASSUME OrderPageInv, NEW h \in Handlers, patches[h].pc = "asked", NEW reason \in Reasons,
           NEW notice \in {"accepted", "changed"}, Followed(h, reason, notice), UNCHANGED order
    PROVE  OrderPageInv'
<1>. DEFINE p == [detail EXCEPT !.busy = FALSE, !.gate = TRUE]
<1>1. detail \in Details /\ detail.on /\ patches' = [patches EXCEPT ![h].pc = "over"]
  BY OrderPageIs DEF Followed, OrderPageInv, OneIsAwaited
<1>2. p \in Details /\ p.on
  BY <1>1 DEF Details
<1>3. detail' = Reading(p, notice) /\ NewReading(reason, TRUE)
  BY DEF Followed
<1>. HIDE DEF p
<1>. QED BY <1>1, <1>2, <1>3, HandlerGoesOn, ReadingBegins

LEMMA PatchFailsStep ==
    ASSUME OrderPageInv, PatchFails
    PROVE  OrderPageInv'
<1>1. PICK h \in Handlers, o \in Failures :
        /\ patches[h].pc = "asked"
        /\ CASE o = "401" -> OrderOff
             [] o = "403" -> /\ detail' = [detail EXCEPT !.busy = FALSE]
                             /\ patches' = [patches EXCEPT ![h].pc = "judged"]
                             /\ UNCHANGED <<reading, doubts>>
             [] o = "404" -> /\ detail' = [NotFound(detail) EXCEPT !.busy = FALSE]
                             /\ patches' = [patches EXCEPT ![h].pc = "over"]
                             /\ UNCHANGED <<reading, doubts>>
             [] o = "409" -> Followed(h, "conflict", "changed")
             [] o = "422" -> /\ detail' = [detail EXCEPT !.busy = FALSE, !.pending = "none", !.notice = "refused"]
                             /\ patches' = [patches EXCEPT ![h].pc = "over"]
                             /\ UNCHANGED <<reading, doubts>>
             [] OTHER -> /\ detail' = [Unsure(detail) EXCEPT !.busy = FALSE]
                         /\ patches' = [patches EXCEPT ![h].pc = IF @ = "asked" /\ ~patches[h].done THEN "left" ELSE "over"]
                         /\ UNCHANGED <<reading, doubts>>
  BY Zenon DEF PatchFails
<1>2. UNCHANGED order /\ detail \in Details
  BY OrderPageIs DEF PatchFails
<1>3. ASSUME NEW pc \in {"judged", "left", "over"}, patches' = [patches EXCEPT ![h].pc = pc],
             detail' \in Details, detail'.on = detail.on, detail'.loading = detail.loading,
             detail'.pending = "none" \/ (detail'.pending = detail.pending /\ detail'.view = detail.view),
             UNCHANGED <<reading, doubts>>
      PROVE  OrderPageInv'
  <2>1. /\ patches' \in [Handlers -> Patches] /\ detail.on
        /\ \A g \in Handlers : patches'[g].from = patches[g].from /\ patches'[g].target = patches[g].target
    BY <1>1, <1>3, HandlerGoesOn
  <2>2. AlongTheGraph'
    BY <1>3, <2>1 DEF OrderPageInv, AlongTheGraph
  <2>. QED BY <1>2, <1>3, <2>1, <2>2, OrderPageIs, PageStep
<1>4. CASE o = "401"
  BY <1>1, <1>2, <1>4, OrderOffStep
<1>5. CASE o = "403"
  BY <1>1, <1>2, <1>3, <1>5 DEF Details
<1>6. CASE o = "404"
  <2>1. PICK p \in Details : p = NotFound(detail) /\ p.on = detail.on /\ p.pending = "none" /\ p.loading = detail.loading
    BY <1>2, NotFoundIs
  <2>2. detail' = [p EXCEPT !.busy = FALSE]
    BY <1>1, <1>6, <2>1
  <2>. QED BY <1>1, <1>3, <1>6, <2>1, <2>2 DEF Details
<1>7. CASE o = "409"
  BY <1>1, <1>2, <1>7, FollowedStep DEF Reasons
<1>8. CASE o = "422"
  BY <1>1, <1>2, <1>3, <1>8 DEF Details
<1>9. CASE o \notin {"401", "403", "404", "409", "422"}
  <2>1. PICK pc \in {"left", "over"} : patches' = [patches EXCEPT ![h].pc = pc]
    BY <1>1, <1>9
  <2>2. /\ detail' \in Details /\ detail'.on = detail.on /\ detail'.loading = detail.loading
        /\ detail'.pending = "none" /\ UNCHANGED <<reading, doubts>>
    BY <1>1, <1>2, <1>9 DEF Unsure, Details
  <2>. QED BY <1>3, <2>1, <2>2
<1>. QED BY <1>4, <1>5, <1>6, <1>7, <1>8, <1>9

LEMMA PatchDoubtEndsStep ==
    ASSUME OrderPageInv, PatchDoubtEnds
    PROVE  OrderPageInv'
<1>1. PICK h \in Handlers :
        /\ patches[h].pc = "judged"
        /\ \/ OrderOff
           \/ /\ detail' = [Unsure(detail) EXCEPT !.busy = FALSE]
              /\ patches' = [patches EXCEPT ![h].pc = "over"]
              /\ UNCHANGED <<reading, doubts>>
  BY DEF PatchDoubtEnds
<1>2. UNCHANGED order /\ detail \in Details
  BY OrderPageIs DEF PatchDoubtEnds
<1>3. CASE ~OrderOff
  <2>1. /\ detail' \in Details /\ detail'.on = detail.on /\ detail'.loading = detail.loading
        /\ detail'.pending = "none" /\ UNCHANGED <<reading, doubts>>
    BY <1>1, <1>2, <1>3 DEF Unsure, Details
  <2>2. /\ patches' \in [Handlers -> Patches] /\ detail.on
        /\ \A g \in Handlers : patches'[g].from = patches[g].from /\ patches'[g].target = patches[g].target
    BY <1>1, <1>3, HandlerGoesOn
  <2>3. AlongTheGraph'
    BY <2>1, <2>2 DEF OrderPageInv, AlongTheGraph
  <2>. QED BY <1>2, <2>1, <2>2, <2>3, OrderPageIs, PageStep
<1>. QED BY <1>2, <1>3, OrderOffStep

LEMMA RestOfSystemStep ==
    ASSUME OrderPageInv, PaymentMoves \/ MovedElsewhere
    PROVE  OrderPageInv'
<1>1. order \in OrderRows /\ UNCHANGED <<detail, reading, doubts, patches>>
  BY OrderPageIs DEF PaymentMoves, MovedElsewhere
<1>2. order' \in OrderRows
  <2>1. CASE /\ order.attempts < MaxPayments
             /\ order' = [order EXCEPT !.payments = @ \cup {"pending"}, !.attempts = @ + 1]
    <3>1. order.attempts + 1 \in 0..MaxPayments /\ order.payments \cup {"pending"} \in SUBSET PaymentStatuses
      BY <1>1, <2>1, OrderBounds DEF OrderRows, PaymentStatuses
    <3>. DEFINE n == order.attempts + 1
                P == order.payments \cup {"pending"}
    <3>2. order' = [order EXCEPT !.payments = P, !.attempts = n]
      BY <2>1
    <3>. HIDE DEF n, P
    <3>. QED BY <1>1, <3>1, <3>2 DEF OrderRows, n, P
  <2>2. CASE \E s \in PaymentStatuses \ {"pending"} : order' = [order EXCEPT !.payments = (@ \ {"pending"}) \cup {s}]
    BY <1>1, <2>2 DEF OrderRows
  <2>3. CASE \E target \in Targets : order' = [order EXCEPT !.status = target]
    BY <1>1, <2>3 DEF OrderRows, Targets
  <2>. QED BY <2>1, <2>2, <2>3 DEF PaymentMoves, MovedElsewhere
<1>3. AlongTheGraph' /\ (detail.on \/ \A g \in Handlers : patches'[g].pc \notin {"asked", "judged"})
  BY <1>1 DEF OrderPageInv, AlongTheGraph, OneIsAwaited
<1>. QED BY <1>1, <1>2, <1>3, OrderPageIs, PageStep

LEMMA OrderPageKeeps == OrderPageInv /\ [OrderNext]_orderVars => OrderPageInv'
<1>. SUFFICES ASSUME OrderPageInv, [OrderNext]_orderVars PROVE OrderPageInv'
  OBVIOUS
<1>1. CASE OrderLeave
  BY <1>1, OrderOffStep DEF OrderLeave
<1>2. CASE PatchArrives
  BY <1>2, FollowedStep DEF PatchArrives, Reasons
<1>3. CASE UNCHANGED orderVars
  BY <1>3 DEF orderVars, OrderPageInv, OrderPageTypeOK, OneIsAwaited, AlongTheGraph
<1>. QED BY <1>1, <1>2, <1>3, VisitStep, ReadOrderStep, ReadStep, OrderArrivesStep, OrderFailsStep, OrderDoubtEndsStep,
            SelectStep, ConfirmStep, ServePatchStep, PatchFailsStep, PatchDoubtEndsStep, RestOfSystemStep DEF OrderNext

\* The page of an order waits for details exactly while a request for them is in progress or
\* in doubt.
THEOREM OrderPageTypeCorrect == OrderSpec => []OrderPageTypeOK
<1>1. OrderPageInv => OrderPageTypeOK
  BY DEF OrderPageInv
<1>. QED BY <1>1, OrderStarts, OrderPageKeeps, PTL DEF OrderSpec

LEMMA OffersAccepted == OrderPageTypeOK => OffersOnlyWhatIsAccepted
<1>. SUFFICES ASSUME detail.view \in Views, detail.view.status = order.status, detail.view.payments = order.payments,
                     NEW target \in Actions(detail.view)
              PROVE  Accepts(target)
  BY DEF OrderPageTypeOK, OffersOnlyWhatIsAccepted
<1>. QED BY DEF Actions, Accepts, AllowedTransitions, Views, OrderStatus

\* The page of an order offers, on the order as it is, only what the service accepts.
THEOREM OffersAcceptedAlways == OrderSpec => []OffersOnlyWhatIsAccepted
BY OrderPageTypeCorrect, OffersAccepted, PTL

\* The end of an edge names its start.
LEMMA ChangesAsConfirmed ==
    ASSUME OrderPageInv, [OrderNext]_orderVars, NEW h \in Handlers, patches'[h].done, ~patches[h].done
    PROVE  order.status = patches[h].from /\ order'.status = patches[h].target
<1>1. patches \in [Handlers -> Patches] /\ order \in OrderRows
  BY OrderPageIs
<1>2. ServePatch
  <2>1. patches' # patches
    OBVIOUS
  <2>2. ~(OrderVisit \/ ReadOrder \/ ReadStatus \/ ReadPayments \/ OrderArrives \/ SelectAction \/ CloseConfirmation
          \/ PaymentMoves \/ MovedElsewhere \/ UNCHANGED orderVars)
    BY <2>1 DEF OrderVisit, ReadOrder, ReadStatus, ReadPayments, OrderArrives, SelectAction, CloseConfirmation,
                PaymentMoves, MovedElsewhere, orderVars
  <2>3. ~OrderOff
    BY <1>1 DEF OrderOff, Patches
  <2>4. ~ConfirmMutation
    BY <1>1, NothingYet DEF ConfirmMutation, NoPatch
  <2>5. \A g \in Handlers : \A pc : patches' # [patches EXCEPT ![g].pc = pc]
    BY <1>1 DEF Patches
  <2>6. ~(OrderLeave \/ OrderFails \/ OrderDoubtEnds \/ PatchArrives \/ PatchDoubtEnds)
    BY <2>1, <2>3, <2>5 DEF OrderLeave, OrderFails, OrderDoubtEnds, PatchArrives, Followed, PatchDoubtEnds
  <2>7. ~PatchFails
    BY <2>3, <2>5 DEF PatchFails, Followed
  <2>. QED BY <2>2, <2>4, <2>6, <2>7 DEF OrderNext
<1>3. PICK g \in Handlers : /\ Accepts(patches[g].target) /\ order' = [order EXCEPT !.status = patches[g].target]
                            /\ patches' = [patches EXCEPT ![g].done = TRUE]
  BY <1>2 DEF ServePatch
<1>4. g = h
  BY <1>1, <1>3
<1>5. <<order.status, patches[h].target>> \in AllowedTransitions /\ <<patches[h].from, patches[h].target>> \in AllowedTransitions
  BY <1>3, <1>4 DEF Accepts, OrderPageInv, AlongTheGraph
<1>. QED BY <1>1, <1>3, <1>4, <1>5, EdgesByEnd DEF OrderRows

\* A status change starts from the status that was on display when it was confirmed, and ends
\* with the one that was confirmed.
THEOREM StatusChangesAsConfirmedAlways == OrderSpec => StatusChangesAsConfirmed
<1>1. OrderPageInv /\ [OrderNext]_orderVars
        => [\A h \in Handlers : patches'[h].done /\ ~patches[h].done
              => order.status = patches[h].from /\ order'.status = patches[h].target]_orderVars
  BY ChangesAsConfirmed
<1>. QED BY <1>1, OrderStarts, OrderPageKeeps, PTL DEF OrderSpec, StatusChangesAsConfirmed


-----------------------------------------------------------------------------
(* The users page.                                                         *)

\* A list reaches no further than the accounts there are, which only become more.
Within(list, n) == list.items = <<>> \/ list.from + Len(list.items) <= n
ListsAreOfAccounts == Within(users.data, Len(accounts)) /\ Within(fetch.list, Len(accounts))

\* What is to be confirmed, asked for or still under way is the change from a role of an
\* account to the other one.
Proper(move, n) == move.who \in 1..n /\ move.to = TargetRole(move.from)
MovesAreOfAccounts ==
    /\ users.pending # NoTransition => Proper(users.pending, Len(accounts))
    /\ change.pc = "asked" => Proper(change.move, Len(accounts))
    /\ \A move \in adrift : Proper(move, Len(accounts))

\* A role change and a list are not asked for at the same time, and by no page that is gone.
OneAtATime ==
    /\ ~users.on => fetch.pc = "none" /\ change.pc = "idle"
    /\ change.pc \in {"asked", "judged"} => fetch.pc = "none"

\* While a change may have been made unseen, the gate is closed, or nothing is known and
\* nothing chosen yet.
OwedIsGated == users.on /\ users.owed => users.gate \/ (~users.data.known /\ users.pending = NoTransition)

UsersInv == UsersTypeOK /\ ListsAreOfAccounts /\ MovesAreOfAccounts /\ OneAtATime /\ OwedIsGated

UserPages == [on : BOOLEAN, offset : Nat, loading : BOOLEAN, error : BOOLEAN, data : Seen, pending : Transitions,
              notice : {"none", "accepted", "refused", "uncertain", "latest"}, gate : BOOLEAN, owed : BOOLEAN]
Fetches == [pc : {"none", "asked", "counted", "read", "judged"},
            reason : {"initial", "manual", "post-mutation", "reconcile"}, list : Seen]
Changes == [pc : {"idle", "asked", "judged", "reloading"}, move : Transitions, done : BOOLEAN]

LEMMA UsersNothingYet ==
    /\ NoneSeen \in Seen /\ NoneSeen.items = <<>> /\ ~NoneSeen.known
    /\ NoFetch \in Fetches /\ NoFetch.pc = "none" /\ NoFetch.list = NoneSeen
    /\ FirstFetch \in Fetches /\ FirstFetch.pc = "asked" /\ FirstFetch.list = NoneSeen
    /\ NoTransition \in Transitions
    /\ NoChange \in Changes /\ NoChange.pc = "idle" /\ ~NoChange.done
    /\ NewUsers \in UserPages /\ NewUsers.on /\ NewUsers.loading /\ NewUsers.pending = NoTransition
    /\ NewUsers.data = NoneSeen /\ ~NewUsers.owed
<1>1. NoneSeen \in Seen /\ NoneSeen.items = <<>> /\ ~NoneSeen.known
  BY DEF NoneSeen, Seen
<1>2. NoTransition \in Transitions
  BY DEF NoTransition, Transitions, Ordinary
<1>. QED BY <1>1, <1>2 DEF NoFetch, Fetches, FirstFetch, NoChange, Changes, NewUsers, UserPages

LEMMA UsersIs ==
    ASSUME UsersInv
    PROVE  /\ accounts \in Seq(Roles) /\ Len(accounts) \in Nat /\ DOMAIN accounts = 1..Len(accounts)
           /\ users \in UserPages /\ fetch \in Fetches /\ change \in Changes /\ adrift \subseteq Transitions
           /\ users.on => (users.loading <=> fetch.pc # "none")
           /\ ListsAreOfAccounts /\ MovesAreOfAccounts /\ OneAtATime /\ OwedIsGated
<1>1. accounts \in Seq(Roles)
  BY DEF UsersInv, UsersTypeOK
<1>2. Len(accounts) \in Nat /\ DOMAIN accounts = 1..Len(accounts)
  BY <1>1, LenProperties
<1>. QED BY <1>1, <1>2 DEF UsersInv, UsersTypeOK, UserPages, Fetches, Changes

\* The next state of the page, the accounts having become more or none.
LEMMA UsersIsNext ==
    ASSUME UsersInv, accounts' \in Seq(Roles), Len(accounts) <= Len(accounts'),
           users' \in UserPages, fetch' \in Fetches, change' \in Changes, adrift' \subseteq Transitions,
           users'.on => (users'.loading <=> fetch'.pc # "none"),
           users'.data.items = <<>> \/ users'.data = users.data \/ users'.data = fetch.list,
           fetch'.list.items = <<>> \/ fetch'.list = fetch.list \/ Within(fetch'.list, Len(accounts)),
           users'.pending = NoTransition \/ users'.pending = users.pending \/ Proper(users'.pending, Len(accounts)),
           change'.pc = "asked" => (change.pc = "asked" /\ change'.move = change.move)
                                   \/ (change'.move = users.pending /\ users.pending # NoTransition),
           adrift' \subseteq adrift \/ (change.pc = "asked" /\ adrift' \subseteq adrift \cup {change.move}),
           OneAtATime', OwedIsGated'
    PROVE  UsersInv'
<1>1. Len(accounts) \in Nat /\ Len(accounts') \in Nat
  BY UsersIs, LenProperties
<1>2. ASSUME NEW list \in Seen, Within(list, Len(accounts)) PROVE Within(list, Len(accounts'))
  <2>1. Len(list.items) \in Nat /\ list.from \in Nat
    BY LenProperties DEF Seen
  <2>. QED BY <1>1, <1>2, <2>1 DEF Within
<1>3. ASSUME NEW move, Proper(move, Len(accounts)) PROVE Proper(move, Len(accounts'))
  BY <1>1, <1>3 DEF Proper
<1>4. users.data \in Seen /\ fetch.list \in Seen /\ users'.data \in Seen /\ fetch'.list \in Seen
  BY UsersIs DEF UserPages, Fetches
<1>5. ListsAreOfAccounts'
  <2>1. Within(users'.data, Len(accounts'))
    BY <1>2, <1>4, UsersIs DEF ListsAreOfAccounts, Within
  <2>2. Within(fetch'.list, Len(accounts'))
    BY <1>2, <1>4, UsersIs DEF ListsAreOfAccounts, Within
  <2>. QED BY <2>1, <2>2 DEF ListsAreOfAccounts
<1>6. MovesAreOfAccounts'
  <2>1. MovesAreOfAccounts
    BY UsersIs
  <2>2. users'.pending # NoTransition => Proper(users'.pending, Len(accounts'))
    BY <1>3, <2>1 DEF MovesAreOfAccounts
  <2>3. change'.pc = "asked" => Proper(change'.move, Len(accounts'))
    BY <1>3, <2>1 DEF MovesAreOfAccounts
  <2>4. \A move \in adrift' : Proper(move, Len(accounts'))
    BY <1>3, <2>1 DEF MovesAreOfAccounts
  <2>. QED BY <2>2, <2>3, <2>4 DEF MovesAreOfAccounts
<1>7. UsersTypeOK'
  BY DEF UsersTypeOK, UserPages, Fetches, Changes
<1>. QED BY <1>5, <1>6, <1>7 DEF UsersInv

LEMMA UsersStart == UsersInit => UsersInv
<1>. SUFFICES ASSUME UsersInit PROVE UsersInv
  OBVIOUS
<1>1. accounts \in Seq(Roles)
  BY DEF UsersInit, Roles, Ordinary
<1>2. users \in UserPages /\ fetch \in Fetches /\ change \in Changes /\ adrift = {}
  BY UsersNothingYet DEF UsersInit
<1>3. UsersTypeOK
  BY <1>1, <1>2, UsersNothingYet DEF UsersInit, UsersTypeOK, UserPages, Fetches, Changes
<1>. QED BY <1>3, UsersNothingYet DEF UsersInit, UsersInv, ListsAreOfAccounts, Within, MovesAreOfAccounts,
                                      OneAtATime, OwedIsGated

\* The page is left, or its session ended.
LEMMA UsersOffStep ==
    ASSUME UsersInv, UsersOff, UNCHANGED accounts
    PROVE  UsersInv'
<1>. DEFINE w == (NewUsers.owed \/ users.owed) \/ change.pc = "asked"
<1>1. w \in BOOLEAN
  OBVIOUS
<1>2. users' = [NewUsers EXCEPT !.on = FALSE, !.owed = w]
  BY DEF UsersOff
<1>. HIDE DEF w
<1>3. /\ users' \in UserPages /\ ~users'.on /\ users'.data = NoneSeen /\ users'.pending = NoTransition
      /\ fetch' = NoFetch /\ change' = NoChange
  BY <1>1, <1>2, UsersNothingYet DEF UsersOff, UserPages
<1>4. adrift' \subseteq adrift \/ (change.pc = "asked" /\ adrift' \subseteq adrift \cup {change.move})
  BY DEF UsersOff
<1>5. adrift' \subseteq Transitions
  BY <1>4, UsersIs DEF Changes
<1>6. OneAtATime' /\ OwedIsGated'
  BY <1>3, UsersNothingYet DEF OneAtATime, OwedIsGated
<1>. QED BY <1>3, <1>4, <1>5, <1>6, UsersIs, UsersIsNext, UsersNothingYet

LEMMA UsersVisitStep ==
    ASSUME UsersInv, UsersVisit
    PROVE  UsersInv'
<1>1. /\ users' = [NewUsers EXCEPT !.owed = users.owed] /\ ~users.on /\ fetch' = FirstFetch
      /\ UNCHANGED <<accounts, change, adrift>>
  BY DEF UsersVisit
<1>2. /\ users' \in UserPages /\ users'.on /\ users'.loading /\ users'.data = NoneSeen /\ users'.pending = NoTransition
  BY <1>1, UsersNothingYet, UsersIs DEF UserPages
<1>3. OneAtATime' /\ OwedIsGated'
  BY <1>1, <1>2, UsersNothingYet, UsersIs DEF OneAtATime, OwedIsGated
<1>. QED BY <1>1, <1>2, <1>3, UsersIs, UsersIsNext, UsersNothingYet


LEMMA LoadUsersStep ==
    ASSUME UsersInv, LoadUsers
    PROVE  UsersInv'
<1>1. /\ users.on /\ change.pc = "idle"
      /\ users' = Fetching(users) /\ fetch' = NewFetch("manual") /\ UNCHANGED <<accounts, change, adrift>>
  BY DEF LoadUsers, CanLoad, InFlight
<1>2. /\ users' \in UserPages /\ users'.on /\ users'.loading /\ users'.data = users.data
      /\ users'.pending = users.pending /\ users'.owed = users.owed /\ users'.gate = users.gate
  BY <1>1, UsersIs DEF Fetching, UserPages
<1>3. fetch' \in Fetches /\ fetch'.pc = "asked" /\ fetch'.list = NoneSeen
  BY <1>1, UsersNothingYet DEF NewFetch, Fetches
<1>4. OneAtATime' /\ OwedIsGated'
  BY <1>1, <1>2, <1>3, UsersIs DEF OneAtATime, OwedIsGated
<1>. QED BY <1>1, <1>2, <1>3, <1>4, UsersIs, UsersIsNext, UsersNothingYet

LEMMA ChangePageStep ==
    ASSUME UsersInv, ChangePage
    PROVE  UsersInv'
<1>1. PICK o \in Pages : /\ users' = [Fetching(users) EXCEPT !.offset = IF o < 0 THEN 0 ELSE o, !.notice = "none",
                                                             !.data = NoneSeen]
                         /\ fetch' = NewFetch("initial") /\ UNCHANGED <<accounts, change, adrift>>
  BY DEF ChangePage
<1>2. users.on /\ change.pc = "idle" /\ users.pending = NoTransition /\ o \in Int
  BY <1>1, UsersIs, UserBounds DEF Pages, ControlsDisabled, InFlight, UserPages
<1>3. /\ users' \in UserPages /\ users'.on /\ users'.loading /\ users'.data = NoneSeen
      /\ users'.pending = users.pending
  <2>1. PICK offset \in Nat : users' = [Fetching(users) EXCEPT !.offset = offset, !.notice = "none", !.data = NoneSeen]
    <3>1. PICK offset : offset = IF o < 0 THEN 0 ELSE o
      OBVIOUS
    <3>2. offset \in Nat
      BY <1>2, <3>1
    <3>. QED BY <1>1, <3>1, <3>2, Zenon
  <2>2. Fetching(users) \in UserPages /\ Fetching(users).on /\ Fetching(users).loading
        /\ Fetching(users).pending = users.pending
    BY <1>2, UsersIs DEF Fetching, UserPages
  <2>. HIDE DEF Fetching
  <2>. QED BY <2>1, <2>2, UsersNothingYet DEF UserPages
<1>4. fetch' \in Fetches /\ fetch'.pc = "asked" /\ fetch'.list = NoneSeen
  BY <1>1, UsersNothingYet DEF NewFetch, Fetches
<1>5. OneAtATime' /\ OwedIsGated'
  BY <1>1, <1>2, <1>3, <1>4, UsersNothingYet DEF OneAtATime, OwedIsGated
<1>. QED BY <1>1, <1>3, <1>4, <1>5, UsersIs, UsersIsNext, UsersNothingYet

\* The total and the page are read one after the other.
LEMMA PagesAreWithin ==
    ASSUME UsersInv, NEW list \in Seen
    PROVE  AccountPage(list) \in Seen /\ Within(AccountPage(list), Len(accounts))
<1>. DEFINE last == IF list.from + UserLimit <= Len(accounts) THEN list.from + UserLimit ELSE Len(accounts)
            items == SubSeq(accounts, list.from + 1, last)
<1>1. list.from \in Nat /\ UserLimit \in Nat /\ Len(accounts) \in Nat /\ last \in Int /\ last <= Len(accounts)
  BY UsersIs, UserBounds DEF Seen
<1>2. \A i \in (list.from + 1)..last : accounts[i] \in Roles
  BY <1>1, UsersIs, ElementOfSeq
<1>3. items \in Seq(Roles) /\ Len(items) = IF list.from + 1 <= last THEN last - (list.from + 1) + 1 ELSE 0
  <2>1. list.from + 1 \in Int
    BY <1>1
  <2>. HIDE DEF last
  <2>. QED BY <1>1, <1>2, <2>1, SubSeqProperties
<1>4. items = <<>> \/ list.from + Len(items) <= Len(accounts)
  <2>1. CASE list.from + 1 <= last
    BY <1>1, <1>3, <2>1
  <2>2. CASE ~(list.from + 1 <= last)
    BY <1>1, <1>3, <2>2, EmptySeq
  <2>. QED BY <2>1, <2>2
<1>5. AccountPage(list) = [list EXCEPT !.items = items]
  BY DEF AccountPage
<1>. HIDE DEF items
<1>. QED BY <1>3, <1>4, <1>5 DEF Within, Seen

LEMMA ListUsersStep ==
    ASSUME UsersInv, CountUsers \/ ReadUsers
    PROVE  UsersInv'
<1>1. /\ fetch.pc # "none" /\ fetch' \in Fetches /\ fetch'.pc # "none"
      /\ fetch'.list.items = <<>> \/ Within(fetch'.list, Len(accounts))
      /\ UNCHANGED <<accounts, users, change, adrift>>
  <2>1. CASE CountUsers
    <3>1. Counted(Len(accounts)) \in Seen /\ Counted(Len(accounts)).items = <<>>
      BY UsersIs DEF Counted, Seen, UserPages
    <3>. QED BY <2>1, <3>1, UsersIs DEF CountUsers, Fetches
  <2>2. CASE ReadUsers
    <3>1. AccountPage(fetch.list) \in Seen /\ Within(AccountPage(fetch.list), Len(accounts))
      BY PagesAreWithin, UsersIs DEF Fetches
    <3>. QED BY <2>2, <3>1, UsersIs DEF ReadUsers, Fetches
  <2>. QED BY <2>1, <2>2
<1>2. OneAtATime' /\ OwedIsGated'
  BY <1>1, UsersIs DEF OneAtATime, OwedIsGated
<1>. QED BY <1>1, <1>2, UsersIs, UsersIsNext

\* The place of the last page.
LEMMA LastPages ==
    ASSUME NEW list \in Seen
    PROVE  (IF list.total = 0 THEN 0 ELSE ((list.total - 1) \div UserLimit) * UserLimit) \in Nat
<1>1. list.total \in Nat /\ UserLimit \in Nat /\ UserLimit > 0
  BY UserBounds DEF Seen
<1>2. CASE list.total # 0
  <2>1. list.total - 1 \in Nat
    BY <1>1, <1>2
  <2>2. PICK q : q = (list.total - 1) \div UserLimit
    OBVIOUS
  <2>3. q \in Nat
    BY <1>1, <2>1, <2>2
  <2>4. q * UserLimit \in Nat
    BY <1>1, <2>3
  <2>. QED BY <1>2, <2>2, <2>4
<1>. QED BY <1>2

LEMMA UsersArriveStep ==
    ASSUME UsersInv, UsersArrive
    PROVE  UsersInv'
<1>1. /\ fetch.pc = "read" /\ users.on /\ users.loading /\ change.pc \in {"idle", "reloading"}
      /\ change' \in Changes /\ change'.pc = "idle" /\ UNCHANGED <<accounts, adrift>>
  BY UsersIs DEF UsersArrive, OneAtATime, Changes
<1>2. CASE fetch.list.items = <<>> /\ users.offset > 0 /\ users.offset >= fetch.list.total
  <2>. DEFINE last == IF fetch.list.total = 0 THEN 0 ELSE ((fetch.list.total - 1) \div UserLimit) * UserLimit
  <2>1. last \in Nat
    BY LastPages, UsersIs DEF Fetches
  <2>2. /\ users' = [users EXCEPT !.data = NoneSeen, !.offset = last]
        /\ fetch' = NewFetch("initial")
    BY <1>2 DEF UsersArrive
  <2>. HIDE DEF last
  <2>3. /\ users' \in UserPages /\ users'.on /\ users'.data = NoneSeen /\ users'.pending = users.pending
        /\ users'.owed = users.owed /\ users'.gate = users.gate /\ users'.loading
    BY <1>1, <2>1, <2>2, UsersIs, UsersNothingYet DEF UserPages
  <2>4. fetch' \in Fetches /\ fetch'.pc # "none" /\ fetch'.list = NoneSeen
    BY <2>1, <2>2, UsersNothingYet DEF NewFetch, Fetches
  <2>5. OneAtATime' /\ OwedIsGated'
    BY <1>1, <2>3, UsersIs, UsersNothingYet DEF OneAtATime, OwedIsGated
  <2>. QED BY <1>1, <2>3, <2>4, <2>5, UsersIs, UsersIsNext, UsersNothingYet
<1>3. CASE ~(fetch.list.items = <<>> /\ users.offset > 0 /\ users.offset >= fetch.list.total)
  <2>1. PICK notice \in {"accepted", "latest", "none", users.notice} :
            users' = [users EXCEPT !.data = fetch.list, !.pending = NoTransition, !.gate = FALSE,
                                   !.loading = FALSE, !.owed = FALSE, !.notice = notice]
    BY <1>3 DEF UsersArrive
  <2>2. fetch' = NoFetch
    BY <1>3 DEF UsersArrive
  <2>3. /\ users' \in UserPages /\ users'.on /\ users'.data = fetch.list /\ users'.pending = NoTransition
        /\ ~users'.owed /\ ~users'.loading
    BY <1>1, <2>1, UsersIs, UsersNothingYet DEF UserPages, Fetches
  <2>4. OneAtATime' /\ OwedIsGated'
    BY <1>1, <2>3 DEF OneAtATime, OwedIsGated
  <2>. QED BY <1>1, <2>2, <2>3, <2>4, UsersIs, UsersIsNext, UsersNothingYet
<1>. QED BY <1>2, <1>3


\* A list request ends, and with it the reload that a role change waited for.
LEMMA FetchEnds ==
    ASSUME UsersInv, fetch.pc # "none", users' \in UserPages, users'.on, ~users'.loading, users'.data = users.data,
           users'.pending = users.pending, users'.owed = users.owed, users.gate => users'.gate,
           fetch' = NoFetch, change' = IF change.pc = "reloading" THEN [change EXCEPT !.pc = "idle"] ELSE change,
           UNCHANGED <<accounts, adrift>>
    PROVE  UsersInv'
<1>1. change' \in Changes /\ change'.pc = "idle"
  BY UsersIs DEF OneAtATime, Changes
<1>2. OneAtATime' /\ OwedIsGated'
  BY <1>1, UsersIs DEF OneAtATime, OwedIsGated
<1>. QED BY <1>1, <1>2, UsersIs, UsersIsNext, UsersNothingYet

LEMMA UsersFailStep ==
    ASSUME UsersInv, UsersFail
    PROVE  UsersInv'
<1>1. fetch.pc # "none" /\ users.on /\ UNCHANGED accounts
  BY UsersIs DEF UsersFail, OneAtATime
<1>2. PICK o \in Failures :
        CASE o = "401" -> UsersOff
          [] o = "403" -> fetch' = [fetch EXCEPT !.pc = "judged", !.list = NoneSeen] /\ UNCHANGED <<users, change, adrift>>
          [] OTHER -> /\ users' = [users EXCEPT !.error = TRUE, !.loading = FALSE,
                                                !.notice = IF fetch.reason = "post-mutation" THEN "accepted"
                                                           ELSE IF fetch.reason = "reconcile" THEN "latest" ELSE @]
                      /\ fetch' = NoFetch
                      /\ change' = IF change.pc = "reloading" THEN [change EXCEPT !.pc = "idle"] ELSE change
                      /\ UNCHANGED adrift
  BY DEF UsersFail
<1>3. CASE o = "401"
  BY <1>1, <1>2, <1>3, UsersOffStep
<1>4. CASE o = "403"
  <2>1. /\ fetch' \in Fetches /\ fetch'.pc = "judged" /\ fetch'.list = NoneSeen /\ UNCHANGED <<users, change, adrift>>
    BY <1>2, <1>4, UsersIs, UsersNothingYet DEF Fetches
  <2>2. OneAtATime' /\ OwedIsGated'
    BY <1>1, <2>1, UsersIs DEF OneAtATime, OwedIsGated
  <2>. QED BY <1>1, <2>1, <2>2, UsersIs, UsersIsNext, UsersNothingYet
<1>5. CASE o \notin {"401", "403"}
  <2>1. PICK notice \in {"accepted", "latest", users.notice} :
          users' = [users EXCEPT !.error = TRUE, !.loading = FALSE, !.notice = notice]
    BY <1>2, <1>5
  <2>2. /\ users' \in UserPages /\ users'.on /\ ~users'.loading /\ users'.data = users.data
        /\ users'.pending = users.pending /\ users'.owed = users.owed /\ users'.gate = users.gate
    BY <1>1, <2>1, UsersIs DEF UserPages
  <2>. QED BY <1>1, <1>2, <1>5, <2>2, FetchEnds
<1>. QED BY <1>3, <1>4, <1>5

LEMMA FetchDoubtEndsStep ==
    ASSUME UsersInv, FetchDoubtEnds
    PROVE  UsersInv'
<1>1. fetch.pc # "none" /\ users.on /\ UNCHANGED accounts
  BY UsersIs DEF FetchDoubtEnds, OneAtATime
<1>2. CASE UsersOff
  BY <1>1, <1>2, UsersOffStep
<1>3. CASE ~UsersOff
  <2>1. users' = [Gated(users) EXCEPT !.error = TRUE] \/ users' = [users EXCEPT !.loading = FALSE]
    BY <1>3 DEF FetchDoubtEnds
  <2>2. /\ users' \in UserPages /\ users'.on /\ ~users'.loading /\ users'.data = users.data
        /\ users'.pending = users.pending /\ users'.owed = users.owed /\ (users.gate => users'.gate)
    BY <1>1, <2>1, UsersIs DEF Gated, UserPages
  <2>3. /\ fetch' = NoFetch /\ change' = IF change.pc = "reloading" THEN [change EXCEPT !.pc = "idle"] ELSE change
        /\ UNCHANGED adrift
    BY <1>3 DEF FetchDoubtEnds
  <2>. QED BY <1>1, <2>2, <2>3, FetchEnds
<1>. QED BY <1>2, <1>3

LEMMA SelectTransitionStep ==
    ASSUME UsersInv, SelectTransition
    PROVE  UsersInv'
<1>1. PICK at \in Selectable :
        /\ users' = [users EXCEPT !.notice = "none",
                         !.pending = [who |-> at, from |-> users.data.items[at - users.data.from],
                                      to |-> TargetRole(users.data.items[at - users.data.from])]]
        /\ UNCHANGED <<accounts, fetch, change, adrift>>
  BY DEF SelectTransition
<1>2. users.on /\ change.pc = "idle" /\ ~users.gate /\ users.data.known /\ ~users.loading
  BY <1>1 DEF Selectable, ControlsDisabled, InFlight
<1>3. PICK i \in DOMAIN users.data.items : at = users.data.from + i /\ users.data.items[at - users.data.from] # "super_admin"
  BY <1>1, <1>2 DEF Selectable
<1>4. users.data \in Seen
  BY UsersIs DEF UserPages
<1>5. /\ Len(users.data.items) \in Nat /\ users.data.from \in Nat /\ i \in 1..Len(users.data.items) /\ users.data.items # <<>>
      /\ at - users.data.from = i /\ users.data.items[i] \in Roles
  BY <1>3, <1>4, LenProperties, ElementOfSeq, EmptySeq DEF Seen
<1>6. at \in 1..Len(accounts)
  BY <1>3, <1>5, UsersIs DEF ListsAreOfAccounts, Within
<1>. DEFINE role == users.data.items[i]
            move == [who |-> at, from |-> role, to |-> TargetRole(role)]
<1>7. move \in Transitions /\ Proper(move, Len(accounts)) /\ users' = [users EXCEPT !.notice = "none", !.pending = move]
  <2>1. role \in Ordinary /\ TargetRole(role) \in Ordinary
    BY <1>3, <1>5 DEF Roles, Ordinary, TargetRole
  <2>2. move \in Transitions
    <3>1. at \in Nat
      BY <1>3, <1>5
    <3>. QED BY <2>1, <3>1 DEF Transitions
  <2>3. Proper(move, Len(accounts))
    BY <1>6 DEF Proper
  <2>. QED BY <1>1, <1>5, <2>2, <2>3
<1>. HIDE DEF move
<1>8. /\ users' \in UserPages /\ users'.on /\ users'.loading = users.loading /\ users'.data = users.data
      /\ users'.pending = move /\ users'.owed = users.owed /\ users'.gate = users.gate
  BY <1>2, <1>7, UsersIs DEF UserPages
<1>9. OneAtATime' /\ OwedIsGated'
  BY <1>1, <1>2, <1>8, UsersIs DEF OneAtATime, OwedIsGated
<1>. QED BY <1>1, <1>2, <1>7, <1>8, <1>9, UsersIs, UsersIsNext

LEMMA CancelTransitionStep ==
    ASSUME UsersInv, CancelTransition
    PROVE  UsersInv'
<1>1. users.on /\ change.pc = "idle" /\ users' = [users EXCEPT !.pending = NoTransition] /\ UNCHANGED <<accounts, fetch, change, adrift>>
  BY DEF CancelTransition, InFlight
<1>2. /\ users' \in UserPages /\ users'.on /\ users'.loading = users.loading /\ users'.data = users.data
      /\ users'.pending = NoTransition /\ users'.owed = users.owed /\ users'.gate = users.gate
  BY <1>1, UsersIs, UsersNothingYet DEF UserPages
<1>3. OneAtATime' /\ OwedIsGated'
  BY <1>1, <1>2, UsersIs DEF OneAtATime, OwedIsGated
<1>. QED BY <1>1, <1>2, <1>3, UsersIs, UsersIsNext

LEMMA ConfirmTransitionStep ==
    ASSUME UsersInv, ConfirmTransition
    PROVE  UsersInv'
<1>1. /\ users.on /\ users.pending # NoTransition /\ fetch.pc = "none"
      /\ change' = [NoChange EXCEPT !.pc = "asked", !.move = users.pending]
      /\ users' = [users EXCEPT !.notice = "none"] /\ UNCHANGED <<accounts, fetch, adrift>>
  BY DEF ConfirmTransition, CanConfirm
<1>2. change' \in Changes /\ change'.move = users.pending
  BY <1>1, UsersIs, UsersNothingYet DEF Changes, UserPages
<1>3. /\ users' \in UserPages /\ users'.on /\ users'.loading = users.loading /\ users'.data = users.data
      /\ users'.pending = users.pending /\ users'.owed = users.owed /\ users'.gate = users.gate
  BY <1>1, UsersIs DEF UserPages
<1>4. OneAtATime' /\ OwedIsGated'
  BY <1>1, <1>3, UsersIs DEF OneAtATime, OwedIsGated
<1>. QED BY <1>1, <1>2, <1>3, <1>4, UsersIs, UsersIsNext

\* A change of an account's role leaves as many accounts.
LEMMA AccountsKeep ==
    ASSUME UsersInv, NEW at \in 1..Len(accounts), NEW role \in Roles
    PROVE  /\ [accounts EXCEPT ![at] = role] \in Seq(Roles) /\ Len([accounts EXCEPT ![at] = role]) = Len(accounts)
           /\ [accounts EXCEPT ![at] = role][at] = role
BY UsersIs, ExceptSeq

LEMMA ServeChangeStep ==
    ASSUME UsersInv, ServeChange
    PROVE  UsersInv'
<1>1. /\ change.pc = "asked" /\ accounts' = [accounts EXCEPT ![change.move.who] = change.move.to]
      /\ change' = [change EXCEPT !.done = TRUE] /\ UNCHANGED <<users, fetch, adrift>>
  BY DEF ServeChange
<1>2. change.move.who \in 1..Len(accounts) /\ change.move.to \in Roles
  BY <1>1, UsersIs DEF MovesAreOfAccounts, Proper, TargetRole, Roles, Ordinary
<1>3. accounts' \in Seq(Roles) /\ Len(accounts') = Len(accounts)
  BY <1>1, <1>2, AccountsKeep
<1>4. change' \in Changes /\ change'.pc = "asked" /\ change'.move = change.move
  BY <1>1, UsersIs DEF Changes
<1>5. OneAtATime' /\ OwedIsGated'
  BY <1>1, <1>4, UsersIs DEF OneAtATime, OwedIsGated
<1>. QED BY <1>1, <1>3, <1>4, <1>5, UsersIs, UsersIsNext


\* The gate closes, and the list is read in the same handler.
LEMMA ReloadingStep ==
    ASSUME UsersInv, change.pc = "asked", NEW reason \in {"post-mutation", "reconcile"},
           NEW notice \in {"accepted", "latest"}, Reloading(reason, notice), UNCHANGED accounts
    PROVE  UsersInv'
<1>1. /\ users' = [Fetching(Gated(users)) EXCEPT !.pending = NoTransition, !.notice = notice]
      /\ fetch' = NewFetch(reason) /\ change' = [change EXCEPT !.pc = "reloading"] /\ UNCHANGED adrift
  BY DEF Reloading
<1>2. users.on
  BY UsersIs DEF OneAtATime
<1>3. /\ users' \in UserPages /\ users'.on /\ users'.loading /\ users'.data = users.data
      /\ users'.pending = NoTransition /\ users'.gate
  <2>1. Gated(users) \in UserPages /\ Gated(users).on /\ Gated(users).gate /\ Gated(users).data = users.data
    BY <1>2, UsersIs DEF Gated, UserPages
  <2>. HIDE DEF Gated
  <2>. QED BY <1>1, <2>1, UsersNothingYet DEF Fetching, UserPages
<1>4. fetch' \in Fetches /\ fetch'.pc = "asked" /\ fetch'.list = NoneSeen
  BY <1>1, UsersNothingYet DEF NewFetch, Fetches
<1>5. change' \in Changes /\ change'.pc = "reloading"
  BY <1>1, UsersIs DEF Changes
<1>6. OneAtATime' /\ OwedIsGated'
  BY <1>3, <1>5 DEF OneAtATime, OwedIsGated
<1>. QED BY <1>1, <1>3, <1>4, <1>5, <1>6, UsersIs, UsersIsNext, UsersNothingYet

\* A role change ends with nothing more to wait for, the gate as it was or closed.
LEMMA ChangeEnds ==
    ASSUME UsersInv, change.pc \in {"asked", "judged"}, NEW p \in UserPages, p.on, p.data = users.data,
           p.loading = users.loading \/ ~p.loading,
           p.owed = users.owed \/ p.gate, users.gate => p.gate,
           users' = [p EXCEPT !.pending = NoTransition] \/ (users' = p /\ p.pending = users.pending),
           fetch' = fetch \/ fetch' = NoFetch, change' = [change EXCEPT !.pc = "idle"] \/ change' = [change EXCEPT !.pc = "judged"],
           adrift' \subseteq adrift \/ (change.pc = "asked" /\ adrift' \subseteq adrift \cup {change.move}),
           UNCHANGED accounts
    PROVE  UsersInv'
<1>1. /\ users.on /\ fetch.pc = "none" /\ ~users.loading /\ fetch' \in Fetches /\ fetch'.pc = "none"
      /\ fetch'.list = fetch.list \/ fetch'.list = NoneSeen
  BY UsersIs, UsersNothingYet DEF OneAtATime
<1>2. /\ users' \in UserPages /\ users'.on /\ users'.data = users.data /\ ~users'.loading
      /\ users'.pending = NoTransition \/ users'.pending = users.pending
      /\ users'.owed = p.owed /\ users'.gate = p.gate
  BY <1>1, UsersNothingYet DEF UserPages
<1>3. change' \in Changes /\ change'.pc \in {"idle", "judged"}
  BY UsersIs DEF Changes
<1>4. OneAtATime'
  BY <1>1, <1>2 DEF OneAtATime
<1>5. OwedIsGated'
  BY <1>1, <1>2, UsersIs DEF OwedIsGated
<1>6. adrift' \subseteq Transitions
  BY UsersIs DEF Changes
<1>. QED BY <1>1, <1>2, <1>3, <1>4, <1>5, <1>6, UsersIs, UsersIsNext, UsersNothingYet

LEMMA GatedIs ==
    ASSUME UsersInv
    PROVE  Gated(users) \in UserPages /\ Gated(users).on = users.on /\ Gated(users).gate /\ Gated(users).data = users.data
           /\ ~Gated(users).loading /\ Gated(users).owed = users.owed /\ Gated(users).pending = users.pending
BY UsersIs DEF Gated, UserPages

LEMMA ChangeFailsStep ==
    ASSUME UsersInv, ChangeFails
    PROVE  UsersInv'
<1>1. change.pc = "asked" /\ users.on /\ UNCHANGED accounts
  BY UsersIs DEF ChangeFails, OneAtATime
<1>2. PICK o \in Failures :
         CASE o = "401" -> UsersOff
           [] o = "403" -> /\ users' = [users EXCEPT !.pending = NoTransition]
                           /\ change' = [change EXCEPT !.pc = "judged"]
                           /\ UNCHANGED <<fetch, adrift>>
           [] o \in {"404", "409"} -> Reloading("reconcile", "latest")
           [] Ambiguous(o) -> /\ users' = [Gated(users) EXCEPT !.pending = NoTransition, !.notice = "uncertain",
                                                               !.owed = TRUE]
                              /\ fetch' = NoFetch
                              /\ change' = [change EXCEPT !.pc = "idle"]
                              /\ adrift' = IF change.done THEN adrift ELSE adrift \cup {change.move}
           [] OTHER -> /\ users' = [IF o = "422" THEN Gated(users) ELSE users EXCEPT
                                        !.pending = NoTransition, !.notice = "refused"]
                       /\ fetch' = IF o = "422" THEN NoFetch ELSE fetch
                       /\ change' = [change EXCEPT !.pc = "idle"]
                       /\ UNCHANGED adrift
  BY DEF ChangeFails
<1>3. ~Ambiguous("401") /\ ~Ambiguous("403") /\ ~Ambiguous("404") /\ ~Ambiguous("409")
  BY DEF Ambiguous
<1>4. CASE o = "401"
  BY <1>1, <1>2, <1>3, <1>4, UsersOffStep
<1>5. CASE o = "403"
  <2>1. /\ users' = [users EXCEPT !.pending = NoTransition] /\ change' = [change EXCEPT !.pc = "judged"]
        /\ UNCHANGED <<fetch, adrift>>
    BY <1>2, <1>3, <1>5
  <2>. QED BY <1>1, <2>1, UsersIs, ChangeEnds
<1>6. CASE o \in {"404", "409"}
  BY <1>1, <1>2, <1>3, <1>6, ReloadingStep
<1>7. CASE Ambiguous(o)
  <2>1. /\ users' = [Gated(users) EXCEPT !.pending = NoTransition, !.notice = "uncertain", !.owed = TRUE]
        /\ fetch' = NoFetch /\ change' = [change EXCEPT !.pc = "idle"]
        /\ adrift' = IF change.done THEN adrift ELSE adrift \cup {change.move}
    BY <1>2, <1>7 DEF Ambiguous
  <2>. DEFINE p == [Gated(users) EXCEPT !.notice = "uncertain", !.owed = TRUE]
  <2>2. users' = [p EXCEPT !.pending = NoTransition]
    BY <2>1, GatedIs DEF UserPages
  <2>3. p \in UserPages /\ p.on /\ p.data = users.data /\ ~p.loading /\ p.gate
    BY <1>1, GatedIs DEF UserPages
  <2>. HIDE DEF p
  <2>. QED BY <1>1, <2>1, <2>2, <2>3, ChangeEnds
<1>8. CASE o \notin {"401", "403", "404", "409"} /\ ~Ambiguous(o)
  <2>1. /\ users' = [IF o = "422" THEN Gated(users) ELSE users EXCEPT !.pending = NoTransition, !.notice = "refused"]
        /\ fetch' = NoFetch \/ fetch' = fetch
        /\ change' = [change EXCEPT !.pc = "idle"] /\ UNCHANGED adrift
    BY <1>2, <1>8
  <2>2. PICK q : q = IF o = "422" THEN Gated(users) ELSE users
    OBVIOUS
  <2>3. /\ q \in UserPages /\ q.on /\ q.data = users.data /\ (q.loading = users.loading \/ ~q.loading)
        /\ q.owed = users.owed /\ (users.gate => q.gate)
    BY <1>1, <2>2, GatedIs, UsersIs
  <2>. DEFINE p == [q EXCEPT !.notice = "refused"]
  <2>4. users' = [p EXCEPT !.pending = NoTransition]
    BY <2>1, <2>2, <2>3 DEF UserPages
  <2>5. /\ p \in UserPages /\ p.on /\ p.data = users.data /\ (p.loading = users.loading \/ ~p.loading)
        /\ p.owed = users.owed /\ (users.gate => p.gate)
    BY <2>3 DEF UserPages
  <2>. HIDE DEF p
  <2>. QED BY <1>1, <2>1, <2>4, <2>5, ChangeEnds
<1>. QED BY <1>4, <1>5, <1>6, <1>7, <1>8

LEMMA ChangeDoubtEndsStep ==
    ASSUME UsersInv, ChangeDoubtEnds
    PROVE  UsersInv'
<1>1. change.pc = "judged" /\ users.on /\ UNCHANGED accounts
  BY UsersIs DEF ChangeDoubtEnds, OneAtATime
<1>2. CASE UsersOff
  BY <1>1, <1>2, UsersOffStep
<1>3. CASE ~UsersOff
  <2>1. /\ users' = [Gated(users) EXCEPT !.notice = "refused"] \/ users' = users
        /\ change' = [change EXCEPT !.pc = "idle"] /\ UNCHANGED <<fetch, adrift>>
    BY <1>3 DEF ChangeDoubtEnds
  <2>2. PICK p : p = users'
    OBVIOUS
  <2>3. /\ p \in UserPages /\ p.on /\ p.data = users.data /\ (p.loading = users.loading \/ ~p.loading)
        /\ p.owed = users.owed /\ (users.gate => p.gate) /\ p.pending = users.pending
    BY <1>1, <2>1, <2>2, GatedIs, UsersIs DEF UserPages
  <2>. QED BY <1>1, <2>1, <2>2, <2>3, ChangeEnds
<1>. QED BY <1>2, <1>3

\* Requests nobody waits for, changes elsewhere and registrations leave the page alone.
LEMMA ServiceSteps ==
    ASSUME UsersInv, AdriftServed \/ ForeignChange \/ Register
    PROVE  UsersInv'
<1>1. UNCHANGED <<users, fetch, change>> /\ adrift' \subseteq adrift
  BY DEF AdriftServed, ForeignChange, Register
<1>2. accounts' \in Seq(Roles) /\ Len(accounts) <= Len(accounts')
  <2>1. CASE AdriftServed
    <3>1. PICK move \in adrift : accounts' = accounts \/ accounts' = [accounts EXCEPT ![move.who] = move.to]
      BY <2>1 DEF AdriftServed
    <3>2. move.who \in 1..Len(accounts) /\ move.to \in Roles
      BY UsersIs DEF MovesAreOfAccounts, Proper, TargetRole, Roles, Ordinary
    <3>. QED BY <3>1, <3>2, AccountsKeep, UsersIs
  <2>2. CASE ForeignChange
    <3>1. PICK at \in DOMAIN accounts : accounts' = [accounts EXCEPT ![at] = TargetRole(accounts[at])]
      BY <2>2 DEF ForeignChange
    <3>2. at \in 1..Len(accounts) /\ TargetRole(accounts[at]) \in Roles
      BY UsersIs DEF TargetRole, Roles, Ordinary
    <3>. QED BY <3>1, <3>2, AccountsKeep, UsersIs
  <2>3. CASE Register
    <3>1. "customer" \in Roles
      BY DEF Roles, Ordinary
    <3>. QED BY <2>3, <3>1, AppendProperties, UsersIs DEF Register
  <2>. QED BY <2>1, <2>2, <2>3
<1>3. OneAtATime' /\ OwedIsGated'
  BY <1>1, UsersIs DEF OneAtATime, OwedIsGated
<1>. QED BY <1>1, <1>2, <1>3, UsersIs, UsersIsNext

LEMMA UsersKeeps == UsersInv /\ [UsersNext]_usersVars => UsersInv'
<1>. SUFFICES ASSUME UsersInv, [UsersNext]_usersVars PROVE UsersInv'
  OBVIOUS
<1>1. CASE UsersLeave
  BY <1>1, UsersOffStep DEF UsersLeave
<1>2. CASE UsersVisit
  BY <1>2, UsersVisitStep
<1>3. CASE LoadUsers \/ ChangePage
  BY <1>3, LoadUsersStep, ChangePageStep
<1>4. CASE CountUsers \/ ReadUsers \/ UsersArrive
  BY <1>4, ListUsersStep, UsersArriveStep
<1>5. CASE UsersFail \/ FetchDoubtEnds
  BY <1>5, UsersFailStep, FetchDoubtEndsStep
<1>6. CASE SelectTransition \/ CancelTransition \/ ConfirmTransition
  BY <1>6, SelectTransitionStep, CancelTransitionStep, ConfirmTransitionStep
<1>7. CASE ServeChange
  BY <1>7, ServeChangeStep
<1>8. CASE ChangeArrives
  BY <1>8, ReloadingStep DEF ChangeArrives
<1>9. CASE ChangeFails \/ ChangeDoubtEnds
  BY <1>9, ChangeFailsStep, ChangeDoubtEndsStep
<1>10. CASE AdriftServed \/ ForeignChange \/ Register
  BY <1>10, ServiceSteps
<1>11. CASE UNCHANGED usersVars
  BY <1>11 DEF usersVars, UsersInv, UsersTypeOK, ListsAreOfAccounts, MovesAreOfAccounts, OneAtATime, OwedIsGated
<1>. QED BY <1>1, <1>2, <1>3, <1>4, <1>5, <1>6, <1>7, <1>8, <1>9, <1>10, <1>11 DEF UsersNext

\* The users page loads a list exactly while a request for one is in progress.
THEOREM UsersTypeCorrect == UsersSpec => []UsersTypeOK
<1>1. UsersInv => UsersTypeOK
  BY DEF UsersInv
<1>. QED BY <1>1, UsersStart, UsersKeeps, PTL DEF UsersSpec

\* The account's role is other than the target, and the target is the other of two.
LEMMA RoleAsConfirmed ==
    ASSUME UsersInv, [UsersNext]_usersVars, change.pc = "asked", change'.done, ~change.done
    PROVE  accounts[change.move.who] = change.move.from /\ accounts'[change.move.who] = change.move.to
<1>1. change \in Changes
  BY UsersIs
<1>2. \A pc : [change EXCEPT !.pc = pc].done = change.done
  BY <1>1 DEF Changes
<1>3. ServeChange
  <2>1. ~UsersOff
    BY UsersNothingYet DEF UsersOff
  <2>2. change' # change /\ \A pc : change' # [change EXCEPT !.pc = pc]
    BY <1>2
  <2>3. ~(UsersLeave \/ UsersVisit \/ LoadUsers \/ ChangePage \/ SelectTransition \/ CancelTransition
          \/ CountUsers \/ ReadUsers \/ AdriftServed \/ ForeignChange \/ Register \/ UNCHANGED usersVars)
    BY <2>1, <2>2 DEF UsersLeave, UsersVisit, LoadUsers, ChangePage, SelectTransition, CancelTransition,
                      CountUsers, ReadUsers, AdriftServed, ForeignChange, Register, usersVars
  <2>4. ~(UsersArrive \/ FetchDoubtEnds \/ ChangeArrives \/ ChangeDoubtEnds)
    BY <2>1, <2>2 DEF UsersArrive, FetchDoubtEnds, ChangeArrives, Reloading, ChangeDoubtEnds
  <2>5. ~ConfirmTransition
    BY UsersNothingYet DEF ConfirmTransition, CanConfirm, InFlight
  <2>6. ~UsersFail
    BY <2>1, <2>2 DEF UsersFail
  <2>7. ~ChangeFails
    BY <2>1, <2>2 DEF ChangeFails, Reloading
  <2>. QED BY <2>3, <2>4, <2>5, <2>6, <2>7 DEF UsersNext
<1>4. /\ Proper(change.move, Len(accounts)) /\ Effective(change.move)
      /\ accounts' = [accounts EXCEPT ![change.move.who] = change.move.to]
  BY <1>3, UsersIs DEF ServeChange, MovesAreOfAccounts
<1>5. change.move.who \in 1..Len(accounts) /\ accounts[change.move.who] \in Roles /\ change.move.from \in Ordinary
  BY <1>1, <1>4, UsersIs, ElementOfSeq DEF Proper, Changes, Transitions
<1>6. accounts[change.move.who] = change.move.from
  BY <1>4, <1>5 DEF Proper, Effective, TargetRole, Roles, Ordinary
<1>7. change.move.to \in Roles
  BY <1>4 DEF Proper, TargetRole, Roles, Ordinary
<1>. QED BY <1>4, <1>5, <1>6, <1>7, AccountsKeep

\* A committed role change goes from the role the administrator was shown to the confirmed one.
THEOREM RoleChangesAsConfirmedAlways == UsersSpec => RoleChangesAsConfirmed
<1>1. UsersInv /\ [UsersNext]_usersVars
        => [change.pc = "asked" /\ change'.done /\ ~change.done
              => accounts[change.move.who] = change.move.from /\ accounts'[change.move.who] = change.move.to]_usersVars
  BY RoleAsConfirmed
<1>. QED BY <1>1, UsersStart, UsersKeeps, PTL DEF UsersSpec, RoleChangesAsConfirmed

\* Only ConfirmTransition asks, and not through a closed gate.
LEMMA AsksWhenSettled ==
    ASSUME UsersInv, [UsersNext]_usersVars, change.pc = "idle", change'.pc = "asked"
    PROVE  ~users.owed
<1>1. change \in Changes
  BY UsersIs
<1>2. ConfirmTransition
  <2>1. ~UsersOff
    BY UsersNothingYet DEF UsersOff
  <2>2. ~(UsersLeave \/ UsersVisit \/ LoadUsers \/ ChangePage \/ SelectTransition \/ CancelTransition
          \/ CountUsers \/ ReadUsers \/ AdriftServed \/ ForeignChange \/ Register \/ UNCHANGED usersVars)
    BY <2>1 DEF UsersLeave, UsersVisit, LoadUsers, ChangePage, SelectTransition, CancelTransition,
                CountUsers, ReadUsers, AdriftServed, ForeignChange, Register, usersVars
  <2>3. ~(UsersArrive \/ FetchDoubtEnds \/ ServeChange \/ ChangeArrives \/ ChangeFails \/ ChangeDoubtEnds)
    BY <2>1 DEF UsersArrive, FetchDoubtEnds, ServeChange, ChangeArrives, ChangeFails, ChangeDoubtEnds
  <2>4. ~UsersFail
    BY <2>1 DEF UsersFail
  <2>. QED BY <2>2, <2>3, <2>4 DEF UsersNext
<1>. QED BY <1>2, UsersIs DEF ConfirmTransition, CanConfirm, OwedIsGated

\* No role change is asked for while an earlier one may have been made unseen.
THEOREM GateNeedsFreshListAlways == UsersSpec => GateNeedsFreshList
<1>1. UsersInv /\ [UsersNext]_usersVars => [change.pc = "idle" /\ change'.pc = "asked" => ~users.owed]_usersVars
  BY AsksWhenSettled
<1>. QED BY <1>1, UsersStart, UsersKeeps, PTL DEF UsersSpec, GateNeedsFreshList


-----------------------------------------------------------------------------
(* The menu page.                                                          *)

\* What a notice says is so, and stays so while a submission is served.
NoticeFollowsSave ==
    /\ page.notice = "saved" => save.done
    /\ page.notice = "refused" => ~save.done /\ save.pc # "asked"
    /\ save.pc \in {"listing", "counted", "listed"} => save.done

\* A form over one reading of its row differs from it only where it was typed into.
DraftIsTouched == ~editor.mixed => \A f \in Fields : editor.draft[f] # editor.base[f] => f \in editor.touched

MenuInv == MenuTypeOK /\ NoticeFollowsSave /\ DraftIsTouched

MenuPages == [on : BOOLEAN, offset : Nat, shown : {"loading", "error", "success"}, list : Lists,
              locked : BOOLEAN, notice : {"none", "saved", "refused", "uncertain"}, doubt : BOOLEAN]
Loads == [pc : {"none", "asked", "counted", "read"}, from : Nat, list : Lists]
Editors == [open : BOOLEAN, at : Nat, base : Row, draft : Row, touched : SUBSET Fields, mixed : BOOLEAN]
Forms == [at : Nat, row : Row]
ChoiceLists == [kind : {"idle", "loading", "success", "error"}, waiting : SUBSET Forms]
Saves == [pc : {"idle", "asked", "listing", "counted", "listed", "judged"}, at : Nat, patch : Patch,
          done : BOOLEAN, from : Nat, list : Lists]
Strays == [at : Nat, patch : Patch]

LEMMA PatchIs ==
    ASSUME NEW p, DOMAIN p \subseteq Fields, p \in [DOMAIN p -> Values]
    PROVE  p \in Patch
BY DEF Patch

LEMMA PatchHas ==
    ASSUME NEW p \in Patch, NEW f \in DOMAIN p
    PROVE  p[f] \in Values
BY DEF Patch

LEMMA NoPatchYet == <<>> \in Patch
<1>1. <<>> \in [1..0 -> Values] /\ 1..0 = {}
  <2>1. <<>> \in Seq(Values) /\ Len(<<>>) = 0
    BY EmptySeq
  <2>2. <<>> \in [1..Len(<<>>) -> Values]
    BY <2>1, LenProperties
  <2>. QED BY <2>1, <2>2
<1>. QED BY <1>1 DEF Patch

LEMMA MenuNothingYet ==
    /\ NoRow \in Row /\ NoList \in Lists
    /\ NoLoad \in Loads /\ \A from \in Nat : Asking(from) \in Loads
    /\ NewPage \in MenuPages /\ NewPage.notice = "none"
    /\ [NewPage EXCEPT !.on = FALSE] \in MenuPages /\ [NewPage EXCEPT !.on = FALSE].notice = "none"
    /\ Closed \in Editors /\ Closed.draft = Closed.base
    /\ NoChoices \in ChoiceLists
    /\ NoSave \in Saves /\ NoSave.pc = "idle" /\ ~NoSave.done
<1>1. NoRow \in Row
  <2>1. (CHOOSE v \in Values : TRUE) \in Values
    BY MenuBounds
  <2>. QED BY <2>1 DEF NoRow, Row
<1>2. NoList \in Lists
  BY EmptySeq DEF NoList, Lists
<1>3. NoLoad \in Loads /\ \A from \in Nat : Asking(from) \in Loads
  BY <1>2 DEF NoLoad, Loads, Asking
<1>4. NewPage \in MenuPages /\ NewPage.notice = "none"
  BY <1>2 DEF NewPage, MenuPages
<1>5. [NewPage EXCEPT !.on = FALSE] \in MenuPages /\ [NewPage EXCEPT !.on = FALSE].notice = "none"
  BY <1>4 DEF MenuPages
<1>6. Closed \in Editors /\ Closed.draft = Closed.base
  BY <1>1 DEF Closed, Editors
<1>7. NoChoices \in ChoiceLists
  BY DEF NoChoices, ChoiceLists
<1>8. NoSave \in Saves /\ NoSave.pc = "idle" /\ ~NoSave.done
  BY <1>2, NoPatchYet DEF NoSave, Saves
<1>. QED BY <1>1, <1>2, <1>3, <1>4, <1>5, <1>6, <1>7, <1>8

LEMMA MenuIs ==
    ASSUME MenuInv
    PROVE  /\ section \in {"category", "item"} /\ rows \in Seq(Row) /\ Len(rows) \in Nat
           /\ page \in MenuPages /\ load \in Loads /\ editor \in Editors /\ choices \in ChoiceLists /\ save \in Saves
           /\ stray \subseteq Strays /\ NoticeFollowsSave /\ DraftIsTouched
<1>1. rows \in Seq(Row)
  BY DEF MenuInv, MenuTypeOK
<1>2. Len(rows) \in Nat
  BY <1>1, LenProperties
<1>. QED BY <1>1, <1>2 DEF MenuInv, MenuTypeOK, MenuPages, Loads, Editors, ChoiceLists, Forms, Saves, Strays

LEMMA MenuIsNext ==
    ASSUME section' \in {"category", "item"}, rows' \in Seq(Row),
           page' \in MenuPages, load' \in Loads, editor' \in Editors, choices' \in ChoiceLists, save' \in Saves,
           stray' \subseteq Strays, NoticeFollowsSave', DraftIsTouched'
    PROVE  MenuInv'
BY DEF MenuInv, MenuTypeOK, MenuPages, Loads, Editors, ChoiceLists, Forms, Saves, Strays

LEMMA MenuStarts == MenuInit => MenuInv
<1>. SUFFICES ASSUME MenuInit PROVE MenuInv
  OBVIOUS
<1>1. rows \in Seq(Row)
  BY MenuNothingYet DEF MenuInit
<1>2. /\ page \in MenuPages /\ load \in Loads /\ editor \in Editors /\ choices \in ChoiceLists /\ save \in Saves /\ stray = {}
      /\ section \in {"category", "item"}
  BY MenuNothingYet DEF MenuInit
<1>3. NoticeFollowsSave /\ DraftIsTouched
  BY MenuNothingYet DEF MenuInit, NoticeFollowsSave, DraftIsTouched
<1>. QED BY <1>1, <1>2, <1>3 DEF MenuInv, MenuTypeOK, MenuPages, Loads, Editors, ChoiceLists, Forms, Saves

\* A mutation of the service gives rows again.
LEMMA AppliedRows ==
    ASSUME MenuInv, NEW at \in Nat, NEW patch \in Patch
    PROVE  Applied(at, patch) \in Seq(Row)
<1>1. ASSUME NEW r \in Row PROVE Over(patch, r) \in Row
  <2>1. \A f \in Fields : (IF f \in DOMAIN patch THEN patch[f] ELSE r[f]) \in Values
    BY <1>1, PatchHas DEF Row
  <2>. QED BY <2>1 DEF Over, Row
<1>2. CASE at = 0
  BY <1>1, <1>2, MenuIs, MenuNothingYet, AppendProperties DEF Applied
<1>3. CASE at # 0 /\ at \in 1..Len(rows)
  <2>1. rows[at] \in Row
    BY <1>3, MenuIs, ElementOfSeq
  <2>. QED BY <1>1, <1>3, <2>1, MenuIs, ExceptSeq DEF Applied
<1>4. CASE at # 0 /\ at \notin 1..Len(rows)
  <2>1. rows \in [1..Len(rows) -> Row] /\ DOMAIN rows = 1..Len(rows)
    BY MenuIs, LenProperties
  <2>2. [rows EXCEPT ![at] = Over(patch, rows[at])] = rows
    BY <1>4, <2>1
  <2>. QED BY <1>4, <2>2, MenuIs DEF Applied
<1>. QED BY <1>2, <1>3, <1>4

\* A page of the list, counted and then read.
LEMMA ListPageIs ==
    ASSUME MenuInv
    PROVE  /\ \A offset \in Nat : CountedFrom(offset) \in Lists
           /\ \A list \in Lists : WithRows(list) \in Lists
<1>1. ASSUME NEW offset \in Nat PROVE CountedFrom(offset) \in Lists
  BY MenuIs, EmptySeq DEF CountedFrom, Lists
<1>2. ASSUME NEW list \in Lists PROVE WithRows(list) \in Lists
  <2>. DEFINE last == Least(list.from + PageLimit, Len(rows))
  <2>1. /\ list.from \in Nat /\ PageLimit \in Nat /\ Len(rows) \in Nat /\ last \in Int /\ last <= Len(rows)
        /\ list.from + 1 \in Int /\ list.from + 1 >= 1
    BY MenuIs, MenuBounds DEF Least, Lists
  <2>2. WithRows(list) = [list EXCEPT !.items = SubSeq(rows, list.from + 1, last)]
    BY DEF WithRows
  <2>. HIDE DEF last
  <2>3. \A i \in (list.from + 1)..last : rows[i] \in Row
    BY <2>1, MenuIs, ElementOfSeq
  <2>4. SubSeq(rows, list.from + 1, last) \in Seq(Row)
    BY <2>1, <2>3, SubSeqProperties
  <2>. QED BY <2>2, <2>4 DEF Lists
<1>. QED BY <1>1, <1>2

\* The page is left, or its session ended.
LEMMA OffStep ==
    ASSUME MenuInv, Off, UNCHANGED <<section, rows>>
    PROVE  MenuInv'
<1>1. /\ page' \in MenuPages /\ page'.notice = "none" /\ load' \in Loads /\ editor' = Closed /\ editor' \in Editors
      /\ choices' \in ChoiceLists /\ save' \in Saves /\ save'.pc = "idle"
  BY MenuNothingYet DEF Off
<1>2. stray' \subseteq Strays
  <2>1. [at |-> save.at, patch |-> save.patch] \in Strays /\ stray \subseteq Strays
    BY MenuIs DEF Saves, Strays
  <2>. QED BY <2>1 DEF Off
<1>3. NoticeFollowsSave' /\ DraftIsTouched'
  BY <1>1, MenuNothingYet DEF NoticeFollowsSave, DraftIsTouched
<1>. QED BY <1>1, <1>2, <1>3, MenuIs, MenuIsNext

LEMMA LoadingIs ==
    ASSUME MenuInv
    PROVE  Loading(page) \in MenuPages /\ Loading(page).notice = "none"
BY MenuIs, MenuNothingYet DEF Loading, MenuPages

\* The list is loaded, shown or not; the form and its submission are left alone.
LEMMA ListStep ==
    ASSUME MenuInv, page' \in MenuPages, page'.notice \in {page.notice, "none"}, load' \in Loads,
           UNCHANGED <<section, rows, editor, choices, save, stray>>
    PROVE  MenuInv'
<1>1. NoticeFollowsSave' /\ DraftIsTouched'
  BY MenuIs DEF NoticeFollowsSave, DraftIsTouched
<1>. QED BY <1>1, MenuIs, MenuIsNext

LEMMA ControlsAre ==
    ASSUME NEW c \in Controls
    PROVE  \/ c = <<"load", 0>> \/ c = <<"edit", 0>>
           \/ \E i \in DOMAIN page.list.items : c = <<"edit", page.list.from + i>>
           \/ c = <<"turn", page.offset - PageLimit>> \/ c = <<"turn", page.offset + PageLimit>>
<1>1. c \in CategoryControls
  BY DEF Controls, ItemControls
<1>2. c \in ListControls \/ c = <<"load", 0>> \/ c = <<"edit", 0>>
  BY <1>1 DEF CategoryControls
<1>. QED BY <1>2 DEF ListControls

LEMMA ListSteps ==
    ASSUME MenuInv, MenuVisit \/ Reload \/ Turn \/ CountList \/ ReadList \/ ListArrives
    PROVE  MenuInv'
<1>1. CASE MenuVisit
  BY <1>1, ListStep, MenuNothingYet DEF MenuVisit
<1>2. CASE Reload
  <2>1. page.offset \in Nat
    BY MenuIs DEF MenuPages
  <2>. QED BY <1>2, <2>1, LoadingIs, ListStep, MenuNothingYet DEF Reload
<1>3. CASE Turn
  <2>1. PICK c \in Controls : /\ c[1] = "turn"
                              /\ page' = [Loading(page) EXCEPT !.offset = IF c[2] < 0 THEN 0 ELSE c[2]]
                              /\ load' = Asking(IF c[2] < 0 THEN 0 ELSE c[2])
                              /\ UNCHANGED <<section, rows, editor, choices, save, stray>>
    BY <1>3 DEF Turn
  <2>2. c[2] \in Int
    BY <2>1, ControlsAre, MenuIs, MenuBounds DEF MenuPages
  <2>3. PICK o : o = IF c[2] < 0 THEN 0 ELSE c[2]
    OBVIOUS
  <2>4. o \in Nat
    BY <2>2, <2>3
  <2>5. page' = [Loading(page) EXCEPT !.offset = o] /\ load' = Asking(o)
    BY <2>1, <2>3, Zenon
  <2>6. page' \in MenuPages /\ page'.notice = "none"
    BY <2>4, <2>5, LoadingIs DEF MenuPages
  <2>. QED BY <2>1, <2>4, <2>5, <2>6, ListStep, MenuNothingYet
<1>4. CASE CountList \/ ReadList
  <2>1. load' \in Loads
    <3>1. \A offset \in Nat : CountedFrom(offset) \in Lists
      BY ListPageIs
    <3>2. \A list \in Lists : WithRows(list) \in Lists
      BY ListPageIs
    <3>. QED BY <1>4, <3>1, <3>2, MenuIs DEF CountList, ReadList, Loads
  <2>. QED BY <1>4, <2>1, ListStep, MenuIs DEF CountList, ReadList
<1>5. CASE ListArrives
  <2>1. page' \in MenuPages /\ page'.notice = page.notice
    BY <1>5, MenuIs DEF ListArrives, Shown, MenuPages, Loads
  <2>. QED BY <1>5, <2>1, ListStep, MenuNothingYet DEF ListArrives
<1>. QED BY <1>1, <1>2, <1>3, <1>4, <1>5

LEMMA ListFailSteps ==
    ASSUME MenuInv, ListFails \/ DoubtEnds
    PROVE  MenuInv'
<1>1. UNCHANGED <<section, rows>>
  BY DEF ListFails, DoubtEnds
<1>2. CASE Off
  BY <1>1, <1>2, OffStep
<1>3. CASE ~Off
  <2>1. /\ \/ page' = [page EXCEPT !.doubt = TRUE] \/ page' = [page EXCEPT !.shown = "error", !.list = NoList]
           \/ page' = [page EXCEPT !.doubt = FALSE, !.shown = "error", !.list = NoList]
        /\ load' = NoLoad \/ load' = load
        /\ UNCHANGED <<editor, choices, save, stray>>
    <3>1. CASE ListFails
      BY <1>3, <3>1 DEF ListFails
    <3>2. CASE DoubtEnds
      BY <1>3, <3>2 DEF DoubtEnds
    <3>. QED BY <3>1, <3>2
  <2>2. page' \in MenuPages /\ page'.notice = page.notice
    BY <2>1, MenuIs, MenuNothingYet DEF MenuPages
  <2>. QED BY <1>1, <2>1, <2>2, ListStep, MenuIs, MenuNothingYet
<1>. QED BY <1>2, <1>3

\* The form changes, and at most takes the notice away.
LEMMA FormStep ==
    ASSUME MenuInv, page' \in MenuPages, page'.notice \in {page.notice, "none"}, editor' \in Editors, DraftIsTouched',
           choices' \in ChoiceLists, UNCHANGED <<section, rows, load, save, stray>>
    PROVE  MenuInv'
<1>1. NoticeFollowsSave'
  BY MenuIs DEF NoticeFollowsSave
<1>. QED BY <1>1, MenuIs, MenuIsNext

\* A form over a row, whether it was open on it before or not.
Drafted(e) == ~e.mixed => \A f \in Fields : e.draft[f] # e.base[f] => f \in e.touched

LEMMA OpenOnIs ==
    ASSUME NEW at \in Nat, NEW r \in Row
    PROVE  OpenOn(at, r) \in Editors /\ Drafted(OpenOn(at, r))
BY DEF OpenOn, Editors, Drafted

LEMMA ReopenedIs ==
    ASSUME MenuInv, NEW at \in Nat, NEW r \in Row
    PROVE  Reopened(at, r) \in Editors /\ Drafted(Reopened(at, r))
<1>1. CASE ~(FormShown /\ editor.at = at)
  BY <1>1, OpenOnIs DEF Reopened
<1>2. CASE FormShown /\ editor.at = at
  <2>. DEFINE w == editor.mixed \/ editor.base # r
  <2>1. Reopened(at, r) = [editor EXCEPT !.base = r, !.mixed = w]
    BY <1>2 DEF Reopened
  <2>2. w \in BOOLEAN /\ (~w => ~editor.mixed /\ editor.base = r)
    BY MenuIs DEF Editors
  <2>. HIDE DEF w
  <2>3. Reopened(at, r) \in Editors
    BY <2>1, <2>2, MenuIs DEF Editors
  <2>4. Drafted(Reopened(at, r))
    BY <2>1, <2>2, MenuIs DEF Editors, Drafted, DraftIsTouched
  <2>. QED BY <2>3, <2>4
<1>. QED BY <1>1, <1>2

LEMMA FormUnderIs ==
    ASSUME MenuInv, NEW kind
    PROVE  FormUnder(editor, kind) \in Editors /\ Drafted(FormUnder(editor, kind))
<1>1. editor.at \in Nat /\ editor.base \in Row /\ editor \in Editors /\ Drafted(editor)
  BY MenuIs DEF Editors, Drafted, DraftIsTouched
<1>. QED BY <1>1, OpenOnIs DEF FormUnder

LEMMA EditStep ==
    ASSUME MenuInv, Edit
    PROVE  MenuInv'
<1>. DEFINE rowAt(at) == IF at = 0 THEN NoRow ELSE page.list.items[at - page.list.from]
<1>1. PICK c \in Controls :
        /\ c[1] = "edit"
        /\ page' = IF page.locked THEN page ELSE [page EXCEPT !.notice = "none"]
        /\ IF section = "category" \/ choices.kind = "success"
           THEN editor' = Reopened(c[2], rowAt(c[2])) /\ UNCHANGED choices
           ELSE /\ choices' = [kind |-> "loading", waiting |-> {[at |-> c[2], row |-> rowAt(c[2])]}]
                /\ UNCHANGED editor
        /\ UNCHANGED <<section, rows, load, save, stray>>
  BY DEF Edit
<1>2. c[2] \in Nat /\ rowAt(c[2]) \in Row
  <2>1. page.list \in Lists
    BY MenuIs DEF MenuPages
  <2>2. page.list.from \in Nat /\ page.list.items \in Seq(Row) /\ DOMAIN page.list.items \subseteq Nat
    BY <2>1, LenProperties DEF Lists
  <2>3. CASE c = <<"edit", 0>>
    BY <2>3, MenuNothingYet
  <2>4. ASSUME NEW i \in DOMAIN page.list.items, c = <<"edit", page.list.from + i>> PROVE c[2] \in Nat /\ rowAt(c[2]) \in Row
    <3>1. c[2] = page.list.from + i /\ c[2] \in Nat /\ c[2] - page.list.from = i
      BY <2>2, <2>4
    <3>2. page.list.items[i] \in Row
      BY <2>2, ElementOfSeq, LenProperties
    <3>. QED BY <3>1, <3>2, MenuNothingYet
  <2>. QED BY <1>1, <2>3, <2>4, ControlsAre
<1>. HIDE DEF rowAt
<1>3. page' \in MenuPages /\ page'.notice \in {page.notice, "none"}
  BY <1>1, MenuIs DEF MenuPages
<1>4. editor' \in Editors /\ Drafted(editor') /\ choices' \in ChoiceLists
  <2>1. CASE section = "category" \/ choices.kind = "success"
    BY <1>1, <1>2, <2>1, ReopenedIs, MenuIs
  <2>2. CASE ~(section = "category" \/ choices.kind = "success")
    BY <1>1, <1>2, <2>2, MenuIs DEF ChoiceLists, Forms, Drafted, DraftIsTouched
  <2>. QED BY <2>1, <2>2
<1>5. DraftIsTouched'
  BY <1>4 DEF DraftIsTouched, Drafted
<1>. QED BY <1>1, <1>3, <1>4, <1>5, FormStep

LEMMA ChoicesSteps ==
    ASSUME MenuInv, ChoicesArrive \/ ChoicesFail \/ ChoicesChange
    PROVE  MenuInv'
<1>1. CASE ChoicesArrive
  <2>1. PICK form \in choices.waiting :
          choices' = [kind |-> "success", waiting |-> {}] /\ editor' = Reopened(form.at, form.row)
    BY <1>1 DEF ChoicesArrive
  <2>2. form.at \in Nat /\ form.row \in Row
    BY MenuIs DEF ChoiceLists, Forms
  <2>3. editor' \in Editors /\ Drafted(editor') /\ choices' \in ChoiceLists
    BY <2>1, <2>2, ReopenedIs DEF ChoiceLists
  <2>4. DraftIsTouched'
    BY <2>3 DEF DraftIsTouched, Drafted
  <2>. QED BY <1>1, <2>3, <2>4, FormStep, MenuIs DEF ChoicesArrive
<1>2. CASE ChoicesChange
  <2>1. editor' \in Editors /\ Drafted(editor') /\ choices' \in ChoiceLists
    BY <1>2, FormUnderIs, MenuIs DEF ChoicesChange, ChoiceLists
  <2>2. DraftIsTouched'
    BY <2>1 DEF DraftIsTouched, Drafted
  <2>. QED BY <1>2, <2>1, <2>2, FormStep, MenuIs DEF ChoicesChange
<1>3. CASE ChoicesFail /\ Off
  BY <1>3, OffStep DEF ChoicesFail
<1>4. CASE ChoicesFail /\ ~Off
  <2>1. choices' \in ChoiceLists /\ editor' = FormUnder(editor, "error")
        /\ UNCHANGED <<section, rows, page, load, save, stray>>
    BY <1>4 DEF ChoicesFail, ChoiceLists
  <2>2. editor' \in Editors /\ Drafted(editor')
    BY <2>1, FormUnderIs
  <2>3. DraftIsTouched'
    BY <2>2 DEF DraftIsTouched, Drafted
  <2>. QED BY <2>1, <2>2, <2>3, FormStep, MenuIs
<1>. QED BY <1>1, <1>2, <1>3, <1>4

LEMMA TypingSteps ==
    ASSUME MenuInv, Type \/ Cancel
    PROVE  MenuInv'
<1>1. CASE Type
  <2>1. PICK f \in Fields, v \in Values : editor' = [editor EXCEPT !.draft[f] = v, !.touched = @ \cup {f}]
    BY <1>1 DEF Type
  <2>2. editor' \in Editors /\ Drafted(editor')
    BY <2>1, MenuIs DEF Editors, Row, Drafted, DraftIsTouched
  <2>3. DraftIsTouched'
    BY <2>2 DEF DraftIsTouched, Drafted
  <2>. QED BY <1>1, <2>2, <2>3, FormStep, MenuIs DEF Type
<1>2. CASE Cancel
  <2>1. editor' = Closed /\ UNCHANGED <<section, rows, page, load, choices, save, stray>>
    BY <1>2 DEF Cancel
  <2>2. DraftIsTouched'
    BY <2>1, MenuNothingYet DEF DraftIsTouched
  <2>. QED BY <2>1, <2>2, FormStep, MenuIs, MenuNothingYet
<1>. QED BY <1>1, <1>2

\* Only the fields of the draft are sent.
LEMMA PayloadIs ==
    ASSUME MenuInv
    PROVE  Payload \in Patch
<1>1. \A f \in Fields : editor.draft[f] \in Values
  BY MenuIs DEF Editors, Row
<1>2. DOMAIN Payload \subseteq Fields /\ Payload \in [DOMAIN Payload -> Values]
  BY <1>1 DEF Payload
<1>. QED BY <1>2, PatchIs

LEMMA SubmitStep ==
    ASSUME MenuInv, Submit
    PROVE  MenuInv'
<1>1. /\ save' = [NoSave EXCEPT !.pc = "asked", !.at = editor.at, !.patch = Payload, !.from = page.offset]
      /\ page' = [page EXCEPT !.notice = "none"] /\ UNCHANGED <<section, rows, load, editor, choices, stray>>
  BY DEF Submit
<1>2. save' \in Saves /\ save'.pc = "asked"
  BY <1>1, PayloadIs, MenuIs, MenuNothingYet DEF Saves, Editors, MenuPages
<1>3. page' \in MenuPages /\ page'.notice = "none"
  BY <1>1, MenuIs DEF MenuPages
<1>4. NoticeFollowsSave' /\ DraftIsTouched'
  BY <1>1, <1>2, <1>3, MenuIs DEF NoticeFollowsSave, DraftIsTouched
<1>. QED BY <1>1, <1>2, <1>3, <1>4, MenuIs, MenuIsNext

LEMMA FinishedIs ==
    ASSUME MenuInv
    PROVE  Finished \in Saves /\ Finished.pc = "idle" /\ Finished.done = save.done
BY MenuIs, MenuNothingYet DEF Finished, Saves

\* The submission goes on, with what was committed committed.
LEMMA SaveStep ==
    ASSUME MenuInv, rows' \in Seq(Row), page' \in MenuPages, load' \in Loads, editor' \in Editors, DraftIsTouched',
           choices' \in ChoiceLists, save' \in Saves, stray' \subseteq Strays, UNCHANGED section, NoticeFollowsSave'
    PROVE  MenuInv'
BY MenuIs, MenuIsNext

LEMMA ServeSaveStep ==
    ASSUME MenuInv, ServeSave
    PROVE  MenuInv'
<1>1. /\ save.pc = "asked" /\ rows' = Applied(save.at, save.patch) /\ save' = [save EXCEPT !.done = TRUE]
      /\ UNCHANGED <<section, page, load, editor, choices, stray>>
  BY DEF ServeSave
<1>2. save' \in Saves /\ save'.done
  BY <1>1, MenuIs DEF Saves
<1>3. rows' \in Seq(Row)
  BY <1>1, AppliedRows, MenuIs DEF Saves
<1>4. NoticeFollowsSave' /\ DraftIsTouched'
  BY <1>1, <1>2, MenuIs DEF NoticeFollowsSave, DraftIsTouched
<1>. QED BY <1>1, <1>2, <1>3, <1>4, MenuIs, SaveStep

LEMMA SaveListSteps ==
    ASSUME MenuInv, SaveArrives \/ CountAfterSave \/ ReadAfterSave \/ ListAfterSaveArrives
    PROVE  MenuInv'
<1>1. CASE SaveArrives
  <2>1. /\ save.done /\ save' = [save EXCEPT !.pc = "listing", !.at = 0, !.patch = <<>>] /\ editor' = Closed
        /\ UNCHANGED <<section, rows, page, load, choices, stray>>
    BY <1>1 DEF SaveArrives
  <2>2. save' \in Saves /\ save'.done = save.done /\ save'.pc = "listing"
    BY <2>1, NoPatchYet, MenuIs DEF Saves
  <2>3. NoticeFollowsSave' /\ DraftIsTouched'
    BY <2>1, <2>2, MenuIs, MenuNothingYet DEF NoticeFollowsSave, DraftIsTouched
  <2>. QED BY <2>1, <2>2, <2>3, MenuIs, MenuNothingYet, SaveStep
<1>2. CASE CountAfterSave \/ ReadAfterSave
  <2>1. PICK pc \in {"counted", "listed"}, list \in Lists :
          /\ save.pc \in {"listing", "counted"} /\ save' = [save EXCEPT !.pc = pc, !.list = list]
          /\ UNCHANGED <<section, rows, page, load, editor, choices, stray>>
    <3>1. CountedFrom(save.from) \in Lists /\ WithRows(save.list) \in Lists
      BY ListPageIs, MenuIs DEF Saves
    <3>. QED BY <1>2, <3>1 DEF CountAfterSave, ReadAfterSave
  <2>2. save' \in Saves /\ save'.done = save.done /\ save'.pc = pc
    BY <2>1, MenuIs DEF Saves
  <2>3. NoticeFollowsSave' /\ DraftIsTouched'
    BY <2>1, <2>2, MenuIs DEF NoticeFollowsSave, DraftIsTouched
  <2>. QED BY <2>1, <2>2, <2>3, MenuIs, SaveStep
<1>3. CASE ListAfterSaveArrives
  <2>1. /\ save.pc = "listed" /\ page' = [Shown(page, save.list) EXCEPT !.notice = "saved"] /\ save' = Finished
        /\ UNCHANGED <<section, rows, load, editor, choices, stray>>
    BY <1>3 DEF ListAfterSaveArrives
  <2>2. page' \in MenuPages /\ page'.notice = "saved"
    <3>1. Shown(page, save.list) \in MenuPages
      BY MenuIs DEF Shown, MenuPages, Saves
    <3>. QED BY <2>1, <3>1 DEF MenuPages
  <2>3. NoticeFollowsSave' /\ DraftIsTouched'
    BY <2>1, <2>2, MenuIs, FinishedIs DEF NoticeFollowsSave, DraftIsTouched
  <2>. QED BY <2>1, <2>2, <2>3, MenuIs, FinishedIs, SaveStep
<1>. QED BY <1>1, <1>2, <1>3

\* A submission ends without its list, the page told what became of it.
LEMMA SaveEnds ==
    ASSUME MenuInv, NEW notice \in {"saved", "refused", "uncertain"},
           notice = "saved" => save.done, notice = "refused" => ~save.done,
           page' = [page EXCEPT !.notice = notice] \/ page' = [page EXCEPT !.locked = TRUE, !.notice = notice],
           save' = Finished, stray' \subseteq Strays, UNCHANGED <<section, rows, load, editor, choices>>
    PROVE  MenuInv'
<1>1. page' \in MenuPages /\ page'.notice = notice
  BY MenuIs DEF MenuPages
<1>2. NoticeFollowsSave' /\ DraftIsTouched'
  BY <1>1, MenuIs, FinishedIs DEF NoticeFollowsSave, DraftIsTouched
<1>. QED BY <1>1, <1>2, MenuIs, FinishedIs, SaveStep

LEMMA SaveJudged ==
    ASSUME MenuInv, save' = [save EXCEPT !.pc = "judged"], UNCHANGED <<section, rows, page, load, editor, choices, stray>>
    PROVE  MenuInv'
<1>1. save' \in Saves /\ save'.pc = "judged" /\ save'.done = save.done
  BY MenuIs DEF Saves
<1>2. NoticeFollowsSave' /\ DraftIsTouched'
  BY <1>1, MenuIs DEF NoticeFollowsSave, DraftIsTouched
<1>. QED BY <1>1, <1>2, MenuIs, SaveStep

LEMMA SaveFailsStep ==
    ASSUME MenuInv, SaveFails
    PROVE  MenuInv'
<1>1. PICK o \in Failures :
        /\ save.done => Ambiguous(o)
        /\ CASE o = "401" -> Off
             [] o = "403" -> save' = [save EXCEPT !.pc = "judged"] /\ UNCHANGED <<page, load, editor, choices, stray>>
             [] o = "404" -> /\ page' = Loading(page)
                             /\ load' = Asking(save.from)
                             /\ editor' = Closed
                             /\ choices' = [choices EXCEPT !.kind = "idle"]
                             /\ save' = Finished
                             /\ UNCHANGED stray
             [] Ambiguous(o) -> /\ page' = [page EXCEPT !.locked = TRUE, !.notice = "uncertain"]
                                /\ stray' = IF save.done THEN stray
                                            ELSE stray \cup {[at |-> save.at, patch |-> save.patch]}
                                /\ save' = Finished
                                /\ UNCHANGED <<load, editor, choices>>
             [] OTHER -> /\ page' = [page EXCEPT !.notice = "refused"]
                         /\ save' = Finished
                         /\ UNCHANGED <<load, editor, choices, stray>>
  BY DEF SaveFails
<1>2. UNCHANGED <<section, rows>>
  BY DEF SaveFails
<1>3. ~Ambiguous("401") /\ ~Ambiguous("403") /\ ~Ambiguous("404")
  BY DEF Ambiguous
<1>4. CASE o = "401"
  BY <1>1, <1>2, <1>3, <1>4, OffStep
<1>5. CASE o = "403"
  BY <1>1, <1>2, <1>3, <1>5, SaveJudged
<1>6. CASE o = "404"
  <2>1. /\ page' = Loading(page) /\ load' = Asking(save.from) /\ editor' = Closed /\ choices' = [choices EXCEPT !.kind = "idle"]
        /\ save' = Finished /\ UNCHANGED stray
    BY <1>1, <1>3, <1>6
  <2>4. choices' \in ChoiceLists
    BY <2>1, MenuIs DEF ChoiceLists
  <2>2. load' \in Loads
    BY <2>1, MenuIs, MenuNothingYet DEF Saves
  <2>3. NoticeFollowsSave' /\ DraftIsTouched'
    BY <2>1, LoadingIs, FinishedIs, MenuNothingYet DEF NoticeFollowsSave, DraftIsTouched
  <2>. QED BY <1>2, <2>1, <2>2, <2>3, <2>4, LoadingIs, FinishedIs, MenuIs, MenuNothingYet, SaveStep
<1>7. CASE Ambiguous(o)
  <2>1. /\ page' = [page EXCEPT !.locked = TRUE, !.notice = "uncertain"]
        /\ stray' = IF save.done THEN stray ELSE stray \cup {[at |-> save.at, patch |-> save.patch]}
        /\ save' = Finished /\ UNCHANGED <<load, editor, choices>>
    BY <1>1, <1>3, <1>7
  <2>2. stray' \subseteq Strays
    <3>1. [at |-> save.at, patch |-> save.patch] \in Strays /\ stray \subseteq Strays
      BY MenuIs DEF Saves, Strays
    <3>. QED BY <2>1, <3>1
  <2>. QED BY <1>2, <2>1, <2>2, SaveEnds
<1>8. CASE o \notin {"401", "403", "404"} /\ ~Ambiguous(o)
  <2>1. page' = [page EXCEPT !.notice = "refused"] /\ save' = Finished /\ UNCHANGED <<load, editor, choices, stray>>
    BY <1>1, <1>8
  <2>. QED BY <1>1, <1>2, <1>8, <2>1, SaveEnds, MenuIs
<1>. QED BY <1>4, <1>5, <1>6, <1>7, <1>8

LEMMA ListAfterSaveFailsStep ==
    ASSUME MenuInv, ListAfterSaveFails
    PROVE  MenuInv'
<1>1. save.done /\ UNCHANGED <<section, rows>>
  BY MenuIs DEF ListAfterSaveFails, NoticeFollowsSave
<1>2. CASE Off
  BY <1>1, <1>2, OffStep
<1>3. CASE save' = [save EXCEPT !.pc = "judged"] /\ UNCHANGED <<page, load, editor, choices, stray>>
  BY <1>1, <1>3, SaveJudged
<1>4. CASE page' = [page EXCEPT !.notice = "saved"] /\ save' = Finished /\ UNCHANGED <<load, editor, choices, stray>>
  BY <1>1, <1>4, SaveEnds, MenuIs
<1>. QED BY <1>2, <1>3, <1>4 DEF ListAfterSaveFails

LEMMA SaveDoubtEndsStep ==
    ASSUME MenuInv, SaveDoubtEnds
    PROVE  MenuInv'
<1>1. UNCHANGED <<section, rows>>
  BY DEF SaveDoubtEnds
<1>2. CASE Off
  BY <1>1, <1>2, OffStep
<1>3. CASE ~Off
  <2>1. PICK notice : notice = IF save.done THEN "saved" ELSE "refused"
    OBVIOUS
  <2>2. /\ page' = [page EXCEPT !.notice = notice] /\ save' = Finished /\ UNCHANGED <<load, editor, choices, stray>>
    BY <1>3, <2>1 DEF SaveDoubtEnds
  <2>. QED BY <1>1, <2>1, <2>2, SaveEnds, MenuIs
<1>. QED BY <1>2, <1>3

\* Requests nobody waits for, and other administrators, change rows only.
LEMMA RowsSteps ==
    ASSUME MenuInv, StrayServed \/ ChangeElsewhere
    PROVE  MenuInv'
<1>1. UNCHANGED <<section, page, load, editor, choices, save>> /\ stray' \subseteq stray
  BY DEF StrayServed, ChangeElsewhere
<1>2. rows' \in Seq(Row)
  <2>1. CASE StrayServed
    <3>1. PICK m \in stray : rows' = Applied(m.at, m.patch) \/ rows' = rows
      BY <2>1 DEF StrayServed
    <3>2. m.at \in Nat /\ m.patch \in Patch
      BY MenuIs DEF Strays
    <3>. QED BY <3>1, <3>2, AppliedRows, MenuIs
  <2>2. CASE ChangeElsewhere
    <3>1. ASSUME NEW at \in DOMAIN rows, NEW f \in Fields, NEW v \in Values
          PROVE  Applied(at, [g \in {f} |-> v]) \in Seq(Row)
      <4>1. [g \in {f} |-> v] \in Patch
        BY <3>1, PatchIs
      <4>2. at \in Nat
        BY <3>1, MenuIs, LenProperties
      <4>. QED BY <4>1, <4>2, AppliedRows
    <3>2. NoRow \in Patch
      BY MenuNothingYet, PatchIs DEF Row
    <3>3. Applied(0, NoRow) \in Seq(Row)
      BY <3>2, AppliedRows
    <3>. QED BY <2>2, <3>1, <3>3 DEF ChangeElsewhere
  <2>. QED BY <2>1, <2>2
<1>3. NoticeFollowsSave' /\ DraftIsTouched'
  BY <1>1, MenuIs DEF NoticeFollowsSave, DraftIsTouched
<1>. QED BY <1>1, <1>2, <1>3, MenuIs, SaveStep

LEMMA MenuKeeps == MenuInv /\ [MenuNext]_menuVars => MenuInv'
<1>. SUFFICES ASSUME MenuInv, [MenuNext]_menuVars PROVE MenuInv'
  OBVIOUS
<1>1. CASE MenuLeave
  BY <1>1, OffStep DEF MenuLeave
<1>2. CASE MenuVisit \/ Reload \/ Turn \/ CountList \/ ReadList \/ ListArrives
  BY <1>2, ListSteps
<1>3. CASE ListFails \/ DoubtEnds
  BY <1>3, ListFailSteps
<1>4. CASE Edit \/ Type \/ Cancel
  BY <1>4, EditStep, TypingSteps
<1>5. CASE ChoicesArrive \/ ChoicesFail \/ ChoicesChange
  BY <1>5, ChoicesSteps
<1>6. CASE Submit \/ ServeSave
  BY <1>6, SubmitStep, ServeSaveStep
<1>7. CASE SaveArrives \/ CountAfterSave \/ ReadAfterSave \/ ListAfterSaveArrives
  BY <1>7, SaveListSteps
<1>8. CASE SaveFails \/ ListAfterSaveFails \/ SaveDoubtEnds
  BY <1>8, SaveFailsStep, ListAfterSaveFailsStep, SaveDoubtEndsStep
<1>9. CASE StrayServed \/ ChangeElsewhere
  BY <1>9, RowsSteps
<1>10. CASE UNCHANGED menuVars
  BY <1>10 DEF menuVars, MenuInv, MenuTypeOK, NoticeFollowsSave, DraftIsTouched
<1>. QED BY <1>1, <1>2, <1>3, <1>4, <1>5, <1>6, <1>7, <1>8, <1>9, <1>10 DEF MenuNext, ByAdministrator, OfRequests

\* The menu page, its form, its submission and the rows have their types.
THEOREM MenuTypeCorrect == MenuSpec => []MenuTypeOK
<1>1. MenuInv => MenuTypeOK
  BY DEF MenuInv
<1>. QED BY <1>1, MenuStarts, MenuKeeps, PTL DEF MenuSpec

\* A menu notice says of the last submission what became of it.
THEOREM MenuNoticeIsTrueAlways == MenuSpec => []MenuNoticeIsTrue
<1>1. MenuInv => MenuNoticeIsTrue
  BY DEF MenuInv, NoticeFollowsSave, MenuNoticeIsTrue
<1>. QED BY <1>1, MenuStarts, MenuKeeps, PTL DEF MenuSpec

\* Only Submit asks, and of an old row it sends where draft and row differ.
LEMMA SendsWhatWasTyped ==
    ASSUME MenuInv, [MenuNext]_menuVars, save.pc = "idle", save'.pc = "asked", editor.at # 0, ~editor.mixed
    PROVE  DOMAIN save'.patch \subseteq editor.touched
<1>1. save \in Saves /\ Finished.pc = "idle"
  BY MenuIs, FinishedIs
<1>2. Submit
  <2>1. ~Off
    BY MenuNothingYet DEF Off
  <2>2. ~(MenuLeave \/ MenuVisit \/ Reload \/ Turn \/ Edit \/ Type \/ Cancel \/ CountList \/ ReadList \/ ListArrives
          \/ ChoicesArrive \/ ChoicesChange \/ StrayServed \/ ChangeElsewhere \/ UNCHANGED menuVars)
    BY <2>1 DEF MenuLeave, MenuVisit, Reload, Turn, Edit, Type, Cancel, CountList, ReadList, ListArrives,
                ChoicesArrive, ChoicesChange, StrayServed, ChangeElsewhere, menuVars
  <2>3. ~(ListFails \/ DoubtEnds \/ ChoicesFail)
    BY <2>1 DEF ListFails, DoubtEnds, ChoicesFail
  <2>4. ~(ServeSave \/ SaveArrives \/ SaveFails \/ CountAfterSave \/ ReadAfterSave \/ ListAfterSaveArrives
          \/ ListAfterSaveFails \/ SaveDoubtEnds)
    BY DEF ServeSave, SaveArrives, SaveFails, CountAfterSave, ReadAfterSave, ListAfterSaveArrives, ListAfterSaveFails, SaveDoubtEnds
  <2>. QED BY <2>2, <2>3, <2>4 DEF MenuNext, ByAdministrator, OfRequests
<1>3. save'.patch = Payload
  BY <1>2, MenuNothingYet DEF Submit, Saves
<1>4. DOMAIN Payload = {f \in Fields : editor.draft[f] # editor.base[f]}
  BY DEF Payload
<1>. QED BY <1>3, <1>4, MenuIs DEF DraftIsTouched

\* A PATCH sends only fields that were typed into, so long as the row under the form stayed.
THEOREM PatchIsDeliberateAlways == MenuSpec => PatchIsDeliberate
<1>1. MenuInv /\ [MenuNext]_menuVars
        => [save.pc = "idle" /\ save'.pc = "asked" /\ editor.at # 0 /\ ~editor.mixed
              => DOMAIN save'.patch \subseteq editor.touched]_menuVars
  BY SendsWhatWasTyped
<1>. QED BY <1>1, MenuStarts, MenuKeeps, PTL DEF MenuSpec, PatchIsDeliberate


-----------------------------------------------------------------------------
(* The pages that only read.                                               *)

\* Each load has an origin of its own, and none is of the page when no page is open.
OriginsApart ==
    /\ view.opened <= view.generation
    /\ \A b \in batches : b.origin <= view.generation /\ (view.page = "none" => b.origin # view.generation)
    /\ \A b, c \in batches : b.origin = c.origin => b = c

\* The open page shows as loading what its loads have asked for; no section is asked for by
\* two of them, and only the dashboard and the exports ask for part of the page.
OwnAreAwaited ==
    /\ \A b \in OwnBatches :
           /\ DOMAIN b.results \subseteq view.loading \cap Sections(view.page)
           /\ view.page \notin {"home", "exports"} => DOMAIN b.results = Sections(view.page)
    /\ \A b, c \in OwnBatches : DOMAIN b.results \cap DOMAIN c.results # {} => b = c

\* What was answered is of what was asked for and not of the future, and what the open page
\* is about to show is no older than what it shows.
AnswersAreOfTheirTime ==
    /\ \A s \in DOMAIN view.data : view.data[s].at <= sales /\ (view.data[s].known => view.data[s].context \in Contexts)
    /\ \A b \in batches : \A s \in DOMAIN b.results :
           b.results[s].kind = "data" =>
               /\ b.results[s].data.known /\ b.results[s].data.context = b.context
               /\ b.results[s].data.from = b.from /\ b.results[s].data.at <= sales
    /\ \A b \in OwnBatches : \A s \in DOMAIN b.results :
           b.results[s].kind = "data" => view.data[s].at <= b.results[s].data.at

\* A list page loads what its query and offset say; the analytics page loads section by
\* section only what it has applied, or when it has applied nothing.
ContextsInUse ==
    /\ view.page # "none" => view.query \in Contexts
    /\ \A b \in OwnBatches :
           /\ view.page \in ListPages => b.context = view.query /\ b.from = view.offset
           /\ view.page = "analytics" /\ ~b.atomic => view.applied \in {Nowhere, b.context}

ReadInv == ReadTypeOK /\ OriginsApart /\ OwnAreAwaited /\ AnswersAreOfTheirTime /\ ContextsInUse /\ FiguresMatchTheirContext

SectionAnswers == [kind : Results, data : SectionData]

LEMMA ReadIs ==
    ASSUME ReadInv
    PROVE  /\ sales \in Nat /\ sales <= MaxSales /\ view \in OpenPages(Sections(view.page))
           /\ DOMAIN view.data = Sections(view.page) /\ view.generation \in Nat /\ view.opened \in Nat
           /\ view.page \in ReadKinds \cup {"none"}
           /\ OriginsApart /\ OwnAreAwaited /\ AnswersAreOfTheirTime /\ ContextsInUse /\ FiguresMatchTheirContext
           /\ WaitsForSomething
BY ReadBounds DEF ReadInv, ReadTypeOK, OpenPages

LEMMA BatchIs ==
    ASSUME ReadInv, NEW b \in batches
    PROVE  /\ b \in Batches(DOMAIN b.results) /\ DOMAIN b.results \subseteq AllSections
           /\ b.origin \in Nat /\ b.context \in Contexts /\ b.from \in Nat /\ b.atomic \in BOOLEAN
           /\ b.results \in [DOMAIN b.results -> SectionAnswers]
<1>1. DOMAIN b.results \subseteq AllSections /\ b \in Batches(DOMAIN b.results)
  BY DEF ReadInv, ReadTypeOK
<1>. QED BY <1>1 DEF Batches, SectionAnswers

LEMMA OwnIs ==
    ASSUME ReadInv, NEW b \in OwnBatches
    PROVE  b \in batches /\ view.page # "none"
BY ReadIs DEF OwnBatches, Current, OriginsApart

LEMMA NothingIs ==
    /\ Nothing \in SectionData /\ ~Nothing.known /\ Nothing.at = 0
    /\ Unanswered \in SectionAnswers /\ Unanswered.kind = "unanswered"
BY DEF Nothing, SectionData, Unanswered, SectionAnswers, Results

LEMMA SectionsAre == \A name : Sections(name) \subseteq AllSections
BY DEF Sections, AllSections

LEMMA ClosedIs ==
    /\ ClosedView \in OpenPages(Sections("none")) /\ ClosedView.page = "none" /\ ClosedView.loading = {}
    /\ ClosedView.opened = 0 /\ ClosedView.generation = 0 /\ DOMAIN ClosedView.data = Sections("none")
    /\ ClosedView.data \in [Sections("none") -> SectionData]
    /\ \A s \in Sections("none") : ClosedView.data[s] = Nothing
<1>1. Sections("none") = {"rows"} /\ "none" \notin {"analytics", "orders", "account"}
  BY DEF Sections
<1>2. [s \in {"rows"} |-> Nothing] \in [Sections("none") -> SectionData]
  BY <1>1, NothingIs
<1>. QED BY <1>1, <1>2, NothingIs DEF ClosedView, OpenPages, AllSections

LEMMA ReadStarts == ReadInit => ReadInv
<1>. SUFFICES ASSUME ReadInit PROVE ReadInv
  OBVIOUS
<1>1. sales = 0 /\ view = ClosedView /\ batches = {}
  BY DEF ReadInit
<1>2. OwnBatches = {}
  BY <1>1 DEF OwnBatches
<1>3. ReadTypeOK
  <2>1. view \in OpenPages(Sections(view.page)) /\ view.loading = {}
    BY <1>1, ClosedIs, Zenon
  <2>. QED BY <1>1, <2>1, ReadBounds DEF ReadTypeOK, WaitsForSomething
<1>4. OriginsApart /\ OwnAreAwaited /\ ContextsInUse
  BY <1>1, <1>2, ClosedIs DEF OriginsApart, OwnAreAwaited, ContextsInUse
<1>5. AnswersAreOfTheirTime
  BY <1>1, <1>2, ClosedIs, NothingIs DEF AnswersAreOfTheirTime
<1>6. FiguresMatchTheirContext
  BY <1>1, ClosedIs DEF FiguresMatchTheirContext, ListPages
<1>. QED BY <1>3, <1>4, <1>5, <1>6 DEF ReadInv

\* The page is left, its loads superseded.
LEMMA ClosingStep ==
    ASSUME ReadInv, Closing, batches' \subseteq batches, UNCHANGED sales
    PROVE  ReadInv'
<1>1. view' = [ClosedView EXCEPT !.generation = view.generation + 1]
  BY DEF Closing
<1>2. /\ view'.page = "none" /\ view'.loading = {} /\ view'.opened = 0 /\ view'.generation = view.generation + 1
      /\ view' \in OpenPages(Sections("none")) /\ view'.data = ClosedView.data
  BY <1>1, ClosedIs, ReadIs DEF OpenPages
<1>3. \A b \in batches' : b.origin <= view.generation /\ b.origin \in Nat
  BY BatchIs, ReadIs DEF OriginsApart
<1>4. OwnBatches' = {}
  BY <1>2, <1>3, ReadIs DEF OwnBatches, Current
<1>5. ReadTypeOK'
  <2>1. WaitsForSomething'
    BY <1>2 DEF WaitsForSomething
  <2>. QED BY <1>2, <2>1, BatchIs, ReadIs DEF ReadTypeOK, ReadInv
<1>6. OriginsApart' /\ OwnAreAwaited' /\ ContextsInUse'
  BY <1>2, <1>3, <1>4, ReadIs DEF OriginsApart, OwnAreAwaited, ContextsInUse
<1>7. AnswersAreOfTheirTime'
  <2>1. \A s \in DOMAIN view'.data : view'.data[s] = Nothing
    BY <1>2, ClosedIs
  <2>. QED BY <1>4, <2>1, NothingIs, ReadIs DEF AnswersAreOfTheirTime
<1>8. FiguresMatchTheirContext'
  BY <1>2 DEF FiguresMatchTheirContext, ListPages
<1>. QED BY <1>5, <1>6, <1>7, <1>8 DEF ReadInv

\* A load begins on a page v: it takes the place of those before it, or on the exports page
\* joins them.
LEMMA StartStep ==
    ASSUME ReadInv, NEW v, v \in OpenPages(Sections(v.page)), NEW b, b \in Batches(DOMAIN b.results), Start(v, b),
           DOMAIN v.data = Sections(v.page),
           v.page # "none", v.query \in Contexts, v.generation = view.generation, v.opened <= view.generation,
           b.origin = view.generation + 1,
           DOMAIN b.results \subseteq Sections(v.page),
           v.page \notin {"home", "exports"} => DOMAIN b.results = Sections(v.page),
           \A s \in DOMAIN b.results : b.results[s] = Unanswered,
           v.page \in ListPages => b.context = v.query /\ b.from = v.offset,
           v.page = "analytics" /\ ~b.atomic => v.applied \in {Nowhere, b.context},
           \A s \in Sections(v.page) : v.data[s].at <= sales /\ (v.data[s].known => v.data[s].context \in Contexts),
           \/ v.page # "exports" /\ v.loading \subseteq DOMAIN b.results
           \/ /\ v.page = "exports" /\ view.page = "exports" /\ v.opened = view.opened /\ v.loading = view.loading
              /\ DOMAIN b.results \cap view.loading = {}
              /\ \A s \in view.loading : v.data[s] = view.data[s],
           v.page = "analytics" => \A s \in SalesSections : v.data[s].known => v.data[s].context = v.applied,
           v.page \in ListPages /\ v.data["rows"].known =>
               v.data["rows"].context = v.query /\ (v.data["rows"].from = v.offset \/ v.page = "account")
    PROVE  ReadInv'
<1>1. /\ view' = [v EXCEPT !.generation = b.origin, !.loading = v.loading \cup DOMAIN b.results]
      /\ batches' = batches \cup {b} /\ sales' = sales
  BY DEF Start
<1>2. DOMAIN b.results \subseteq AllSections /\ b.origin \in Nat
  BY SectionsAre, ReadIs
<1>3. /\ view'.page = v.page /\ view'.generation = b.origin /\ view'.opened = v.opened
      /\ view'.loading = v.loading \cup DOMAIN b.results /\ view'.data = v.data /\ view'.query = v.query
      /\ view'.offset = v.offset /\ view'.applied = v.applied
  BY <1>1 DEF OpenPages
<1>4. view' \in OpenPages(Sections(view'.page))
  <2>1. v.loading \cup DOMAIN b.results \in SUBSET Sections(v.page)
    BY DEF OpenPages
  <2>2. view' \in OpenPages(Sections(v.page))
    BY <1>1, <1>2, <2>1 DEF OpenPages
  <2>. QED BY <1>3, <2>2, Zenon
<1>5. \A c \in batches : c.origin \in Nat /\ c.origin <= view.generation /\ c.origin # b.origin
  BY BatchIs, ReadIs DEF OriginsApart
<1>6. \A c \in OwnBatches' : c = b \/ (v.page = "exports" /\ view.page = "exports" /\ v.opened = view.opened /\ c \in OwnBatches)
  BY <1>1, <1>3, <1>5 DEF OwnBatches, Current
<1>7. b \in OwnBatches'
  BY <1>1, <1>3, ReadIs DEF OwnBatches, Current, OpenPages
<1>8. v.page = "exports" => \A c \in OwnBatches : c \in OwnBatches' /\ DOMAIN c.results \subseteq view.loading /\ c \in batches
  BY <1>1, <1>3, ReadIs DEF OwnBatches, OwnAreAwaited
<1>9. ReadTypeOK'
  <2>1. \A c \in batches' : DOMAIN c.results \subseteq AllSections /\ c \in Batches(DOMAIN c.results)
    BY <1>1, <1>2, BatchIs
  <2>2. ASSUME NEW s \in view'.loading PROVE \E c \in OwnBatches' : s \in DOMAIN c.results
    <3>1. CASE s \in DOMAIN b.results
      BY <1>7, <3>1
    <3>2. CASE s \notin DOMAIN b.results
      <4>1. s \in view.loading /\ v.page = "exports"
        BY <1>3, <2>2, <3>2
      <4>2. PICK c \in OwnBatches : s \in DOMAIN c.results
        BY <4>1, ReadIs DEF WaitsForSomething
      <4>. QED BY <1>8, <4>1, <4>2
    <3>. QED BY <3>1, <3>2
  <2>3. WaitsForSomething'
    BY <2>2 DEF WaitsForSomething
  <2>4. sales' \in 0..MaxSales
    BY <1>1 DEF ReadInv, ReadTypeOK
  <2>. QED BY <1>4, <2>1, <2>3, <2>4 DEF ReadTypeOK
<1>10. OriginsApart'
  <2>1. view'.opened <= view'.generation /\ view'.page # "none"
    BY <1>3, ReadIs DEF OpenPages
  <2>2. \A c \in batches' : c.origin <= view'.generation
    BY <1>1, <1>3, <1>5, <1>2, ReadIs
  <2>3. \A c, e \in batches' : c.origin = e.origin => c = e
    BY <1>1, <1>5, ReadIs DEF OriginsApart
  <2>. QED BY <2>1, <2>2, <2>3 DEF OriginsApart
<1>11. OwnAreAwaited'
  <2>1. ASSUME NEW c \in OwnBatches'
        PROVE  /\ DOMAIN c.results \subseteq view'.loading \cap Sections(view'.page)
               /\ view'.page \notin {"home", "exports"} => DOMAIN c.results = Sections(view'.page)
    <3>1. CASE c = b
      BY <1>3, <3>1
    <3>2. CASE c # b
      BY <1>3, <1>6, <2>1, <3>2, ReadIs DEF OwnAreAwaited
    <3>. QED BY <3>1, <3>2
  <2>2. ASSUME NEW c \in OwnBatches', NEW e \in OwnBatches', DOMAIN c.results \cap DOMAIN e.results # {} PROVE c = e
    BY <1>6, <1>8, <2>2, ReadIs DEF OwnAreAwaited
  <2>. QED BY <2>1, <2>2 DEF OwnAreAwaited
<1>12. AnswersAreOfTheirTime'
  <2>1. \A s \in DOMAIN view'.data : view'.data[s].at <= sales' /\ (view'.data[s].known => view'.data[s].context \in Contexts)
    BY <1>1, <1>3
  <2>2. \A c \in batches' : \A s \in DOMAIN c.results : c.results[s].kind = "data" =>
            /\ c.results[s].data.known /\ c.results[s].data.context = c.context
            /\ c.results[s].data.from = c.from /\ c.results[s].data.at <= sales'
    BY <1>1, NothingIs, ReadIs DEF AnswersAreOfTheirTime
  <2>3. ASSUME NEW c \in OwnBatches', NEW s \in DOMAIN c.results, c.results[s].kind = "data"
        PROVE  view'.data[s].at <= c.results[s].data.at
    <3>1. c # b
      BY <2>3, NothingIs
    <3>2. c \in OwnBatches /\ s \in view.loading /\ v.page = "exports"
      BY <1>6, <1>8, <3>1
    <3>. QED BY <1>3, <2>3, <3>2, ReadIs DEF AnswersAreOfTheirTime
  <2>. QED BY <2>1, <2>2, <2>3 DEF AnswersAreOfTheirTime
<1>13. ContextsInUse'
  <2>1. view'.page # "none" /\ view'.query \in Contexts
    BY <1>3
  <2>2. ASSUME NEW c \in OwnBatches'
        PROVE  /\ view'.page \in ListPages => c.context = view'.query /\ c.from = view'.offset
               /\ view'.page = "analytics" /\ ~c.atomic => view'.applied \in {Nowhere, c.context}
    BY <1>3, <1>6 DEF ListPages
  <2>. QED BY <2>1, <2>2 DEF ContextsInUse
<1>14. FiguresMatchTheirContext'
  <2>1. view'.page \in ListPages => view'.loading # {}
    BY <1>3 DEF ListPages, Sections
  <2>. QED BY <1>3, <2>1 DEF FiguresMatchTheirContext, Rows, Waiting
<1>. QED BY <1>9, <1>10, <1>11, <1>12, <1>13, <1>14 DEF ReadInv

LEMMA LoadsOwnSections ==
    ASSUME ReadInv
    PROVE  view.loading \subseteq Sections(view.page)
BY ReadIs DEF WaitsForSomething, OwnAreAwaited

LEMMA OpenedIs ==
    ASSUME ReadInv, NEW name \in ReadKinds, NEW c \in Contexts, NEW v, v = Opened(name, c)
    PROVE  /\ v \in OpenPages(Sections(name)) /\ v.page = name /\ DOMAIN v.data = Sections(name)
           /\ v.generation = view.generation /\ v.opened = view.generation /\ v.query = c /\ v.offset = 0
           /\ v.applied = Nowhere /\ v.loading = {} /\ \A s \in Sections(name) : v.data[s] = Nothing
<1>. DEFINE none == [s \in Sections(name) |-> Nothing]
<1>1. none \in [Sections(name) -> SectionData] /\ \A s \in Sections(name) : none[s] = Nothing
  BY NothingIs
<1>2. Opened(name, c) =
        [ClosedView EXCEPT !.page = name, !.generation = view.generation, !.opened = view.generation,
                           !.draft = c, !.query = c, !.data = none]
  BY DEF Opened
<1>. HIDE DEF none
<1>3. ClosedView.applied = Nowhere /\ ClosedView.offset = 0 /\ ClosedView.errors = {}
  BY DEF ClosedView
<1>. QED BY <1>1, <1>2, <1>3, ClosedIs, ReadIs DEF OpenPages

LEMMA VisitPageStep ==
    ASSUME ReadInv, VisitPage
    PROVE  ReadInv'
<1>1. PICK name \in ReadKinds, c \in Contexts :
        IF name = "exports"
        THEN view' = Opened(name, c) /\ UNCHANGED <<sales, batches>>
        ELSE Start(Opened(name, c), NewBatch(c, 0, "initial", Sections(name), FALSE))
  BY DEF VisitPage
<1>2. view.page = "none"
  BY DEF VisitPage
<1>3. PICK v : v = Opened(name, c)
  OBVIOUS
<1>4. /\ v \in OpenPages(Sections(name)) /\ v.page = name /\ DOMAIN v.data = Sections(name)
      /\ v.generation = view.generation /\ v.opened = view.generation /\ v.query = c /\ v.offset = 0
      /\ v.applied = Nowhere /\ v.loading = {} /\ \A s \in Sections(name) : v.data[s] = Nothing
  BY <1>3, OpenedIs
<1>5. name # "none"
  BY DEF ReadKinds, ListPages
<1>6. CASE name = "exports"
  <2>1. view' = v /\ UNCHANGED <<sales, batches>>
    BY <1>1, <1>3, <1>6
  <2>2. OwnBatches' = {}
    BY <1>4, <1>6, <2>1, BatchIs, ReadIs DEF OwnBatches, OriginsApart
  <2>3. ReadTypeOK'
    BY <1>4, <2>1, BatchIs DEF ReadTypeOK, ReadInv, WaitsForSomething
  <2>4. OriginsApart' /\ OwnAreAwaited' /\ ContextsInUse'
    BY <1>4, <1>5, <2>1, <2>2, ReadIs DEF OriginsApart, OwnAreAwaited, ContextsInUse
  <2>5. AnswersAreOfTheirTime'
    <3>1. \A s \in DOMAIN view'.data : view'.data[s] = Nothing
      BY <1>4, <2>1
    <3>. QED BY <2>1, <2>2, <3>1, NothingIs, ReadIs DEF AnswersAreOfTheirTime
  <2>6. FiguresMatchTheirContext'
    BY <1>4, <1>6, <2>1 DEF FiguresMatchTheirContext, ListPages
  <2>. QED BY <2>3, <2>4, <2>5, <2>6 DEF ReadInv
<1>7. CASE name # "exports"
  <2>1. PICK b : b = NewBatch(c, 0, "initial", Sections(name), FALSE)
    OBVIOUS
  <2>2. /\ DOMAIN b.results = Sections(name) /\ b \in Batches(DOMAIN b.results) /\ b.origin = view.generation + 1
        /\ b.context = c /\ b.from = 0 /\ ~b.atomic /\ \A s \in Sections(name) : b.results[s] = Unanswered
    BY <2>1, NothingIs, ReadIs DEF NewBatch, Batches, SectionAnswers
  <2>3. Start(v, b)
    BY <1>1, <1>3, <1>7, <2>1
  <2>4. v.page = "analytics" => \A s \in SalesSections : ~v.data[s].known
    BY <1>4, NothingIs DEF Sections
  <2>5. v.page \in ListPages => ~v.data["rows"].known
    BY <1>4, NothingIs DEF Sections, ListPages
  <2>6. v \in OpenPages(Sections(v.page)) /\ DOMAIN v.data = Sections(v.page)
    BY <1>4, Zenon
  <2>7. \A s \in Sections(v.page) : v.data[s].at <= sales /\ ~v.data[s].known
    BY <1>4, NothingIs, ReadIs
  <2>. QED BY <1>4, <1>5, <1>7, <2>2, <2>3, <2>4, <2>5, <2>6, <2>7, ReadIs, StartStep
<1>. QED BY <1>6, <1>7

\* Another load of the page that is open, which keeps its sections or shows less of them.
LEMMA AnotherLoad ==
    ASSUME ReadInv, NEW v, NEW b, v \in OpenPages(Sections(view.page)), b \in Batches(DOMAIN b.results), Start(v, b),
           v.page = view.page, view.page # "none", v.opened = view.opened, v.generation = view.generation,
           v.query \in Contexts, b.origin = view.generation + 1,
           DOMAIN b.results \subseteq Sections(view.page),
           view.page \notin {"home", "exports"} => DOMAIN b.results = Sections(view.page),
           \A s \in DOMAIN b.results : b.results[s] = Unanswered,
           view.page \in ListPages => b.context = v.query /\ b.from = v.offset,
           view.page = "analytics" /\ ~b.atomic => v.applied \in {Nowhere, b.context},
           v.applied = view.applied, v.loading = view.loading,
           \A s \in Sections(view.page) :
               v.data[s] = view.data[s] \/ (v.data[s].at = 0 /\ ~v.data[s].known /\ s \notin view.loading)
                                        \/ (v.data[s].at = 0 /\ ~v.data[s].known /\ view.page # "exports"),
           \/ view.page # "exports" /\ view.loading \subseteq DOMAIN b.results
           \/ view.page = "exports" /\ DOMAIN b.results \cap view.loading = {},
           view.page \in ListPages /\ v.data["rows"].known =>
               v.data["rows"].context = v.query /\ (v.data["rows"].from = v.offset \/ view.page = "account")
    PROVE  ReadInv'
<1>1. v \in OpenPages(Sections(v.page)) /\ DOMAIN v.data = Sections(v.page) /\ v.page # "none"
  <2>1. DOMAIN v.data = Sections(view.page)
    BY DEF OpenPages
  <2>. QED BY <2>1, Zenon
<1>2. v.opened <= view.generation
  BY ReadIs DEF OriginsApart
<1>3. \A s \in Sections(v.page) : v.data[s].at <= sales /\ (v.data[s].known => v.data[s].context \in Contexts)
  <2>1. \A s \in Sections(view.page) : view.data[s].at <= sales /\ (view.data[s].known => view.data[s].context \in Contexts)
    BY ReadIs DEF AnswersAreOfTheirTime
  <2>. QED BY <2>1, ReadIs
<1>4. v.page = "analytics" => \A s \in SalesSections : v.data[s].known => v.data[s].context = v.applied
  <2>1. SalesSections = Sections("analytics")
    BY DEF Sections
  <2>. QED BY <2>1, ReadIs DEF FiguresMatchTheirContext
<1>5. \/ v.page # "exports" /\ v.loading \subseteq DOMAIN b.results
      \/ /\ v.page = "exports" /\ view.page = "exports" /\ v.opened = view.opened /\ v.loading = view.loading
         /\ DOMAIN b.results \cap view.loading = {}
         /\ \A s \in view.loading : v.data[s] = view.data[s]
  BY LoadsOwnSections
<1>. QED BY <1>1, <1>2, <1>3, <1>4, <1>5, StartStep

\* The list pages have one section and no dashboard.
LEMMA ListPagesAre ==
    \A name \in ListPages \cup {"account-order"} :
        /\ Sections(name) = {"rows"} /\ name \notin {"none", "analytics", "exports", "home"}
        /\ name \in ReadKinds
BY DEF ListPages, Sections, ReadKinds

LEMMA ChangeFilterStep ==
    ASSUME ReadInv, ChangeFilter
    PROVE  ReadInv'
<1>1. PICK c \in Contexts :
        Start([view EXCEPT !.query = c, !.offset = 0, !.data["rows"] = Nothing, !.errors = {}],
              NewBatch(c, 0, "replace", {"rows"}, FALSE))
  BY DEF ChangeFilter
<1>2. view.page = "orders" /\ Sections(view.page) = {"rows"}
  BY DEF ChangeFilter, Sections
<1>3. PICK v : v = [view EXCEPT !.query = c, !.offset = 0, !.data["rows"] = Nothing, !.errors = {}]
  OBVIOUS
<1>4. PICK b : b = NewBatch(c, 0, "replace", {"rows"}, FALSE)
  OBVIOUS
<1>5. /\ v \in OpenPages(Sections(view.page)) /\ v.page = view.page /\ v.opened = view.opened
      /\ v.generation = view.generation /\ v.query = c /\ v.offset = 0 /\ v.applied = view.applied
      /\ v.loading = view.loading /\ v.data["rows"] = Nothing
  BY <1>2, <1>3, ReadIs, NothingIs DEF OpenPages
<1>6. /\ DOMAIN b.results = {"rows"} /\ b \in Batches(DOMAIN b.results) /\ b.origin = view.generation + 1
      /\ b.context = c /\ b.from = 0 /\ \A s \in {"rows"} : b.results[s] = Unanswered
  BY <1>4, NothingIs, ReadIs DEF NewBatch, Batches, SectionAnswers
<1>7. Start(v, b)
  BY <1>1, <1>3, <1>4
<1>. QED BY <1>2, <1>5, <1>6, <1>7, NothingIs, LoadsOwnSections, AnotherLoad

\* The page of a list after "Previous" or "Next"; the last page of a customer's stays meanwhile.
LEMMA TurnPageStep ==
    ASSUME ReadInv, TurnPage
    PROVE  ReadInv'
<1>1. view.page \in ListPages /\ Sections(view.page) = {"rows"} /\ view.loading = {} /\ view.page # "exports" /\ view.page # "analytics"
  BY ListPagesAre DEF TurnPage, Waiting
<1>2. PICK o \in {view.offset - ReadLimit, view.offset + ReadLimit} :
        LET to == IF o < 0 THEN 0 ELSE o
        IN  Start([view EXCEPT !.offset = to, !.errors = {},
                               !.data["rows"] = IF view.page = "orders" THEN Nothing ELSE @],
                  NewBatch(view.query, to, "replace", {"rows"}, FALSE))
  BY DEF TurnPage
<1>3. PICK to : to = IF o < 0 THEN 0 ELSE o
  OBVIOUS
<1>4. to \in Nat /\ view.query \in Contexts
  BY <1>1, <1>3, ReadIs, ReadBounds, ListPagesAre DEF OpenPages, ContextsInUse
<1>5. PICK d : d = IF view.page = "orders" THEN Nothing ELSE view.data["rows"]
  OBVIOUS
<1>6. PICK v : v = [view EXCEPT !.offset = to, !.errors = {}, !.data["rows"] = d]
  OBVIOUS
<1>7. PICK b : b = NewBatch(view.query, to, "replace", {"rows"}, FALSE)
  OBVIOUS
<1>8. Start(v, b)
  BY <1>2, <1>3, <1>5, <1>6, <1>7, Zenon
<1>9. d \in SectionData /\ (d = Nothing \/ (d = view.data["rows"] /\ view.page = "account"))
  BY <1>1, <1>5, ReadIs, NothingIs DEF OpenPages, ListPages
<1>10. /\ v \in OpenPages(Sections(view.page)) /\ v.page = view.page /\ v.opened = view.opened
       /\ v.generation = view.generation /\ v.query = view.query /\ v.offset = to /\ v.applied = view.applied
       /\ v.loading = view.loading /\ v.data["rows"] = d
  BY <1>1, <1>4, <1>6, <1>9, ReadIs DEF OpenPages
<1>11. /\ DOMAIN b.results = {"rows"} /\ b \in Batches(DOMAIN b.results) /\ b.origin = view.generation + 1
       /\ b.context = view.query /\ b.from = to /\ \A s \in {"rows"} : b.results[s] = Unanswered
  BY <1>4, <1>7, NothingIs, ReadIs DEF NewBatch, Batches, SectionAnswers
<1>12. v.data["rows"].known => v.data["rows"].context = v.query /\ view.page = "account"
  BY <1>1, <1>9, <1>10, NothingIs, ReadIs DEF FiguresMatchTheirContext, Rows
<1>. QED BY <1>1, <1>4, <1>8, <1>9, <1>10, <1>11, <1>12, NothingIs, ReadIs, ListPagesAre, AnotherLoad

\* The same list or order again.
LEMMA SameListAgain ==
    ASSUME ReadInv, view.page \in ListPages \cup {"account-order"}, view.loading = {}, NEW errors \in SUBSET Sections(view.page),
           NEW mode \in {"refresh", "retry"},
           Start([view EXCEPT !.errors = errors], NewBatch(view.query, view.offset, mode, {"rows"}, FALSE))
    PROVE  ReadInv'
<1>1. Sections(view.page) = {"rows"} /\ view.page \notin {"none", "exports", "home", "analytics"}
  BY ListPagesAre
<1>2. view.query \in Contexts
  BY <1>1, ReadIs DEF ContextsInUse
<1>3. PICK v : v = [view EXCEPT !.errors = errors]
  OBVIOUS
<1>4. PICK b : b = NewBatch(view.query, view.offset, mode, {"rows"}, FALSE)
  OBVIOUS
<1>5. /\ v \in OpenPages(Sections(view.page)) /\ v.page = view.page /\ v.opened = view.opened
      /\ v.generation = view.generation /\ v.query = view.query /\ v.offset = view.offset /\ v.applied = view.applied
      /\ v.loading = view.loading /\ v.data = view.data
  BY <1>3, ReadIs DEF OpenPages
<1>6. /\ DOMAIN b.results = {"rows"} /\ b \in Batches(DOMAIN b.results) /\ b.origin = view.generation + 1
      /\ b.context = view.query /\ b.from = view.offset /\ \A s \in {"rows"} : b.results[s] = Unanswered
  BY <1>2, <1>4, NothingIs, ReadIs DEF NewBatch, Batches, SectionAnswers, OpenPages
<1>7. Start(v, b)
  BY <1>3, <1>4
<1>8. view.page \in ListPages /\ v.data["rows"].known =>
          v.data["rows"].context = v.query /\ (v.data["rows"].from = v.offset \/ view.page = "account")
  BY <1>5, ReadIs DEF FiguresMatchTheirContext, Rows
<1>. QED BY <1>1, <1>2, <1>5, <1>6, <1>7, <1>8, AnotherLoad

LEMMA ListAgainSteps ==
    ASSUME ReadInv, RefreshList \/ RetryList
    PROVE  ReadInv'
<1>1. CASE RefreshList
  BY <1>1, SameListAgain DEF RefreshList, Waiting, ListPages
<1>2. CASE RetryList
  <2>1. PICK errors : errors = IF view.page = "orders" THEN view.errors ELSE {}
    OBVIOUS
  <2>2. errors \in SUBSET Sections(view.page)
    BY <2>1, ReadIs DEF OpenPages
  <2>3. Start([view EXCEPT !.errors = errors], NewBatch(view.query, view.offset, "retry", {"rows"}, FALSE))
    BY <1>2, <2>1 DEF RetryList
  <2>. QED BY <1>2, <2>2, <2>3, SameListAgain DEF RetryList, Waiting
<1>. QED BY <1>1, <1>2

\* A report page asks again for some of its sections.
LEMMA ReportLoad ==
    ASSUME ReadInv, NEW v, v = view \/ v = [view EXCEPT !.notApplied = FALSE],
           view.page \in {"home", "analytics"}, view.loading = {}, NEW asked, asked \subseteq Sections(view.page),
           view.page = "analytics" => asked = Sections(view.page),
           NEW context \in Contexts, NEW mode \in {"retry", "apply", "refresh"}, NEW atomic \in BOOLEAN,
           view.page = "analytics" /\ ~atomic => view.applied \in {Nowhere, context},
           Start(v, NewBatch(context, 0, mode, asked, atomic))
    PROVE  ReadInv'
<1>1. view.page \notin ListPages \cup {"none", "exports"}
  BY DEF ListPages
<1>2. PICK b : b = NewBatch(context, 0, mode, asked, atomic)
  OBVIOUS
<1>3. /\ v \in OpenPages(Sections(view.page)) /\ v.page = view.page /\ v.opened = view.opened
      /\ v.generation = view.generation /\ v.query = view.query /\ v.applied = view.applied
      /\ v.loading = view.loading /\ v.data = view.data
  BY ReadIs DEF OpenPages
<1>4. /\ DOMAIN b.results = asked /\ b \in Batches(DOMAIN b.results) /\ b.origin = view.generation + 1
      /\ b.context = context /\ (b.atomic <=> atomic) /\ \A s \in asked : b.results[s] = Unanswered
  BY <1>2, NothingIs, ReadIs DEF NewBatch, Batches, SectionAnswers
<1>5. view.query \in Contexts
  BY <1>1, ReadIs DEF ContextsInUse
<1>6. Start(v, b)
  BY <1>2
<1>7. view.page = "analytics" /\ ~b.atomic => v.applied \in {Nowhere, b.context}
  BY <1>3, <1>4
<1>. QED BY <1>1, <1>3, <1>4, <1>5, <1>6, <1>7, AnotherLoad

LEMMA ReportSteps ==
    ASSUME ReadInv, RetrySection \/ ApplyFilters \/ RefreshReports
    PROVE  ReadInv'
<1>1. CASE RetrySection
  <2>1. view.page = "home" /\ view.loading = {}
    BY <1>1 DEF RetrySection, Waiting
  <2>2. PICK s \in view.errors : Start(view, NewBatch(view.query, 0, "retry", {s}, FALSE))
    BY <1>1 DEF RetrySection
  <2>3. view.query \in Contexts /\ {s} \subseteq Sections(view.page)
    BY <2>1, ReadIs DEF ContextsInUse, OpenPages
  <2>. QED BY <2>1, <2>2, <2>3, ReportLoad
<1>2. CASE ApplyFilters
  <2>1. view.page = "analytics" /\ view.loading = {} /\ SalesSections = Sections(view.page)
    BY <1>2 DEF ApplyFilters, Waiting, Sections
  <2>2. view.draft \in Contexts
    BY <1>2, ReadIs DEF ApplyFilters, OpenPages
  <2>. DEFINE atomic == view.applied # Nowhere /\ view.applied # view.draft
  <2>3. /\ Start([view EXCEPT !.notApplied = FALSE], NewBatch(view.draft, 0, "apply", SalesSections, atomic))
        /\ atomic \in BOOLEAN /\ (~atomic => view.applied \in {Nowhere, view.draft})
    BY <1>2 DEF ApplyFilters
  <2>. HIDE DEF atomic
  <2>. QED BY <2>1, <2>2, <2>3, ReportLoad
<1>3. CASE RefreshReports
  <2>1. view.page = "analytics" /\ view.loading = {} /\ SalesSections = Sections(view.page)
    BY <1>3 DEF RefreshReports, Waiting, Sections
  <2>2. view.applied \in Contexts
    BY <1>3, ReadIs DEF RefreshReports, OpenPages
  <2>3. Start([view EXCEPT !.notApplied = FALSE], NewBatch(view.applied, 0, "refresh", SalesSections, FALSE))
    BY <1>3 DEF RefreshReports
  <2>. QED BY <2>1, <2>2, <2>3, ReportLoad
<1>. QED BY <1>1, <1>2, <1>3

LEMMA StartExportStep ==
    ASSUME ReadInv, StartExport
    PROVE  ReadInv'
<1>1. view.page = "exports" /\ view.draft \in Contexts /\ Sections(view.page) = ExportKinds /\ view.page \notin ListPages
  BY ReadIs DEF StartExport, OpenPages, Sections, ListPages
<1>2. PICK k \in ExportKinds \ view.loading :
        Start([view EXCEPT !.errors = @ \ {k}, !.data[k] = [Nothing EXCEPT !.context = view.draft]],
              NewBatch(view.draft, 0, "export", {k}, FALSE))
  BY DEF StartExport
<1>3. PICK d : d = [Nothing EXCEPT !.context = view.draft]
  OBVIOUS
<1>4. d \in SectionData /\ ~d.known /\ d.at = 0
  BY <1>1, <1>3, NothingIs DEF SectionData
<1>5. PICK v : v = [view EXCEPT !.errors = view.errors \ {k}, !.data[k] = d]
  OBVIOUS
<1>6. PICK b : b = NewBatch(view.draft, 0, "export", {k}, FALSE)
  OBVIOUS
<1>7. Start(v, b)
  BY <1>2, <1>3, <1>5, <1>6
<1>8. /\ v \in OpenPages(Sections(view.page)) /\ v.page = view.page /\ v.opened = view.opened
      /\ v.generation = view.generation /\ v.query = view.query /\ v.applied = view.applied
      /\ v.loading = view.loading
      /\ \A s \in Sections(view.page) : v.data[s] = IF s = k THEN d ELSE view.data[s]
  BY <1>1, <1>4, <1>5, ReadIs DEF OpenPages
<1>9. /\ DOMAIN b.results = {k} /\ b \in Batches(DOMAIN b.results) /\ b.origin = view.generation + 1
      /\ \A s \in {k} : b.results[s] = Unanswered
  BY <1>1, <1>6, NothingIs, ReadIs DEF NewBatch, Batches, SectionAnswers
<1>10. view.query \in Contexts
  BY <1>1, ReadIs DEF ContextsInUse
<1>. QED BY <1>1, <1>2, <1>4, <1>7, <1>8, <1>9, <1>10, AnotherLoad

LEMMA TypeDraftStep ==
    ASSUME ReadInv, TypeDraft
    PROVE  ReadInv'
<1>1. PICK c \in Contexts \cup {Nowhere} : view' = [view EXCEPT !.draft = c] /\ UNCHANGED <<sales, batches>>
  BY DEF TypeDraft
<1>2. /\ view' \in OpenPages(Sections(view.page)) /\ view'.page = view.page /\ view'.opened = view.opened
      /\ view'.generation = view.generation /\ view'.query = view.query /\ view'.offset = view.offset
      /\ view'.applied = view.applied /\ view'.loading = view.loading /\ view'.errors = view.errors
      /\ view'.data = view.data
  BY <1>1, ReadIs DEF OpenPages
<1>3. OwnBatches' = OwnBatches
  BY <1>1, <1>2 DEF OwnBatches, Current
<1>4. ReadTypeOK'
  BY <1>1, <1>2, <1>3 DEF ReadInv, ReadTypeOK, WaitsForSomething
<1>5. OriginsApart' /\ OwnAreAwaited' /\ ContextsInUse' /\ AnswersAreOfTheirTime'
  BY <1>1, <1>2, <1>3, ReadIs DEF OriginsApart, OwnAreAwaited, ContextsInUse, AnswersAreOfTheirTime
<1>6. FiguresMatchTheirContext'
  BY <1>2, ReadIs DEF FiguresMatchTheirContext, Rows, Waiting
<1>. QED BY <1>4, <1>5, <1>6 DEF ReadInv

LEMMA SaleStep ==
    ASSUME ReadInv, Sale
    PROVE  ReadInv'
<1>1. sales' = sales + 1 /\ sales < MaxSales /\ UNCHANGED <<view, batches>>
  BY DEF Sale
<1>2. OwnBatches' = OwnBatches
  BY <1>1 DEF OwnBatches, Current
<1>3. ReadTypeOK'
  BY <1>1, <1>2, ReadIs, ReadBounds DEF ReadInv, ReadTypeOK, WaitsForSomething
<1>4. OriginsApart' /\ OwnAreAwaited' /\ ContextsInUse' /\ FiguresMatchTheirContext'
  BY <1>1, <1>2, ReadIs DEF OriginsApart, OwnAreAwaited, ContextsInUse, FiguresMatchTheirContext, Rows, Waiting
<1>5. AnswersAreOfTheirTime'
  <2>1. \A s \in DOMAIN view.data : view.data[s].at \in Nat
    BY ReadIs DEF OpenPages, SectionData
  <2>2. \A b \in batches : \A s \in DOMAIN b.results : b.results[s].data.at \in Nat
    BY BatchIs DEF SectionAnswers, SectionData
  <2>3. \A n \in Nat : n <= sales => n <= sales'
    BY <1>1, ReadIs
  <2>. QED BY <1>1, <1>2, <2>1, <2>2, <2>3, ReadIs DEF AnswersAreOfTheirTime
<1>. QED BY <1>3, <1>4, <1>5 DEF ReadInv

\* One load goes on: it is the same load, and what is newly answered is answered as of now.
LEMMA LoadGoesOn ==
    ASSUME ReadInv, NEW b \in batches, NEW e, e \in Batches(DOMAIN b.results), DOMAIN e.results = DOMAIN b.results,
           e.origin = b.origin, e.context = b.context, e.from = b.from, e.atomic = b.atomic,
           \A s \in DOMAIN b.results : e.results[s].kind = "data" =>
               e.results[s] = b.results[s]
               \/ /\ e.results[s].data.known /\ e.results[s].data.context = b.context
                  /\ e.results[s].data.from = b.from /\ e.results[s].data.at = sales,
           batches' = (batches \ {b}) \cup {e}, UNCHANGED <<sales, view>>
    PROVE  ReadInv'
<1>1. /\ \A c \in OwnBatches' : (c = e => b \in OwnBatches) /\ (c # e => c \in OwnBatches)
      /\ \A c \in OwnBatches : c # b => c \in OwnBatches'
      /\ b \in OwnBatches => e \in OwnBatches'
  BY DEF OwnBatches, Current
<1>2. \A c \in batches : c.origin = b.origin => c = b
  BY ReadIs DEF OriginsApart
<1>3. \A c \in OwnBatches' : c # e => c \in OwnBatches /\ c \in batches /\ c # b
  <2>1. \A c \in OwnBatches' : c \in batches'
    BY DEF OwnBatches
  <2>. QED BY <1>1, <2>1
<1>4. ReadTypeOK'
  <2>1. \A c \in batches' : DOMAIN c.results \subseteq AllSections /\ c \in Batches(DOMAIN c.results)
    <3>1. ASSUME NEW c \in batches' PROVE DOMAIN c.results \subseteq AllSections /\ c \in Batches(DOMAIN c.results)
      <4>1. CASE c = e
        <5>1. Batches(DOMAIN c.results) = Batches(DOMAIN b.results)
          BY <4>1
        <5>. QED BY <4>1, <5>1, BatchIs
      <4>2. CASE c \in batches
        BY <4>2, BatchIs
      <4>. QED BY <4>1, <4>2
    <3>. QED BY <3>1
  <2>2. WaitsForSomething'
    <3>1. ASSUME NEW s \in view.loading PROVE \E c \in OwnBatches' : s \in DOMAIN c.results
      <4>1. PICK c \in OwnBatches : s \in DOMAIN c.results
        BY <3>1, ReadIs DEF WaitsForSomething
      <4>. QED BY <1>1, <4>1
    <3>. QED BY <3>1 DEF WaitsForSomething
  <2>. QED BY <2>1, <2>2 DEF ReadInv, ReadTypeOK
<1>5. OriginsApart'
  BY <1>2, ReadIs DEF OriginsApart
<1>6. OwnAreAwaited'
  <2>1. ASSUME NEW c \in OwnBatches'
        PROVE  /\ DOMAIN c.results \subseteq view.loading \cap Sections(view.page)
               /\ view.page \notin {"home", "exports"} => DOMAIN c.results = Sections(view.page)
    BY <1>1, <2>1, ReadIs DEF OwnAreAwaited
  <2>2. ASSUME NEW c \in OwnBatches', NEW d \in OwnBatches', DOMAIN c.results \cap DOMAIN d.results # {} PROVE c = d
    <3>1. CASE c = e /\ d # e
      <4>1. b \in OwnBatches /\ d \in OwnBatches /\ d # b
        BY <1>1, <1>3, <2>2, <3>1
      <4>. QED BY <2>2, <3>1, <4>1, ReadIs DEF OwnAreAwaited
    <3>2. CASE d = e /\ c # e
      <4>1. b \in OwnBatches /\ c \in OwnBatches /\ c # b
        BY <1>1, <1>3, <2>2, <3>2
      <4>. QED BY <2>2, <3>2, <4>1, ReadIs DEF OwnAreAwaited
    <3>3. CASE c # e /\ d # e
      BY <1>3, <2>2, <3>3, ReadIs DEF OwnAreAwaited
    <3>. QED BY <3>1, <3>2, <3>3
  <2>. QED BY <2>1, <2>2 DEF OwnAreAwaited
<1>7. ContextsInUse'
  <2>1. ASSUME NEW c \in OwnBatches'
        PROVE  /\ view.page \in ListPages => c.context = view.query /\ c.from = view.offset
               /\ view.page = "analytics" /\ ~c.atomic => view.applied \in {Nowhere, c.context}
    BY <1>1, <2>1, ReadIs DEF ContextsInUse
  <2>. QED BY <2>1, ReadIs DEF ContextsInUse
<1>8. AnswersAreOfTheirTime'
  <2>1. ASSUME NEW c \in batches', NEW s \in DOMAIN c.results, c.results[s].kind = "data"
        PROVE  /\ c.results[s].data.known /\ c.results[s].data.context = c.context
               /\ c.results[s].data.from = c.from /\ c.results[s].data.at <= sales
    <3>1. CASE c \in batches
      BY <2>1, <3>1, ReadIs DEF AnswersAreOfTheirTime
    <3>2. CASE c = e
      <4>1. b.results[s].kind = "data" =>
              /\ b.results[s].data.known /\ b.results[s].data.context = b.context
              /\ b.results[s].data.from = b.from /\ b.results[s].data.at <= sales
        BY <2>1, <3>2, ReadIs DEF AnswersAreOfTheirTime
      <4>. QED BY <2>1, <3>2, <4>1, ReadIs
    <3>. QED BY <3>1, <3>2
  <2>2. ASSUME NEW c \in OwnBatches', NEW s \in DOMAIN c.results, c.results[s].kind = "data"
        PROVE  view.data[s].at <= c.results[s].data.at
    <3>1. CASE c # e
      BY <1>3, <2>2, <3>1, ReadIs DEF AnswersAreOfTheirTime
    <3>2. CASE c = e /\ e.results[s] = b.results[s]
      <4>1. b \in OwnBatches /\ s \in DOMAIN b.results
        BY <1>1, <2>2, <3>2, BatchIs
      <4>. QED BY <2>2, <3>2, <4>1, ReadIs DEF AnswersAreOfTheirTime
    <3>3. CASE c = e /\ e.results[s] # b.results[s]
      <4>1. e.results[s].data.at = sales /\ s \in DOMAIN b.results
        BY <2>2, <3>3
      <4>2. b \in OwnBatches
        BY <1>1, <2>2, <3>3
      <4>3. s \in DOMAIN view.data
        BY <4>1, <4>2, <3>3, ReadIs DEF OwnAreAwaited
      <4>. QED BY <3>3, <4>1, <4>3, ReadIs DEF AnswersAreOfTheirTime
    <3>. QED BY <3>1, <3>2, <3>3
  <2>. QED BY <2>1, <2>2, ReadIs DEF AnswersAreOfTheirTime
<1>9. FiguresMatchTheirContext'
  BY ReadIs DEF FiguresMatchTheirContext, Rows, Waiting
<1>. QED BY <1>4, <1>5, <1>6, <1>7, <1>8, <1>9 DEF ReadInv

LEMMA AnswerSectionStep ==
    ASSUME ReadInv, AnswerSection
    PROVE  ReadInv'
<1>1. PICK b \in batches, s \in AllSections, kind \in {"data"} \cup {AsResult(o) : o \in Failures} :
        /\ s \in DOMAIN b.results
        /\ batches' = (batches \ {b}) \cup
               {[b EXCEPT !.results[s] = [kind |-> kind,
                     data |-> IF kind = "data" THEN Answer(b.context, b.from) ELSE Nothing]]}
        /\ UNCHANGED <<sales, view>>
  BY DEF AnswerSection
<1>2. kind \in Results
  BY DEF AsResult, Results
<1>3. PICK d : d = IF kind = "data" THEN Answer(b.context, b.from) ELSE Nothing
  OBVIOUS
<1>4. /\ d \in SectionData
      /\ kind = "data" => d.known /\ d.context = b.context /\ d.from = b.from /\ d.at = sales
  BY <1>3, BatchIs, NothingIs, ReadIs DEF Answer, SectionData
<1>5. PICK e : e = [b EXCEPT !.results[s] = [kind |-> kind, data |-> d]]
  OBVIOUS
<1>6. [kind |-> kind, data |-> d] \in SectionAnswers
  BY <1>2, <1>4 DEF SectionAnswers
<1>7. /\ e \in Batches(DOMAIN b.results) /\ DOMAIN e.results = DOMAIN b.results
      /\ e.origin = b.origin /\ e.context = b.context /\ e.from = b.from /\ e.atomic = b.atomic
      /\ e.results[s] = [kind |-> kind, data |-> d]
      /\ \A t \in DOMAIN b.results : t # s => e.results[t] = b.results[t]
  BY <1>1, <1>5, <1>6, BatchIs DEF Batches, SectionAnswers
<1>8. batches' = (batches \ {b}) \cup {e}
  BY <1>1, <1>3, <1>5
<1>9. \A t \in DOMAIN b.results : e.results[t].kind = "data" =>
          e.results[t] = b.results[t]
          \/ /\ e.results[t].data.known /\ e.results[t].data.context = b.context
             /\ e.results[t].data.from = b.from /\ e.results[t].data.at = sales
  BY <1>4, <1>7
<1>. QED BY <1>1, <1>7, <1>8, <1>9, LoadGoesOn

\* A load ends: unheard, or with the open page showing what it brought.
LEMMA LoadEnds ==
    ASSUME ReadInv, NEW b \in batches, batches' = batches \ {b}, UNCHANGED sales,
           view' \in OpenPages(Sections(view.page)), view'.page = view.page, view'.opened = view.opened,
           view'.generation = view.generation, view'.query = view.query, view'.offset = view.offset,
           view'.loading \subseteq view.loading,
           \A s \in view.loading : s \in view'.loading \/ (b \in OwnBatches /\ s \in DOMAIN b.results)
                                   \/ (view.page = "analytics" /\ view'.loading = {} /\ b \in OwnBatches),
           b \in OwnBatches => view'.loading = {} \/ view'.loading \cap DOMAIN b.results = {},
           b \notin OwnBatches => view' = view,
           \A s \in Sections(view.page) :
               view'.data[s] = view.data[s] \/ (/\ b \in OwnBatches /\ s \in DOMAIN b.results /\ b.results[s].kind = "data"
                                                /\ view'.data[s] = b.results[s].data),
           FiguresMatchTheirContext'
    PROVE  ReadInv'
<1>1. OwnBatches' = OwnBatches \ {b}
  BY DEF OwnBatches, Current
<1>2. view.page \in ListPages \cup {"analytics", "account-order", "home"} /\ b \in OwnBatches => OwnBatches' = {}
  <2>1. view.page # "exports" => \A c, d \in OwnBatches : c = d
    BY ReadIs DEF OwnBatches, Current, OriginsApart
  <2>. QED BY <1>1, <2>1 DEF ListPages
<1>3. \A c \in OwnBatches' : c \in OwnBatches /\ c # b /\ c \in batches
  BY <1>1, OwnIs
<1>4. \A c \in OwnBatches' : b \in OwnBatches => DOMAIN c.results \cap DOMAIN b.results = {}
  BY <1>3, ReadIs DEF OwnAreAwaited
<1>5. \A c \in OwnBatches' : DOMAIN c.results \subseteq view'.loading
  <2>1. ASSUME NEW c \in OwnBatches', NEW s \in DOMAIN c.results PROVE s \in view'.loading
    <3>1. s \in view.loading
      BY <1>3, <2>1, ReadIs DEF OwnAreAwaited
    <3>2. b \in OwnBatches => s \notin DOMAIN b.results
      BY <1>4, <2>1
    <3>3. ~(view.page = "analytics" /\ b \in OwnBatches)
      BY <1>2, <2>1
    <3>. QED BY <3>1, <3>2, <3>3
  <2>. QED BY <2>1
<1>6. ReadTypeOK'
  <2>1. WaitsForSomething'
    <3>1. ASSUME NEW s \in view'.loading PROVE \E c \in OwnBatches' : s \in DOMAIN c.results
      <4>1. PICK c \in OwnBatches : s \in DOMAIN c.results
        BY <3>1, ReadIs DEF WaitsForSomething
      <4>2. c # b
        BY <3>1, <4>1
      <4>. QED BY <1>1, <4>1, <4>2
    <3>. QED BY <3>1 DEF WaitsForSomething
  <2>2. view' \in OpenPages(Sections(view'.page))
    OBVIOUS
  <2>. QED BY <2>1, <2>2 DEF ReadInv, ReadTypeOK
<1>7. OriginsApart'
  BY ReadIs DEF OriginsApart
<1>8. OwnAreAwaited'
  BY <1>3, <1>5, ReadIs DEF OwnAreAwaited
<1>9. DOMAIN view'.data = Sections(view.page)
  BY DEF OpenPages
<1>10. AnswersAreOfTheirTime'
  <2>1. ASSUME NEW s \in DOMAIN view'.data
        PROVE  view'.data[s].at <= sales /\ (view'.data[s].known => view'.data[s].context \in Contexts)
    <3>1. CASE view'.data[s] = view.data[s]
      BY <1>9, <2>1, <3>1, ReadIs DEF AnswersAreOfTheirTime
    <3>2. CASE view'.data[s] # view.data[s]
      <4>1. s \in DOMAIN b.results /\ b.results[s].kind = "data" /\ view'.data[s] = b.results[s].data
        BY <1>9, <2>1, <3>2
      <4>. QED BY <4>1, BatchIs, ReadIs DEF AnswersAreOfTheirTime
    <3>. QED BY <3>1, <3>2
  <2>2. ASSUME NEW c \in OwnBatches', NEW s \in DOMAIN c.results, c.results[s].kind = "data"
        PROVE  view'.data[s].at <= c.results[s].data.at
    <3>1. s \in Sections(view.page) /\ (b \in OwnBatches => s \notin DOMAIN b.results)
      BY <1>3, <1>4, <2>2, ReadIs DEF OwnAreAwaited
    <3>2. view'.data[s] = view.data[s]
      BY <3>1
    <3>. QED BY <1>3, <2>2, <3>2, ReadIs DEF AnswersAreOfTheirTime
  <2>3. \A c \in batches' : \A s \in DOMAIN c.results :
           c.results[s].kind = "data" =>
               /\ c.results[s].data.known /\ c.results[s].data.context = c.context
               /\ c.results[s].data.from = c.from /\ c.results[s].data.at <= sales
    BY ReadIs DEF AnswersAreOfTheirTime
  <2>. QED BY <2>1, <2>2, <2>3 DEF AnswersAreOfTheirTime
<1>11. ContextsInUse'
  <2>1. ASSUME NEW c \in OwnBatches'
        PROVE  /\ view'.page \in ListPages => c.context = view'.query /\ c.from = view'.offset
               /\ view'.page = "analytics" /\ ~c.atomic => view'.applied \in {Nowhere, c.context}
    <3>1. view.page = "analytics" => view'.applied = view.applied
      BY <1>2, <2>1
    <3>. QED BY <1>3, <2>1, <3>1, ReadIs DEF ContextsInUse
  <2>. QED BY <2>1, ReadIs DEF ContextsInUse
<1>. QED BY <1>6, <1>7, <1>8, <1>10, <1>11 DEF ReadInv

LEMMA DropSupersededStep ==
    ASSUME ReadInv, DropSuperseded
    PROVE  ReadInv'
<1>1. PICK b \in batches : b \notin OwnBatches /\ batches' = batches \ {b} /\ UNCHANGED <<sales, view>>
  BY DEF DropSuperseded
<1>2. FiguresMatchTheirContext'
  BY <1>1, ReadIs DEF FiguresMatchTheirContext, Rows, Waiting
<1>. QED BY <1>1, <1>2, ReadIs, LoadEnds

\* What the sections show when a load has ended with some of them failed.
LEMMA CompletedIs ==
    ASSUME ReadInv, NEW b \in OwnBatches, NEW v, v = Completed(b)
    PROVE  /\ v \in OpenPages(Sections(view.page)) /\ v.page = view.page /\ v.opened = view.opened
           /\ v.generation = view.generation /\ v.query = view.query /\ v.offset = view.offset
           /\ v.applied = view.applied /\ v.loading = view.loading \ DOMAIN b.results
           /\ v.errors = (view.errors \ DOMAIN b.results) \cup Failed(b)
           /\ \A s \in Sections(view.page) :
                 v.data[s] = IF s \in DOMAIN b.results /\ b.results[s].kind = "data" THEN b.results[s].data ELSE view.data[s]
<1>1. b \in batches /\ DOMAIN b.results \subseteq Sections(view.page)
  BY OwnIs, ReadIs DEF OwnAreAwaited
<1>2. \A s \in DOMAIN b.results : b.results[s].data \in SectionData
  BY <1>1, BatchIs DEF SectionAnswers
<1>. DEFINE data == [s \in DOMAIN view.data |->
                        IF s \in DOMAIN b.results \ Failed(b) THEN b.results[s].data ELSE view.data[s]]
<1>3. data \in [Sections(view.page) -> SectionData]
  BY <1>2, ReadIs DEF OpenPages
<1>4. \A s \in Sections(view.page) :
          data[s] = IF s \in DOMAIN b.results /\ b.results[s].kind = "data" THEN b.results[s].data ELSE view.data[s]
  BY ReadIs DEF Failed
<1>5. Failed(b) \subseteq DOMAIN b.results
  BY DEF Failed
<1>6. v = [view EXCEPT !.loading = view.loading \ DOMAIN b.results,
                       !.errors = (view.errors \ DOMAIN b.results) \cup Failed(b), !.data = data]
  BY DEF Completed
<1>. HIDE DEF data
<1>. QED BY <1>1, <1>3, <1>4, <1>5, <1>6, ReadIs DEF OpenPages

\* A load ends on a page that shows each section as it came: the dashboard, the exports,
\* the lists, an order.
LEMMA CompletedStep ==
    ASSUME ReadInv, NEW b \in OwnBatches, view.page # "analytics",
           view' = Completed(b) \/ (view.page = "account-order" /\ \E g \in BOOLEAN : view' = [Completed(b) EXCEPT !.gone = g]),
           batches' = batches \ {b}, UNCHANGED sales
    PROVE  ReadInv'
<1>1. PICK v : v = Completed(b)
  OBVIOUS
<1>2. /\ v \in OpenPages(Sections(view.page)) /\ v.page = view.page /\ v.opened = view.opened
      /\ v.generation = view.generation /\ v.query = view.query /\ v.offset = view.offset
      /\ v.loading = view.loading \ DOMAIN b.results
      /\ v.errors = (view.errors \ DOMAIN b.results) \cup Failed(b)
      /\ \A s \in Sections(view.page) :
            v.data[s] = IF s \in DOMAIN b.results /\ b.results[s].kind = "data" THEN b.results[s].data ELSE view.data[s]
  BY <1>1, CompletedIs
<1>3. /\ view' \in OpenPages(Sections(view.page)) /\ view'.page = view.page /\ view'.opened = view.opened
      /\ view'.generation = view.generation /\ view'.query = view.query /\ view'.offset = view.offset
      /\ view'.loading = v.loading /\ view'.errors = v.errors /\ view'.data = v.data
  <2>1. CASE view' = v
    BY <1>2, <2>1
  <2>2. CASE \E g \in BOOLEAN : view' = [v EXCEPT !.gone = g]
    BY <1>2, <2>2 DEF OpenPages
  <2>. QED BY <1>1, <2>1, <2>2
<1>4. FiguresMatchTheirContext'
  <2>. SUFFICES ASSUME view.page \in ListPages, view'.data["rows"].known
                PROVE  /\ view'.data["rows"].context = view.query
                       /\ \/ view'.data["rows"].from = view.offset
                          \/ view.page = "account" /\ view'.errors # {}
    BY <1>3 DEF FiguresMatchTheirContext, Rows
  <2>1. Sections(view.page) = {"rows"} /\ DOMAIN b.results = {"rows"}
    BY ListPagesAre, ReadIs DEF OwnAreAwaited
  <2>2. b.context = view.query /\ b.from = view.offset /\ b \in batches
    BY OwnIs, ReadIs DEF ContextsInUse
  <2>3. CASE b.results["rows"].kind = "data"
    <3>1. view'.data["rows"] = b.results["rows"].data
      BY <1>2, <1>3, <2>1, <2>3
    <3>. QED BY <2>1, <2>2, <2>3, <3>1, ReadIs DEF AnswersAreOfTheirTime
  <2>4. CASE b.results["rows"].kind # "data"
    <3>1. view'.data["rows"] = view.data["rows"]
      BY <1>2, <1>3, <2>1, <2>4
    <3>2. "rows" \in view'.errors
      BY <1>2, <1>3, <2>1, <2>4 DEF Failed
    <3>. QED BY <3>1, <3>2, ReadIs DEF FiguresMatchTheirContext, Rows
  <2>. QED BY <2>3, <2>4
<1>5. b \in batches
  BY OwnIs
<1>. QED BY <1>2, <1>3, <1>4, <1>5, LoadEnds

\* A load ends on the analytics page: section by section, or all of it or nothing.
LEMMA AnalyticsStep ==
    ASSUME ReadInv, NEW b \in OwnBatches, view.page = "analytics", view' = AnalyticsAfter(b),
           batches' = batches \ {b}, UNCHANGED sales
    PROVE  ReadInv'
<1>1. Sections(view.page) = SalesSections /\ DOMAIN b.results = SalesSections /\ b \in batches /\ view.page \notin ListPages
  BY OwnIs, ReadIs DEF Sections, OwnAreAwaited, ListPages
<1>2. b.context \in Contexts /\ Nowhere \notin Contexts
  BY <1>1, BatchIs, ReadBounds
<1>3. CASE b.atomic /\ ~AllData(b)
  <2>1. view' = [view EXCEPT !.loading = {}, !.errors = view.errors \cup Failed(b), !.notApplied = TRUE]
    BY <1>3 DEF AnalyticsAfter, Preserved
  <2>2. Failed(b) \subseteq Sections(view.page)
    BY <1>1 DEF Failed
  <2>3. /\ view' \in OpenPages(Sections(view.page)) /\ view'.page = view.page /\ view'.opened = view.opened
        /\ view'.generation = view.generation /\ view'.query = view.query /\ view'.offset = view.offset
        /\ view'.loading = {} /\ view'.applied = view.applied /\ view'.data = view.data
    BY <2>1, <2>2, ReadIs DEF OpenPages
  <2>4. FiguresMatchTheirContext'
    BY <1>1, <2>3, ReadIs DEF FiguresMatchTheirContext
  <2>. QED BY <1>1, <2>3, <2>4, LoadEnds
<1>4. CASE ~(b.atomic /\ ~AllData(b))
  <2>1. PICK v : v = Completed(b)
    OBVIOUS
  <2>2. /\ v \in OpenPages(Sections(view.page)) /\ v.page = view.page /\ v.opened = view.opened
        /\ v.generation = view.generation /\ v.query = view.query /\ v.offset = view.offset
        /\ v.applied = view.applied /\ v.loading = view.loading \ DOMAIN b.results
        /\ \A s \in Sections(view.page) :
              v.data[s] = IF s \in DOMAIN b.results /\ b.results[s].kind = "data" THEN b.results[s].data ELSE view.data[s]
    BY <2>1, CompletedIs
  <2>. DEFINE applied == IF Failed(b) # DOMAIN b.results THEN b.context ELSE view.applied
              missed == b.mode = "apply" /\ Failed(b) = DOMAIN b.results
  <2>3. applied \in Contexts \cup {Nowhere} /\ missed \in BOOLEAN
    BY <1>2, ReadIs DEF OpenPages
  <2>4. view' = [v EXCEPT !.applied = applied, !.notApplied = missed]
    BY <1>4, <2>1, <2>2 DEF AnalyticsAfter
  <2>5. \A s \in SalesSections : (b.results[s].kind = "data" => applied = b.context)
    BY <1>1 DEF Failed
  <2>6. applied = b.context \/ applied = view.applied
    OBVIOUS
  <2>7. applied = b.context \/ (\A s \in SalesSections : b.results[s].kind # "data")
    BY <2>5
  <2>8. b.atomic => \A s \in SalesSections : b.results[s].kind = "data"
    BY <1>1, <1>4 DEF AllData
  <2>. HIDE DEF applied, missed
  <2>9. /\ view' \in OpenPages(Sections(view.page)) /\ view'.page = view.page /\ view'.opened = view.opened
        /\ view'.generation = view.generation /\ view'.query = view.query /\ view'.offset = view.offset
        /\ view'.applied = applied /\ view'.loading = v.loading /\ view'.data = v.data
    BY <2>2, <2>3, <2>4 DEF OpenPages
  <2>10. ASSUME NEW s \in SalesSections, v.data[s].known PROVE v.data[s].context = applied
    <3>1. CASE b.results[s].kind = "data"
      BY <1>1, <2>2, <2>5, <2>10, <3>1, ReadIs DEF AnswersAreOfTheirTime
    <3>2. CASE b.results[s].kind # "data"
      <4>1. v.data[s] = view.data[s] /\ ~b.atomic
        BY <1>1, <2>2, <2>8, <2>10, <3>2
      <4>2. view.data[s].context = view.applied /\ view.applied \in Contexts
        BY <1>1, <2>10, <4>1, ReadIs DEF FiguresMatchTheirContext, AnswersAreOfTheirTime
      <4>3. view.applied = b.context
        BY <1>2, <4>1, <4>2, ReadIs DEF ContextsInUse
      <4>. QED BY <2>6, <4>1, <4>2, <4>3
    <3>. QED BY <3>1, <3>2
  <2>11. FiguresMatchTheirContext'
    BY <1>1, <2>9, <2>10 DEF FiguresMatchTheirContext
  <2>. QED BY <1>1, <2>2, <2>9, <2>11, LoadEnds
<1>. QED BY <1>3, <1>4

LEMMA PageGoesOnStep ==
    ASSUME ReadInv, PageGoesOn
    PROVE  ReadInv'
<1>1. PICK b \in OwnBatches :
        /\ UNCHANGED sales
        /\ IF Has(b, "401") THEN Closing /\ batches' = batches \ {b}
           ELSE IF Doubtful(b)
           THEN \/ Closing /\ batches' = batches \ {b}
                \/ batches' = (batches \ {b}) \cup {[b EXCEPT !.judged = TRUE]} /\ UNCHANGED view
           ELSE view' = After(b) /\ batches' = batches \ {b}
  BY DEF PageGoesOn
<1>2. b \in batches
  BY OwnIs
<1>3. CASE Closing /\ batches' = batches \ {b}
  BY <1>1, <1>3, ClosingStep
<1>4. CASE batches' = (batches \ {b}) \cup {[b EXCEPT !.judged = TRUE]} /\ UNCHANGED view
  <2>1. PICK e : e = [b EXCEPT !.judged = TRUE]
    OBVIOUS
  <2>2. /\ e \in Batches(DOMAIN b.results) /\ e.results = b.results /\ e.origin = b.origin /\ e.context = b.context
        /\ e.from = b.from /\ e.atomic = b.atomic
    BY <1>2, <2>1, BatchIs DEF Batches
  <2>. QED BY <1>1, <1>2, <1>4, <2>1, <2>2, LoadGoesOn
<1>5. CASE view' = After(b) /\ batches' = batches \ {b}
  <2>1. CASE view.page = "analytics"
    BY <1>1, <1>5, <2>1, AnalyticsStep DEF After
  <2>2. CASE view.page = "account-order"
    <3>. DEFINE g == Failed(b) # {} /\ ~Has(b, "failed")
    <3>1. g \in BOOLEAN /\ view' = [Completed(b) EXCEPT !.gone = g]
      BY <1>5, <2>2 DEF After, OrderAfter
    <3>. HIDE DEF g
    <3>. QED BY <1>1, <1>5, <2>2, <3>1, CompletedStep
  <2>3. CASE view.page \notin {"analytics", "account-order"}
    <3>1. view' = Completed(b)
      BY <1>5, <2>3 DEF After
    <3>. QED BY <1>1, <1>5, <2>3, <3>1, CompletedStep
  <2>. QED BY <2>1, <2>2, <2>3
<1>. QED BY <1>1, <1>3, <1>4, <1>5

LEMMA ReadKeeps == ReadInv /\ [ReadNext]_readVars => ReadInv'
<1>. SUFFICES ASSUME ReadInv, [ReadNext]_readVars PROVE ReadInv'
  OBVIOUS
<1>1. CASE VisitPage
  BY <1>1, VisitPageStep
<1>2. CASE LeavePage
  BY <1>2, ClosingStep DEF LeavePage
<1>3. CASE ChangeFilter \/ TurnPage \/ RefreshList \/ RetryList
  BY <1>3, ChangeFilterStep, TurnPageStep, ListAgainSteps
<1>4. CASE RetrySection \/ ApplyFilters \/ RefreshReports \/ StartExport
  BY <1>4, ReportSteps, StartExportStep
<1>5. CASE TypeDraft \/ Sale
  BY <1>5, TypeDraftStep, SaleStep
<1>6. CASE AnswerSection \/ DropSuperseded \/ PageGoesOn
  BY <1>6, AnswerSectionStep, DropSupersededStep, PageGoesOnStep
<1>7. CASE UNCHANGED readVars
  <2>1. OwnBatches' = OwnBatches
    BY <1>7 DEF readVars, OwnBatches, Current
  <2>. QED BY <1>7, <2>1 DEF readVars, ReadInv, ReadTypeOK, WaitsForSomething, OriginsApart, OwnAreAwaited,
                             AnswersAreOfTheirTime, ContextsInUse, FiguresMatchTheirContext, Rows, Waiting
<1>. QED BY <1>1, <1>2, <1>3, <1>4, <1>5, <1>6, <1>7 DEF ReadNext

\* A page that says it is loading waits for a load that will tell it the end.
THEOREM ReadTypeCorrect == ReadSpec => []ReadTypeOK
<1>1. ReadInv => ReadTypeOK
  BY DEF ReadInv
<1>. QED BY <1>1, ReadStarts, ReadKeeps, PTL DEF ReadSpec

\* Every figure shown is of the filters, query and offset that the page says it is of.
THEOREM FiguresMatchAlways == ReadSpec => []FiguresMatchTheirContext
<1>1. ReadInv => FiguresMatchTheirContext
  BY DEF ReadInv
<1>. QED BY <1>1, ReadStarts, ReadKeeps, PTL DEF ReadSpec

\* The figures of one section of a page that stays open.
FiguresGrow(s) == view.data[s].known /\ view'.data[s].known => view'.data[s].at >= view.data[s].at

\* Beginning a load leaves a section as it is or empties it.
LEMMA BeginningEmpties ==
    ASSUME ReadInv, NEW s \in DOMAIN view.data,
           ChangeFilter \/ TurnPage \/ RefreshList \/ RetryList \/ RetrySection \/ ApplyFilters \/ RefreshReports \/ StartExport
    PROVE  view'.data[s] = view.data[s] \/ ~view'.data[s].known
<1>1. ASSUME NEW v, NEW b, Start(v, b), v.data[s] = view.data[s] \/ ~v.data[s].known, v \in OpenPages(Sections(view.page))
      PROVE  view'.data[s] = view.data[s] \/ ~view'.data[s].known
  BY <1>1 DEF Start, OpenPages
<1>2. view \in OpenPages(Sections(view.page)) /\ view.data \in [DOMAIN view.data -> SectionData] /\ DOMAIN view.data = Sections(view.page)
  BY ReadIs DEF OpenPages
<1>3. CASE ChangeFilter
  <2>1. PICK c, b, v : c \in Contexts /\ Start(v, b) /\ v = [view EXCEPT !.query = c, !.offset = 0, !.data["rows"] = Nothing, !.errors = {}]
    BY <1>3 DEF ChangeFilter
  <2>2. v \in OpenPages(Sections(view.page)) /\ (v.data[s] = view.data[s] \/ v.data[s] = Nothing)
    BY <1>2, <2>1, NothingIs DEF OpenPages
  <2>. QED BY <1>1, <2>1, <2>2, NothingIs
<1>4. CASE TurnPage
  <2>1. PICK o \in {view.offset - ReadLimit, view.offset + ReadLimit} :
          LET to == IF o < 0 THEN 0 ELSE o
          IN  Start([view EXCEPT !.offset = to, !.errors = {},
                                 !.data["rows"] = IF view.page = "orders" THEN Nothing ELSE @],
                    NewBatch(view.query, to, "replace", {"rows"}, FALSE))
    BY <1>4 DEF TurnPage
  <2>2. PICK to : to = IF o < 0 THEN 0 ELSE o
    OBVIOUS
  <2>3. PICK d : d = IF view.page = "orders" THEN Nothing ELSE view.data["rows"]
    OBVIOUS
  <2>4. PICK v : v = [view EXCEPT !.offset = to, !.errors = {}, !.data["rows"] = d]
    OBVIOUS
  <2>5. Start(v, NewBatch(view.query, to, "replace", {"rows"}, FALSE))
    BY <2>1, <2>2, <2>3, <2>4, Zenon
  <2>6. to \in Nat /\ view.offset \in Nat
    BY <2>2, <1>2, ReadBounds DEF OpenPages
  <2>7. "rows" \in Sections(view.page)
    BY <1>4, ListPagesAre DEF TurnPage
  <2>8. v \in OpenPages(Sections(view.page)) /\ (v.data[s] = view.data[s] \/ v.data[s] = Nothing)
    BY <1>2, <2>3, <2>4, <2>6, <2>7, NothingIs DEF OpenPages
  <2>. QED BY <1>1, <2>5, <2>8, NothingIs
<1>5. CASE RefreshList \/ RetryList
  <2>1. PICK errors, b, v : errors \in SUBSET Sections(view.page) /\ Start(v, b) /\ v = [view EXCEPT !.errors = errors]
    <3>1. CASE RefreshList
      <4>1. PICK errors : errors = {}
        OBVIOUS
      <4>2. Start([view EXCEPT !.errors = errors], NewBatch(view.query, view.offset, "refresh", {"rows"}, FALSE))
        BY <3>1, <4>1 DEF RefreshList
      <4>. QED BY <4>1, <4>2
    <3>2. CASE RetryList
      <4>1. PICK errors : errors = IF view.page = "orders" THEN view.errors ELSE {}
        OBVIOUS
      <4>2. errors \in SUBSET Sections(view.page)
        BY <1>2, <4>1 DEF OpenPages
      <4>3. Start([view EXCEPT !.errors = errors], NewBatch(view.query, view.offset, "retry", {"rows"}, FALSE))
        BY <3>2, <4>1 DEF RetryList
      <4>. QED BY <4>2, <4>3
    <3>. QED BY <1>5, <3>1, <3>2
  <2>2. v \in OpenPages(Sections(view.page)) /\ v.data = view.data
    BY <1>2, <2>1 DEF OpenPages
  <2>. QED BY <1>1, <2>1, <2>2
<1>6. CASE RetrySection \/ ApplyFilters \/ RefreshReports
  <2>1. PICK b, v : Start(v, b) /\ (v = view \/ v = [view EXCEPT !.notApplied = FALSE])
    BY <1>6 DEF RetrySection, ApplyFilters, RefreshReports
  <2>2. v \in OpenPages(Sections(view.page)) /\ v.data = view.data
    BY <1>2, <2>1 DEF OpenPages
  <2>. QED BY <1>1, <2>1, <2>2
<1>7. CASE StartExport
  <2>1. PICK k \in ExportKinds :
          Start([view EXCEPT !.errors = @ \ {k}, !.data[k] = [Nothing EXCEPT !.context = view.draft]],
                NewBatch(view.draft, 0, "export", {k}, FALSE))
    BY <1>7 DEF StartExport
  <2>2. PICK d : d = [Nothing EXCEPT !.context = view.draft]
    OBVIOUS
  <2>3. PICK v : v = [view EXCEPT !.errors = view.errors \ {k}, !.data[k] = d]
    OBVIOUS
  <2>4. Start(v, NewBatch(view.draft, 0, "export", {k}, FALSE))
    BY <2>1, <2>2, <2>3
  <2>5. d \in SectionData /\ ~d.known
    BY <1>2, <2>2, NothingIs DEF SectionData, OpenPages
  <2>6. v \in OpenPages(Sections(view.page)) /\ (v.data[s] = view.data[s] \/ v.data[s] = d)
    BY <1>2, <2>3, <2>5 DEF OpenPages
  <2>. QED BY <1>1, <2>4, <2>5, <2>6
<1>. QED BY <1>3, <1>4, <1>5, <1>6, <1>7

\* A load that is heard is not older than what the page shows.
LEMMA FiguresNeverOlder ==
    ASSUME ReadInv, [ReadNext]_readVars, NEW s \in DOMAIN view.data \cap DOMAIN view'.data,
           view.page # "none", view'.page = view.page
    PROVE  FiguresGrow(s)
<1>1. view.data[s].at \in Nat /\ s \in Sections(view.page)
  BY ReadIs DEF OpenPages, SectionData
<1>2. ASSUME view'.data[s] = view.data[s] PROVE FiguresGrow(s)
  BY <1>1, <1>2 DEF FiguresGrow
<1>3. ~Closing
  BY ClosedIs DEF Closing, OpenPages
<1>4. CASE VisitPage \/ LeavePage
  BY <1>3, <1>4 DEF VisitPage, LeavePage
<1>5. CASE TypeDraft
  <2>1. view'.data = view.data
    BY <1>5, ReadIs DEF TypeDraft, OpenPages
  <2>. QED BY <1>2, <2>1
<1>6. CASE AnswerSection \/ DropSuperseded \/ Sale \/ UNCHANGED readVars
  BY <1>2, <1>6 DEF AnswerSection, DropSuperseded, Sale, readVars
<1>7. CASE ChangeFilter \/ TurnPage \/ RefreshList \/ RetryList \/ RetrySection \/ ApplyFilters \/ RefreshReports \/ StartExport
  BY <1>2, <1>7, BeginningEmpties DEF FiguresGrow
<1>8. CASE PageGoesOn
  <2>1. PICK b \in OwnBatches : UNCHANGED view \/ view' = After(b)
    BY <1>3, <1>8 DEF PageGoesOn
  <2>2. CASE UNCHANGED view
    BY <1>2, <2>2
  <2>3. CASE view' = After(b)
    <3>1. PICK v : v = Completed(b)
      OBVIOUS
    <3>2. v \in OpenPages(Sections(view.page)) /\
          (v.data[s] = IF s \in DOMAIN b.results /\ b.results[s].kind = "data" THEN b.results[s].data ELSE view.data[s])
      BY <1>1, <3>1, CompletedIs
    <3>3. view'.data = v.data \/ view'.data = view.data
      <4>1. CASE view.page = "analytics"
        BY <2>3, <3>1, <3>2, <4>1, ReadIs DEF After, AnalyticsAfter, Preserved, OpenPages
      <4>2. CASE view.page # "analytics"
        BY <2>3, <3>1, <3>2, <4>2 DEF After, OrderAfter, OpenPages
      <4>. QED BY <4>1, <4>2
    <3>4. view'.data[s] = view.data[s] \/ (s \in DOMAIN b.results /\ b.results[s].kind = "data" /\ view'.data[s] = b.results[s].data)
      BY <3>2, <3>3
    <3>5. s \in DOMAIN b.results /\ b.results[s].kind = "data" => view.data[s].at <= b.results[s].data.at /\ b.results[s].data.at \in Nat
      BY OwnIs, BatchIs, ReadIs DEF AnswersAreOfTheirTime, SectionAnswers, SectionData
    <3>. QED BY <1>1, <1>2, <3>4, <3>5 DEF FiguresGrow
  <2>. QED BY <2>1, <2>2, <2>3
<1>. QED BY <1>4, <1>5, <1>6, <1>7, <1>8 DEF ReadNext

\* A page that stays open never goes back to older figures.
THEOREM NoOlderFiguresAlways == ReadSpec => NoOlderFigures
<1>1. ReadInv /\ [ReadNext]_readVars
        => [\A s \in DOMAIN view.data \cap DOMAIN view'.data :
              view.page # "none" /\ view'.page = view.page /\ view'.opened = view.opened
              /\ view.data[s].known /\ view'.data[s].known
              => view'.data[s].at >= view.data[s].at]_readVars
  BY FiguresNeverOlder DEF FiguresGrow
<1>. QED BY <1>1, ReadStarts, ReadKeeps, PTL DEF ReadSpec, NoOlderFigures


-----------------------------------------------------------------------------
(* The console.                                                            *)

Parts == {"menu", "users", "order", "reports"}

\* A behaviour of the console is one of each of its pages: they share nothing.
THEOREM ConsoleIsAll ==
    ConsoleSpec => MenuSpec /\ UsersSpec /\ OrderSpec /\ ReadSpec /\ [](looked \in Parts)
<1>1. ConsoleInit => MenuInit /\ UsersInit /\ OrderInit /\ ReadInit /\ looked \in Parts
  BY DEF ConsoleInit, Parts
<1>2. [ConsoleNext]_<<menuVars, usersVars, orderVars, readVars, looked>>
        => /\ [MenuNext]_menuVars /\ [UsersNext]_usersVars /\ [OrderNext]_orderVars /\ [ReadNext]_readVars
           /\ (looked \in Parts => (looked \in Parts)')
  BY DEF ConsoleNext
<1>. QED BY <1>1, <1>2, PTL DEF ConsoleSpec, MenuSpec, UsersSpec, OrderSpec, ReadSpec

\* Every page keeps its shape, whichever of them is looked at.
THEOREM ConsoleTypeCorrect == ConsoleSpec => []ConsoleTypeOK
<1>1. looked \in Parts /\ MenuTypeOK /\ UsersTypeOK /\ OrderPageTypeOK /\ ReadTypeOK => ConsoleTypeOK
  BY DEF ConsoleTypeOK, Parts
<1>. QED BY <1>1, ConsoleIsAll, MenuTypeCorrect, UsersTypeCorrect, OrderPageTypeCorrect, ReadTypeCorrect, PTL

\* What a page says of the service is so: the menu's notices, the actions offered on an order.
THEOREM PagesTellTheTruthAlways == ConsoleSpec => []PagesTellTheTruth
<1>1. MenuNoticeIsTrue /\ OffersOnlyWhatIsAccepted => PagesTellTheTruth
  BY DEF PagesTellTheTruth
<1>. QED BY <1>1, ConsoleIsAll, MenuNoticeIsTrueAlways, OffersAcceptedAlways, PTL

\* What is promised of each page holds of the console.
THEOREM ConsolePromises ==
    ConsoleSpec => /\ PatchIsDeliberate /\ RoleChangesAsConfirmed /\ GateNeedsFreshList
                   /\ StatusChangesAsConfirmed /\ []FiguresMatchTheirContext /\ NoOlderFigures
BY ConsoleIsAll, PatchIsDeliberateAlways, RoleChangesAsConfirmedAlways, GateNeedsFreshListAlways,
   StatusChangesAsConfirmedAlways, FiguresMatchAlways, NoOlderFiguresAlways, PTL
=============================================================================
