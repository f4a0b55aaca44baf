----------------------- MODULE OrderStatusPollingProofs -----------------------
(***************************************************************************)
(* Theorems about OrderStatusPolling for every set of orders, sessions and *)
(* requests.                                                               *)
(***************************************************************************)
EXTENDS OrderStatusPolling, TLAPS

\* An order's statuses only move along Later, step by step and altogether.
LEMMA LaterGrows ==
    /\ \A st \in OrderStatus : st \in Later[st]
    /\ \A st, now, next \in OrderStatus :
         now \in Later[st] /\ <<now, next>> \in AllowedTransitions => next \in Later[st]
BY DEF OrderStatus, AllowedTransitions, Later

LEMMA LaterType == None \notin OrderStatus => \A st \in OrderStatus : Later[st] \subseteq OrderStatus
BY DEF OrderStatus, Later

-----------------------------------------------------------------------------
(* What the pieces of the handlers do to the requests and the page.        *)

LEMMA InputsType == TypeOK => Inputs \in Run /\ Inputs.order \in Orders
BY PollingConstants DEF TypeOK, Inputs, Run, Session, PollingEnabled, SessionWasRejected

LEMMA SentType ==
    ASSUME NEW r \in Run
    PROVE  /\ Sent(r) \in Flight
           /\ Sent(r).state = "sent" /\ Sent(r).live
           /\ Sent(r).order = r.order /\ Sent(r).session = r.session
BY DEF Sent, Run, Flight

LEMMA IdleType == Idle \in Flight /\ Idle.state = "idle"
BY DEF Idle, Flight

LEMMA AbandonedEffect ==
    ASSUME TypeOK
    PROVE  /\ Abandoned \in [Requests -> Flight]
           /\ \A q \in Requests : /\ ~Abandoned[q].live
                                  /\ Abandoned[q].state = flights[q].state
                                  /\ Abandoned[q].order = flights[q].order
                                  /\ Abandoned[q].status = flights[q].status
BY DEF TypeOK, Abandoned, Flight

LEMMA NothingType ==
    ASSUME NEW busy \in {"no", "loading", "refreshing"}
    PROVE  /\ Nothing(busy) \in Shown
           /\ Nothing(busy).status = None /\ Nothing(busy).error = "none"
           /\ Nothing(busy).busy = busy
BY DEF Nothing, Shown, Errors

LEMMA RequestStatusEffect ==
    ASSUME NEW q \in Requests, NEW r \in Run, NEW others \in [Requests -> Flight],
           RequestStatus(q, r, others)
    PROVE  /\ flights' \in [Requests -> Flight]
           /\ others[q].state = "idle"
           /\ flights'[q] = Sent(r)
           /\ \A p \in Requests : p # q => flights'[p] = others[p]
           /\ inFlight' /\ ~timer'
BY SentType DEF RequestStatus

LEMMA AskEffect ==
    ASSUME TypeOK, NEW q \in Requests, Ask(q)
    PROVE  /\ flights' \in [Requests -> Flight]
           /\ flights[q].state = "idle"
           /\ flights'[q] = Sent(run)
           /\ \A p \in Requests : p # q => flights'[p] = flights[p]
           /\ inFlight' /\ ~timer'
           /\ shown' \in Shown
           /\ shown'.order = shown.order /\ shown'.status = shown.status
           /\ shown'.busy # "no"
<1>1. run \in Run /\ flights \in [Requests -> Flight] /\ shown \in Shown
  BY DEF TypeOK
<1>2. RequestStatus(q, run, flights)
  BY DEF Ask
<1>3. shown' = [shown EXCEPT !.error = "none", !.busy = Busy(shown.status)]
  BY DEF Ask
<1>4. Busy(shown.status) \in {"loading", "refreshing"}
  BY DEF Busy
<1>5. /\ shown' \in Shown
      /\ shown'.order = shown.order /\ shown'.status = shown.status
      /\ shown'.busy # "no"
  BY <1>1, <1>3, <1>4 DEF Shown, Errors
<1>6. QED
  BY <1>1, <1>2, <1>5, RequestStatusEffect

LEMMA EndEffect ==
    ASSUME TypeOK, NEW q \in Requests, End(q)
    PROVE  /\ flights[q].live
           /\ flights' \in [Requests -> Flight]
           /\ flights'[q] = Idle
           /\ \A p \in Requests : p # q => flights'[p] = flights[p]
           /\ inFlight' = FALSE
           /\ server' = server /\ available' = available /\ order' = order
           /\ run' = run /\ suspended' = suspended
BY IdleType DEF TypeOK, End

LEMMA FailedEffect ==
    ASSUME TypeOK, NEW error \in Errors, shown' = Failed(error)
    PROVE  /\ shown' \in Shown
           /\ shown'.order = shown.order /\ shown'.status = shown.status
           /\ shown'.error = error /\ shown'.busy = "no"
BY DEF TypeOK, Shown, Failed

-----------------------------------------------------------------------------
(* Types.                                                                  *)

LEMMA TypeInit == Init => TypeOK
<1> SUFFICES ASSUME Init PROVE TypeOK
  OBVIOUS
<1>1. "created" \in OrderStatus
  BY DEF OrderStatus
<1>2. NoRun \in Run
  BY DEF NoRun, Run
<1>3. flights \in [Requests -> Flight]
  BY IdleType DEF Init
<1>4. shown \in Shown
  BY NothingType DEF Init
<1>5. QED
  BY <1>1, <1>2, <1>3, <1>4 DEF Init, TypeOK

LEMMA TypeSurroundings == TypeOK /\ Surroundings => TypeOK'
<1> SUFFICES ASSUME TypeOK, Surroundings PROVE TypeOK'
  OBVIOUS
<1>1. ASSUME NEW o \in Orders, NEW status \in OrderStatus, AdvanceOrder(o, status) PROVE TypeOK'
  BY <1>1 DEF AdvanceOrder, TypeOK, page
<1>2. CASE ChangeEnvironment
  BY <1>2 DEF ChangeEnvironment, TypeOK, page
<1>3. ASSUME NEW s \in Sessions \cup {None}, ResolveSession(s) PROVE TypeOK'
  BY <1>3 DEF ResolveSession, TypeOK
<1>4. ASSUME NEW s \in Sessions \cup {None}, Remount(s) PROVE TypeOK'
  <2>1. NoRun \in Run
    BY DEF NoRun, Run
  <2>2. QED
    BY <1>4, <2>1, AbandonedEffect, NothingType DEF Remount, TypeOK
<1>5. CASE LogOut
  BY <1>5 DEF LogOut, TypeOK
<1>6. ASSUME NEW o \in Orders, Navigate(o) PROVE TypeOK'
  BY <1>6 DEF Navigate, TypeOK
<1>7. QED
  BY <1>1, <1>2, <1>3, <1>4, <1>5, <1>6 DEF Surroundings

LEMMA TypeEnd ==
    ASSUME TypeOK, NEW q \in Requests, End(q), Stop \/ Schedule, shown' \in Shown,
           auth' \in Sessions \cup {None, Unresolved}, rejected' \in Sessions \cup {None}
    PROVE  TypeOK'
<1>1. stopped' \in BOOLEAN /\ timer' \in BOOLEAN
  BY DEF Stop, Schedule, TypeOK
<1>2. flights' \in [Requests -> Flight] /\ inFlight' \in BOOLEAN
  BY EndEffect
<1>3. /\ server' = server /\ available' = available /\ order' = order
      /\ run' = run /\ suspended' = suspended
  BY EndEffect
<1>4. QED
  BY <1>1, <1>2, <1>3 DEF TypeOK

LEMMA TypeAnswer ==
    ASSUME TypeOK, NEW q \in Requests, Answer(q)
    PROVE  TypeOK'
<1>0. run.session \in Sessions \cup {None} /\ flights[q] \in Flight
  BY DEF TypeOK, Run
<1>1. CASE ReceiveStatus(q)
  <2>1. flights[q].order \in Orders \cup {None} /\ flights[q].status \in OrderStatus \cup {None}
    BY <1>0 DEF Flight
  <2>2. shown' \in Shown
    BY <1>1, <2>1 DEF ReceiveStatus, Shown, Errors
  <2>3. End(q) /\ (Stop \/ Schedule) /\ auth' = auth /\ rejected' = rejected
    BY <1>1 DEF ReceiveStatus
  <2>4. QED
    BY <2>2, <2>3, TypeEnd DEF TypeOK
<1>2. CASE FailTransiently(q)
  <2>1. shown' \in Shown
    BY <1>2, FailedEffect DEF FailTransiently, Errors
  <2>2. QED
    BY <1>2, <2>1, TypeEnd DEF FailTransiently, TypeOK
<1>3. CASE FailPermanently(q)
  <2>1. shown' \in Shown
    BY <1>3, FailedEffect DEF FailPermanently, Errors
  <2>2. QED
    BY <1>3, <2>1, TypeEnd DEF FailPermanently, TypeOK
<1>4. CASE FailUnauthorized(q)
  <2>1. shown' \in Shown
    BY <1>4, FailedEffect DEF FailUnauthorized, Errors
  <2>2. auth' \in Sessions \cup {None, Unresolved} /\ rejected' \in Sessions \cup {None}
    BY <1>0, <1>4 DEF FailUnauthorized, TypeOK
  <2>3. QED
    BY <1>4, <2>1, <2>2, TypeEnd DEF FailUnauthorized
<1>5. QED
  BY <1>1, <1>2, <1>3, <1>4 DEF Answer

LEMMA TypeRerun == TypeOK /\ Rerun => TypeOK'
<1> SUFFICES ASSUME TypeOK, Rerun PROVE TypeOK'
  OBVIOUS
<1>1. Inputs \in Run /\ StopsAtOnce \in BOOLEAN
  BY InputsType DEF StopsAtOnce, PollingEnabled
<1>2. /\ flights' \in [Requests -> Flight] /\ shown' \in Shown
      /\ inFlight' \in BOOLEAN /\ timer' \in BOOLEAN
  <2>1. CASE PollingEnabled /\ available
    <3>1. PICK q \in Requests : RequestStatus(q, Inputs, Abandoned)
      BY <2>1 DEF Rerun
    <3>2. flights' \in [Requests -> Flight]
      BY <1>1, <3>1, AbandonedEffect, RequestStatusEffect
    <3>3. inFlight' = TRUE /\ timer' = FALSE
      BY <3>1 DEF RequestStatus
    <3>4. QED
      BY <2>1, <3>2, <3>3, NothingType DEF Rerun
  <2>2. CASE ~(PollingEnabled /\ available)
    BY <2>2, AbandonedEffect, NothingType DEF Rerun
  <2>3. QED
    BY <2>1, <2>2
<1>3. QED
  BY <1>1, <1>2 DEF Rerun, TypeOK

LEMMA TypeAsk ==
    ASSUME TypeOK, NEW q \in Requests, Ask(q), stopped' \in BOOLEAN, suspended' \in BOOLEAN,
           UNCHANGED <<server, available, auth, rejected, order, run>>
    PROVE  TypeOK'
<1>1. flights' \in [Requests -> Flight] /\ shown' \in Shown
  BY AskEffect
<1>2. inFlight' = TRUE /\ timer' = FALSE
  BY DEF Ask, RequestStatus
<1>3. QED
  BY <1>1, <1>2 DEF TypeOK

LEMMA TypeNext == TypeOK /\ Coherent /\ [Next]_vars => TypeOK'
<1> SUFFICES ASSUME TypeOK, Coherent, [Next]_vars PROVE TypeOK'
  OBVIOUS
<1>1. CASE Surroundings
  BY <1>1, TypeSurroundings
<1>2. CASE Rerun
  BY <1>2, TypeRerun
<1>3. CASE NoticeEnvironment
  <2>1. CASE available /\ ~stopped /\ ~inFlight
    <3>1. PICK q \in Requests : Ask(q)
      BY <1>3, <2>1 DEF NoticeEnvironment
    <3>2. stopped' \in BOOLEAN /\ suspended' \in BOOLEAN
      BY <1>3 DEF NoticeEnvironment, TypeOK
    <3>3. QED
      BY <1>3, <3>1, <3>2, TypeAsk DEF NoticeEnvironment, page
  <2>2. CASE ~(available /\ ~stopped /\ ~inFlight)
    BY <1>3, <2>2 DEF NoticeEnvironment, TypeOK, page
  <2>3. QED
    BY <2>1, <2>2
<1>4. CASE FireTimer
  <2>1. stopped' \in BOOLEAN /\ suspended' \in BOOLEAN
    BY <1>4 DEF FireTimer, TypeOK
  <2>2. QED
    BY <1>4, <2>1, TypeAsk DEF FireTimer, page
<1>5. CASE RetryNow
  <2>1. stopped' \in BOOLEAN /\ suspended' \in BOOLEAN
    BY <1>5 DEF RetryNow, TypeOK
  <2>2. QED
    BY <1>5, <2>1, TypeAsk DEF RetryNow, page
<1>6. ASSUME NEW q \in Requests, Serve(q) PROVE TypeOK'
  <2>1. flights[q].order \in Orders
    BY <1>6 DEF Serve, Coherent, AnswersAreTrue
  <2>2. [flights[q] EXCEPT !.state = "answered", !.status = server[flights[q].order]] \in Flight
    BY <2>1 DEF TypeOK, Flight
  <2>3. flights' \in [Requests -> Flight]
    BY <1>6, <2>2 DEF Serve, TypeOK
  <2>4. QED
    BY <1>6, <2>3 DEF Serve, TypeOK, page
<1>7. ASSUME NEW q \in Requests, Answer(q) PROVE TypeOK'
  BY <1>7, TypeAnswer
<1>8. ASSUME NEW q \in Requests, Discard(q) PROVE TypeOK'
  BY <1>8, IdleType DEF Discard, TypeOK, page
<1>9. CASE UNCHANGED vars
  BY <1>9 DEF vars, page, TypeOK
<1>10. QED
  BY <1>1, <1>2, <1>3, <1>4, <1>5, <1>6, <1>7, <1>8, <1>9 DEF Next

-----------------------------------------------------------------------------
(* Coherence.                                                              *)

LEMMA CoherentInit == Init => Coherent
<1> SUFFICES ASSUME Init PROVE Coherent
  OBVIOUS
<1>1. \A q \in Requests : flights[q].state = "idle"
  BY IdleType DEF Init
<1>2. Live = {}
  BY <1>1 DEF Live
<1>3. shown.status = None /\ shown.busy = "no" /\ ~run.enabled /\ stopped /\ ~inFlight /\ ~timer
  BY NothingType DEF Init, NoRun
<1>4. QED
  BY <1>1, <1>2, <1>3 DEF Coherent, OneRequestAtATime, NeverSilentlyIdle, StoppedForAReason,
     ShowsItsOrder, LiveRequestsAreTheRuns, WaitsOrSleeps, RunsHaveCredentials, AnswersAreTrue

\* Coherence only concerns the effect, its requests and the page they are shown on.
LEMMA CoherentUnchanged ==
    ASSUME Coherent,
           UNCHANGED <<server, rejected, run, stopped, suspended, inFlight, timer, flights, shown>>
    PROVE  Coherent'
BY DEF Coherent, OneRequestAtATime, NeverSilentlyIdle, StoppedForAReason, ShowsItsOrder,
   LiveRequestsAreTheRuns, WaitsOrSleeps, RunsHaveCredentials, AnswersAreTrue, Live

\* An order that advances leaves behind what was read of it.
LEMMA CoherentAdvance ==
    ASSUME TypeOK, Coherent, NEW o \in Orders, NEW status \in OrderStatus, AdvanceOrder(o, status)
    PROVE  Coherent'
<1>1. /\ server \in [Orders -> OrderStatus] /\ server' = [server EXCEPT ![o] = status]
      /\ <<server[o], status>> \in AllowedTransitions
  BY DEF TypeOK, AdvanceOrder
<1>2. ASSUME NEW st \in OrderStatus, NEW x \in Orders, server[x] \in Later[st]
      PROVE  server'[x] \in Later[st]
  BY <1>1, <1>2, LaterGrows
<1>3. shown.status \in OrderStatus \cup {None}
  BY DEF TypeOK, Shown
<1>4. /\ rejected' = rejected /\ run' = run /\ stopped' = stopped /\ suspended' = suspended
      /\ inFlight' = inFlight /\ timer' = timer /\ flights' = flights /\ shown' = shown
  BY DEF AdvanceOrder, page
<1>5. Live' = Live
  BY <1>4 DEF Live
<1>6. AnswersAreTrue'
  BY <1>2, <1>3, <1>4, <1>5 DEF Coherent, AnswersAreTrue
<1>7. QED
  BY <1>4, <1>5, <1>6 DEF Coherent, OneRequestAtATime, NeverSilentlyIdle, StoppedForAReason,
     ShowsItsOrder, LiveRequestsAreTheRuns, WaitsOrSleeps, RunsHaveCredentials

\* A hook that waits for nothing may ask.
LEMMA CoherentAsk ==
    ASSUME TypeOK, Coherent, NEW q \in Requests, Ask(q),
           ~inFlight, run.enabled, ~stopped', ~suspended',
           UNCHANGED <<server, rejected, run>>
    PROVE  Coherent'
<1>1. Live = {} /\ run \in Run
  BY DEF Coherent, OneRequestAtATime, TypeOK
<1>2. /\ Sent(run).state = "sent" /\ Sent(run).live
      /\ Sent(run).order = run.order /\ Sent(run).session = run.session
  BY <1>1, SentType
<1>3. Live' = {q}
  BY <1>1, <1>2, AskEffect DEF Live
<1>4. OneRequestAtATime' /\ LiveRequestsAreTheRuns' /\ WaitsOrSleeps'
  BY <1>2, <1>3, AskEffect DEF OneRequestAtATime, LiveRequestsAreTheRuns, WaitsOrSleeps
<1>5. AnswersAreTrue'
  <2>1. run.order \in Orders
    BY DEF Coherent, RunsHaveCredentials
  <2>2. \A p \in Requests : p # q => flights'[p] = flights[p]
    BY AskEffect
  <2>3. flights'[q].state = "sent" /\ flights'[q].order \in Orders
    BY <1>2, <2>1, AskEffect
  <2>4. shown'.order = shown.order /\ shown'.status = shown.status
    BY AskEffect
  <2>5. QED
    BY <1>3, <2>2, <2>3, <2>4 DEF Coherent, AnswersAreTrue
<1>6. NeverSilentlyIdle' /\ StoppedForAReason' /\ ShowsItsOrder' /\ RunsHaveCredentials'
  BY AskEffect DEF Coherent, NeverSilentlyIdle, StoppedForAReason, ShowsItsOrder,
     RunsHaveCredentials
<1>7. QED
  BY <1>4, <1>5, <1>6 DEF Coherent

\* The request awaited ends: polling goes on, or has a reason to stop.
LEMMA CoherentEnd ==
    ASSUME TypeOK, Coherent, NEW q \in Requests, End(q), Stop \/ Schedule,
           flights[q].state # "idle",
           shown'.busy = "no",
           Stop => shown'.status \in TerminalStatus \/ shown'.error \in {"access", "contract"},
           shown'.status # None =>
             shown'.order = run.order /\ server[run.order] \in Later[shown'.status],
           rejected' # None => rejected # None \/ run.session # None
    PROVE  Coherent'
<1>1. q \in Live /\ \A p \in Live : p = q
  BY EndEffect DEF Live, Coherent, OneRequestAtATime
<1>2. Live' = {}
  BY <1>1, EndEffect, IdleType DEF Live
<1>3. run.enabled /\ run.order \in Orders
  BY <1>1 DEF Coherent, LiveRequestsAreTheRuns, RunsHaveCredentials
<1>4. OneRequestAtATime' /\ LiveRequestsAreTheRuns' /\ WaitsOrSleeps'
  BY <1>2, <1>3, EndEffect DEF OneRequestAtATime, LiveRequestsAreTheRuns, WaitsOrSleeps,
     Stop, Schedule
<1>5. NeverSilentlyIdle' /\ StoppedForAReason' /\ ShowsItsOrder'
  <2>1. run' = run /\ suspended' = suspended
    BY EndEffect
  <2>2. (stopped' <=> Stop) /\ (~stopped' => timer' = ~suspended)
    BY DEF Stop, Schedule
  <2>3. NeverSilentlyIdle'
    BY <2>1, <2>2 DEF NeverSilentlyIdle
  <2>4. StoppedForAReason' /\ ShowsItsOrder'
    BY <2>1, <2>2 DEF StoppedForAReason, ShowsItsOrder
  <2>5. QED
    BY <2>3, <2>4
<1>6. RunsHaveCredentials'
  BY EndEffect DEF Coherent, RunsHaveCredentials
<1>7. AnswersAreTrue'
  BY <1>2, <1>3, EndEffect, IdleType DEF Coherent, AnswersAreTrue
<1>8. QED
  BY <1>4, <1>5, <1>6, <1>7 DEF Coherent

LEMMA CoherentAnswer ==
    ASSUME TypeOK, Coherent, NEW q \in Requests, Answer(q)
    PROVE  Coherent'
<1>1. flights[q].live /\ flights[q].state # "idle"
  BY DEF Answer, ReceiveStatus, FailTransiently, FailPermanently, FailUnauthorized, End
<1>2. flights[q].order = run.order /\ flights[q].session = run.session
  BY <1>1 DEF Coherent, LiveRequestsAreTheRuns, Live
<1>3. shown.status # None =>
        shown.order = run.order /\ server[run.order] \in Later[shown.status]
  BY DEF Coherent, ShowsItsOrder, AnswersAreTrue
<1>4. CASE ReceiveStatus(q)
  <2>1. server[run.order] \in Later[flights[q].status]
    BY <1>2, <1>4 DEF ReceiveStatus, Coherent, AnswersAreTrue
  <2>2. /\ shown'.status = flights[q].status /\ shown'.order = run.order
        /\ shown'.busy = "no" /\ rejected' = rejected
    BY <1>2, <1>4 DEF ReceiveStatus
  <2>3. End(q) /\ (Stop \/ Schedule) /\ (Stop => flights[q].status \in TerminalStatus)
    BY <1>4 DEF ReceiveStatus, Stop, Schedule
  <2>4. QED
    BY <1>1, <2>1, <2>2, <2>3, CoherentEnd
<1>5. CASE FailTransiently(q)
  BY <1>1, <1>3, <1>5, CoherentEnd, FailedEffect DEF FailTransiently, Errors, Stop, Schedule
<1>6. CASE FailPermanently(q)
  BY <1>1, <1>3, <1>6, CoherentEnd, FailedEffect DEF FailPermanently, Errors
<1>7. CASE FailUnauthorized(q)
  BY <1>1, <1>2, <1>3, <1>7, CoherentEnd, FailedEffect DEF FailUnauthorized, Errors
<1>8. QED
  BY <1>4, <1>5, <1>6, <1>7 DEF Answer

\* A new run has at most the request it begins with; the old ones are abandoned.
LEMMA CoherentRerun == TypeOK /\ Coherent /\ Rerun => Coherent'
<1> SUFFICES ASSUME TypeOK, Coherent, Rerun PROVE Coherent'
  OBVIOUS
<1>1. /\ run' = Inputs /\ stopped' = ~PollingEnabled /\ suspended' = ~available
      /\ server' = server /\ rejected' = rejected
      /\ Inputs \in Run /\ Inputs.order \in Orders /\ Inputs.enabled = PollingEnabled
      /\ PollingEnabled \in BOOLEAN /\ available \in BOOLEAN
  BY InputsType DEF Rerun, StopsAtOnce, Inputs, PollingEnabled, TypeOK
<1>2. PollingEnabled /\ rejected # None => Inputs.session # None
  BY DEF PollingEnabled, SessionWasRejected, Inputs
<1>3. shown'.status = None /\ (inFlight' <=> shown'.busy # "no") /\ ~timer'
      /\ (inFlight' <=> PollingEnabled /\ available)
  <2>1. CASE PollingEnabled /\ available
    BY <2>1, NothingType DEF Rerun, RequestStatus
  <2>2. CASE ~(PollingEnabled /\ available)
    BY <2>2, NothingType DEF Rerun
  <2>3. QED
    BY <2>1, <2>2
<1>4. /\ OneRequestAtATime' /\ LiveRequestsAreTheRuns'
      /\ \A q \in Requests :
           /\ flights'[q].state # "idle" => flights'[q].order \in Orders
           /\ flights'[q].state = "answered" =>
                /\ flights'[q].status \in OrderStatus
                /\ server[flights'[q].order] \in Later[flights'[q].status]
  <2>1. CASE PollingEnabled /\ available
    <3>1. PICK q \in Requests : RequestStatus(q, Inputs, Abandoned)
      BY <2>1 DEF Rerun
    <3>2. /\ flights'[q] = Sent(Inputs)
          /\ \A p \in Requests : p # q => flights'[p] = Abandoned[p]
      BY <1>1, <3>1, RequestStatusEffect, AbandonedEffect
    <3>3. /\ Sent(Inputs).state = "sent" /\ Sent(Inputs).live
          /\ Sent(Inputs).order = Inputs.order /\ Sent(Inputs).session = Inputs.session
      BY <1>1, SentType
    <3>4. Live' = {q}
      BY <3>2, <3>3, AbandonedEffect DEF Live
    <3>5. OneRequestAtATime' /\ LiveRequestsAreTheRuns'
      BY <1>1, <1>3, <2>1, <3>2, <3>3, <3>4 DEF OneRequestAtATime, LiveRequestsAreTheRuns
    <3>6. QED
      BY <1>1, <3>2, <3>3, <3>5, AbandonedEffect DEF Coherent, AnswersAreTrue
  <2>2. CASE ~(PollingEnabled /\ available)
    <3>1. flights' = Abandoned
      BY <2>2 DEF Rerun
    <3>2. Live' = {}
      BY <3>1, AbandonedEffect DEF Live
    <3>3. OneRequestAtATime' /\ LiveRequestsAreTheRuns'
      BY <1>3, <2>2, <3>2 DEF OneRequestAtATime, LiveRequestsAreTheRuns
    <3>4. QED
      BY <3>1, <3>3, AbandonedEffect DEF Coherent, AnswersAreTrue
  <2>3. QED
    BY <2>1, <2>2
<1>5. AnswersAreTrue' /\ ShowsItsOrder'
  BY <1>1, <1>3, <1>4 DEF AnswersAreTrue, ShowsItsOrder
<1>6. NeverSilentlyIdle' /\ StoppedForAReason' /\ WaitsOrSleeps' /\ RunsHaveCredentials'
  BY <1>1, <1>2, <1>3 DEF NeverSilentlyIdle, StoppedForAReason, WaitsOrSleeps,
     RunsHaveCredentials
<1>7. QED
  BY <1>4, <1>5, <1>6 DEF Coherent

LEMMA CoherentRemount ==
    ASSUME TypeOK, Coherent, NEW s \in Sessions \cup {None}, Remount(s)
    PROVE  Coherent'
<1>1. /\ shown'.status = None /\ shown'.busy = "no" /\ ~run'.enabled /\ stopped'
      /\ ~inFlight' /\ ~timer' /\ server' = server /\ flights' = Abandoned
  BY NothingType DEF Remount, NoRun
<1>2. Live' = {}
  BY <1>1, AbandonedEffect DEF Live
<1>3. AnswersAreTrue'
  BY <1>1, <1>2, AbandonedEffect DEF Coherent, AnswersAreTrue
<1>4. QED
  BY <1>1, <1>2, <1>3 DEF Coherent, OneRequestAtATime, NeverSilentlyIdle, StoppedForAReason,
     ShowsItsOrder, LiveRequestsAreTheRuns, WaitsOrSleeps, RunsHaveCredentials

\* The status read is the order's last, so it is no older than what is shown.
LEMMA CoherentServe ==
    ASSUME TypeOK, Coherent, NEW q \in Requests, Serve(q)
    PROVE  Coherent'
<1> DEFINE answer == [flights[q] EXCEPT !.state = "answered", !.status = server[flights[q].order]]
<1>1. /\ flights[q].state = "sent" /\ flights[q] \in Flight
      /\ flights' = [flights EXCEPT ![q] = answer] /\ flights \in [Requests -> Flight]
      /\ server' = server /\ rejected' = rejected /\ run' = run /\ stopped' = stopped
      /\ suspended' = suspended /\ inFlight' = inFlight /\ timer' = timer /\ shown' = shown
  BY DEF Serve, page, TypeOK
<1>2. /\ answer.state = "answered" /\ answer.status = server[flights[q].order]
      /\ answer.order = flights[q].order /\ answer.session = flights[q].session
      /\ answer.live = flights[q].live
  BY <1>1 DEF Flight
<1> HIDE DEF answer
<1>3. flights'[q] = answer /\ \A p \in Requests : p # q => flights'[p] = flights[p]
  BY <1>1
<1>4. Live' = Live
  BY <1>1, <1>2, <1>3 DEF Live
<1>5. OneRequestAtATime' /\ LiveRequestsAreTheRuns'
  BY <1>1, <1>2, <1>3, <1>4 DEF Coherent, OneRequestAtATime, LiveRequestsAreTheRuns
<1>6. flights[q].order \in Orders /\ server[flights[q].order] \in OrderStatus
  BY <1>1 DEF Coherent, AnswersAreTrue, TypeOK
<1>7. q \in Live /\ shown.status # None => flights[q].order = shown.order
  BY DEF Coherent, LiveRequestsAreTheRuns, ShowsItsOrder
<1>8. AnswersAreTrue'
  <2>1. /\ \A p \in Requests :
             /\ flights'[p].state # "idle" => flights'[p].order \in Orders
             /\ flights'[p].state = "answered" =>
                  /\ flights'[p].status \in OrderStatus
                  /\ server[flights'[p].order] \in Later[flights'[p].status]
    BY <1>2, <1>3, <1>6, LaterGrows DEF Coherent, AnswersAreTrue
  <2>2. ASSUME shown.status # None, NEW p \in Live, flights'[p].state = "answered"
        PROVE  flights'[p].status \in Later[shown.status]
    <3>1. p \in Requests
      BY DEF Live
    <3>2. CASE p = q
      BY <1>2, <1>3, <1>7, <2>2, <3>2 DEF Coherent, AnswersAreTrue
    <3>3. CASE p # q
      BY <1>3, <2>2, <3>1, <3>3 DEF Coherent, AnswersAreTrue
    <3>4. QED
      BY <3>2, <3>3
  <2>3. QED
    BY <1>1, <1>4, <2>1, <2>2 DEF Coherent, AnswersAreTrue
<1>9. QED
  BY <1>1, <1>5, <1>8 DEF Coherent, NeverSilentlyIdle, StoppedForAReason, ShowsItsOrder,
     WaitsOrSleeps, RunsHaveCredentials

LEMMA CoherentDiscard ==
    ASSUME TypeOK, Coherent, NEW q \in Requests, Discard(q)
    PROVE  Coherent'
<1>1. /\ ~flights[q].live /\ flights'[q] = Idle
      /\ \A p \in Requests : p # q => flights'[p] = flights[p]
      /\ server' = server /\ rejected' = rejected /\ run' = run /\ stopped' = stopped
      /\ suspended' = suspended /\ inFlight' = inFlight /\ timer' = timer /\ shown' = shown
  BY DEF Discard, page, TypeOK
<1>2. Live' = Live /\ \A p \in Live : flights'[p] = flights[p]
  BY <1>1, IdleType DEF Live
<1>3. AnswersAreTrue'
  BY <1>1, <1>2, IdleType DEF Coherent, AnswersAreTrue
<1>4. QED
  BY <1>1, <1>2, <1>3 DEF Coherent, OneRequestAtATime, NeverSilentlyIdle, StoppedForAReason,
     ShowsItsOrder, LiveRequestsAreTheRuns, WaitsOrSleeps, RunsHaveCredentials

LEMMA CoherentNotice == TypeOK /\ Coherent /\ NoticeEnvironment => Coherent'
<1> SUFFICES ASSUME TypeOK, Coherent, NoticeEnvironment PROVE Coherent'
  OBVIOUS
<1>0. /\ run.enabled /\ suspended = available /\ suspended' = ~available /\ available \in BOOLEAN
      /\ server' = server /\ rejected' = rejected /\ run' = run /\ stopped' = stopped
  BY DEF NoticeEnvironment, page, TypeOK
<1>1. CASE available /\ ~stopped /\ ~inFlight
  <2>1. PICK q \in Requests : Ask(q)
    BY <1>1 DEF NoticeEnvironment
  <2>2. QED
    BY <1>0, <1>1, <2>1, CoherentAsk
<1>2. CASE ~(available /\ ~stopped /\ ~inFlight)
  <2>1. /\ timer' = (timer /\ available) /\ inFlight' = inFlight
        /\ flights' = flights /\ shown' = shown
    BY <1>2 DEF NoticeEnvironment
  <2>2. Live' = Live
    BY <2>1 DEF Live
  <2>3. NeverSilentlyIdle' /\ WaitsOrSleeps'
    BY <1>0, <1>2, <2>1 DEF Coherent, NeverSilentlyIdle, WaitsOrSleeps
  <2>4. QED
    BY <1>0, <2>1, <2>2, <2>3 DEF Coherent, OneRequestAtATime, StoppedForAReason, ShowsItsOrder,
       LiveRequestsAreTheRuns, RunsHaveCredentials, AnswersAreTrue
<1>3. QED
  BY <1>1, <1>2

LEMMA CoherentNext == TypeOK /\ Coherent /\ [Next]_vars => Coherent'
<1> SUFFICES ASSUME TypeOK, Coherent, [Next]_vars PROVE Coherent'
  OBVIOUS
<1>1. CASE Surroundings
  <2>1. CASE ChangeEnvironment \/ LogOut \/ \E o \in Orders : Navigate(o)
    BY <2>1, CoherentUnchanged DEF ChangeEnvironment, LogOut, Navigate, page
  <2>2. ASSUME NEW s \in Sessions \cup {None}, ResolveSession(s) PROVE Coherent'
    BY <2>2, CoherentUnchanged DEF ResolveSession
  <2>3. QED
    BY <1>1, <2>1, <2>2, CoherentAdvance, CoherentRemount DEF Surroundings
<1>2. CASE Rerun \/ NoticeEnvironment
  BY <1>2, CoherentRerun, CoherentNotice
<1>3. CASE FireTimer
  <2>1. ~inFlight /\ run.enabled /\ ~stopped /\ ~suspended
    BY <1>3 DEF FireTimer, Coherent, WaitsOrSleeps
  <2>2. QED
    BY <1>3, <2>1, CoherentAsk DEF FireTimer, page
<1>4. CASE RetryNow
  BY <1>4, CoherentAsk DEF RetryNow, page
<1>5. CASE \E q \in Requests : Serve(q) \/ Answer(q) \/ Discard(q)
  BY <1>5, CoherentServe, CoherentAnswer, CoherentDiscard
<1>6. CASE UNCHANGED vars
  BY <1>6, CoherentUnchanged DEF vars, page
<1>7. QED
  BY <1>1, <1>2, <1>3, <1>4, <1>5, <1>6 DEF Next

-----------------------------------------------------------------------------
(* The theorems.                                                           *)

\* Variables keep their types, and the closure variables of the effect, its requests and
\* what the page shows stay coherent, whatever the customer, the browser, the network and
\* the server do.
THEOREM CoherentAlways == Spec => [](TypeOK /\ Coherent)
<1>1. Init => TypeOK /\ Coherent
  BY TypeInit, CoherentInit
<1>2. TypeOK /\ Coherent /\ [Next]_vars => (TypeOK /\ Coherent)'
  BY TypeNext, CoherentNext
<1>3. QED
  BY <1>1, <1>2, PTL DEF Spec

\* Inputs, closure, requests and what is shown keep their types.
THEOREM TypeCorrect == Spec => []TypeOK
<1>1. TypeOK /\ Coherent => TypeOK
  OBVIOUS
<1>2. QED
  BY <1>1, CoherentAlways, PTL

\* useOrderStatusPolling never has two requests in flight, and its spinner turns exactly
\* while it waits for one.
THEOREM OneRequestAtATimeAlways == Spec => []OneRequestAtATime
<1>1. Coherent => OneRequestAtATime
  BY DEF Coherent
<1>2. QED
  BY <1>1, CoherentAlways, PTL

\* Polling that is neither stopped nor suspended has a request or a timer pending.
THEOREM NeverSilentlyIdleAlways == Spec => []NeverSilentlyIdle
<1>1. Coherent => NeverSilentlyIdle
  BY DEF Coherent
<1>2. QED
  BY <1>1, CoherentAlways, PTL

\* A stopped hook shows the order's end or an error.
THEOREM StoppedForAReasonAlways == Spec => []StoppedForAReason
<1>1. Coherent => StoppedForAReason
  BY DEF Coherent
<1>2. QED
  BY <1>1, CoherentAlways, PTL

\* A late answer about another order is never shown.
THEOREM ShowsItsOrderAlways == Spec => []ShowsItsOrder
<1>1. Coherent => ShowsItsOrder
  BY DEF Coherent
<1>2. QED
  BY <1>1, CoherentAlways, PTL

\* Within one run of the effect the status shown never goes back.
THEOREM StatusNeverRegressesAlways == Spec => StatusNeverRegresses
<1> DEFINE Step == shown.status # None /\ shown'.status # None /\ run' = run
                     => shown'.status \in Later[shown.status]
<1>1. TypeOK /\ Coherent /\ [Next]_vars => [Step]_vars
  <2> SUFFICES ASSUME TypeOK, Coherent, [Next]_vars,
                      shown.status # None, shown'.status # None, run' = run
               PROVE  shown'.status \in Later[shown.status]
    OBVIOUS
  <2>1. shown.status \in OrderStatus
    BY DEF TypeOK, Shown
  <2>2. shown.status \in Later[shown.status]
    BY <2>1, LaterGrows
  <2>3. CASE shown' = shown
    BY <2>2, <2>3
  <2>4. ASSUME NEW q \in Requests, ReceiveStatus(q) PROVE shown'.status \in Later[shown.status]
    <3>1. q \in Live /\ flights[q].state = "answered" /\ shown'.status = flights[q].status
      BY <2>4 DEF ReceiveStatus, End, Live
    <3>2. QED
      BY <3>1 DEF Coherent, AnswersAreTrue
  <2>5. ASSUME NEW q \in Requests,
               FailTransiently(q) \/ FailPermanently(q) \/ FailUnauthorized(q)
        PROVE  shown'.status \in Later[shown.status]
    <3>1. shown'.status = shown.status
      BY <2>5, FailedEffect DEF FailTransiently, FailPermanently, FailUnauthorized, Errors
    <3>2. QED
      BY <2>2, <3>1
  <2>6. ASSUME NEW q \in Requests, Ask(q) PROVE shown'.status \in Later[shown.status]
    BY <2>2, <2>6, AskEffect
  <2>7. ~Rerun /\ \A s \in Sessions \cup {None} : ~Remount(s)
    BY NothingType DEF Rerun, Remount
  <2>8. CASE Surroundings
    BY <2>3, <2>7, <2>8 DEF Surroundings, AdvanceOrder, ChangeEnvironment, ResolveSession,
       LogOut, Navigate
  <2>9. CASE NoticeEnvironment \/ FireTimer \/ RetryNow
    BY <2>3, <2>6, <2>9 DEF NoticeEnvironment, FireTimer, RetryNow
  <2>10. CASE \E q \in Requests : Serve(q) \/ Answer(q) \/ Discard(q)
    BY <2>3, <2>4, <2>5, <2>10 DEF Serve, Discard, Answer
  <2>11. CASE UNCHANGED vars
    BY <2>3, <2>11 DEF vars
  <2>12. QED
    BY <2>7, <2>8, <2>9, <2>10, <2>11 DEF Next
<1>2. QED
  BY <1>1, CoherentAlways, PTL DEF Spec, StatusNeverRegresses

\* After the server rejected the session this page asks no more without one.
THEOREM NoGuestAfterRejectionAlways == Spec => NoGuestAfterRejection
<1> DEFINE Step == \A q \in Requests :
                     rejected # None /\ flights[q].state = "idle" /\ flights'[q].state = "sent"
                       => flights'[q].session # None
<1>1. TypeOK /\ Coherent /\ [Next]_vars => [Step]_vars
  <2> SUFFICES ASSUME TypeOK, Coherent, [Next]_vars, NEW q \in Requests,
                      rejected # None, flights[q].state = "idle", flights'[q].state = "sent"
               PROVE  flights'[q].session # None
    OBVIOUS
  <2>0. flights \in [Requests -> Flight] /\ run \in Run /\ flights' # flights
    BY DEF TypeOK
  <2>1. ASSUME NEW p \in Requests, Ask(p), run.enabled PROVE flights'[q].session # None
    <3>1. p = q /\ flights'[q].session = run.session
      BY <2>0, <2>1, AskEffect, SentType
    <3>2. QED
      BY <2>1, <3>1 DEF Coherent, RunsHaveCredentials
  <2>2. CASE Rerun
    <3>1. PollingEnabled /\ available
      BY <2>2, AbandonedEffect DEF Rerun
    <3>2. PICK p \in Requests : RequestStatus(p, Inputs, Abandoned)
      BY <2>2, <3>1 DEF Rerun
    <3>3. p = q /\ flights'[q].session = Inputs.session
      BY <3>2, RequestStatusEffect, AbandonedEffect, InputsType, SentType
    <3>4. Inputs.session # None
      BY <3>1 DEF PollingEnabled, SessionWasRejected, Inputs
    <3>5. QED
      BY <3>3, <3>4
  <2>3. CASE NoticeEnvironment \/ FireTimer \/ RetryNow
    <3>1. run.enabled
      BY <2>3 DEF NoticeEnvironment, FireTimer, RetryNow, Coherent, WaitsOrSleeps
    <3>2. \E p \in Requests : Ask(p)
      BY <2>0, <2>3 DEF NoticeEnvironment, FireTimer, RetryNow
    <3>3. QED
      BY <2>1, <3>1, <3>2
  <2>4. ~Surroundings
    <3>1. \A s \in Sessions \cup {None} : ~Remount(s)
      BY AbandonedEffect DEF Remount
    <3>2. QED
      BY <2>0, <3>1 DEF Surroundings, AdvanceOrder, ChangeEnvironment, ResolveSession, LogOut,
         Navigate
  <2>5. ASSUME NEW p \in Requests, Serve(p) \/ Answer(p) \/ Discard(p) PROVE FALSE
    <3>1. flights'[p].state # "sent" /\ \A x \in Requests : x # p => flights'[x] = flights[x]
      <4>1. CASE Serve(p)
        BY <2>0, <4>1 DEF Serve, Flight
      <4>2. CASE Discard(p)
        BY <2>0, <4>2, IdleType DEF Discard
      <4>3. CASE Answer(p)
        <5>1. End(p)
          BY <4>3 DEF Answer, ReceiveStatus, FailTransiently, FailPermanently, FailUnauthorized
        <5>2. QED
          BY <5>1, EndEffect, IdleType
      <4>4. QED
        BY <2>5, <4>1, <4>2, <4>3
    <3>2. QED
      BY <3>1
  <2>6. flights' # flights => ~UNCHANGED vars
    BY DEF vars
  <2>7. QED
    BY <2>0, <2>2, <2>3, <2>4, <2>5, <2>6 DEF Next
<1>2. QED
  BY <1>1, CoherentAlways, PTL DEF Spec, NoGuestAfterRejection
=============================================================================
