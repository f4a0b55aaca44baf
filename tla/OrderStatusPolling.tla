-------------------------- MODULE OrderStatusPolling --------------------------
(***************************************************************************)
(* The customer's order status page: a hook that polls one order, never    *)
(* with two requests at once and not in the background, across navigation, *)
(* sign-in, expiry of the session, lost answers and a page that is hidden  *)
(* or offline.                                                             *)
(*                                                                         *)
(* An effect runs for one set of inputs, `run', and its closure variables  *)
(* are replaced when the inputs change; requests of earlier runs may still *)
(* be answered.  A task of the browser is one action, with the microtasks  *)
(* it queues.  Delays are abstracted: a timer fires some time after it was *)
(* set, whatever the number of failures it was computed from.              *)
(***************************************************************************)
EXTENDS OrderGraph

CONSTANTS
    Orders,        \* orders whose status page the customer opens
    GuestOrders,   \* the ones whose access token is in session storage
    Sessions,      \* authenticated sessions
    Requests,      \* status requests in flight at once, abandoned ones included
    Unresolved,    \* the saved session is being validated, or could not be
    None

ASSUME PollingConstants ==
    /\ GuestOrders \subseteq Orders
    /\ None \notin Orders \cup Sessions
    /\ Unresolved \notin Sessions \cup {None}

VARIABLES
    server,     \* status of each order in the database
    available,  \* the page is visible and the browser online
    auth,       \* the session of AuthContext
    rejected,   \* rejectedSession of the page
    order,      \* the order in the route
    run,        \* inputs of the effect in force
    stopped,    \* closure variables of that effect: stopped ...
    suspended,  \* ... environment as last noticed ...
    inFlight,   \* ... a request is awaited ...
    timer,      \* ... a timer is set
    flights,    \* requests on the network
    shown       \* what the hook returns: status, error and spinner

page == <<auth, rejected, order, run>>
vars == <<server, available, page, stopped, suspended, inFlight, timer, flights, shown>>

TerminalStatus == {"completed", "cancelled"}
Errors == {"none", "access", "contract", "transient"}

Run == [order : Orders \cup {None}, session : Sessions \cup {None}, enabled : BOOLEAN]
Idle == [state |-> "idle", live |-> FALSE, order |-> None, session |-> None, status |-> None]
Flight == [state : {"idle", "sent", "answered"}, live : BOOLEAN, order : Orders \cup {None},
           session : Sessions \cup {None}, status : OrderStatus \cup {None}]
Shown == [order : Orders \cup {None}, status : OrderStatus \cup {None}, error : Errors,
          busy : {"no", "loading", "refreshing"}]

TypeOK ==
    /\ server \in [Orders -> OrderStatus]
    /\ available \in BOOLEAN
    /\ auth \in Sessions \cup {None, Unresolved}
    /\ rejected \in Sessions \cup {None}
    /\ order \in Orders
    /\ run \in Run
    /\ stopped \in BOOLEAN
    /\ suspended \in BOOLEAN
    /\ inFlight \in BOOLEAN
    /\ timer \in BOOLEAN
    /\ flights \in [Requests -> Flight]
    /\ shown \in Shown

-----------------------------------------------------------------------------
(* What the page passes to the hook.                                       *)

Session == IF auth \in Sessions THEN auth ELSE None

\* Mutant: the rejection is forgotten when the session ends.
RejectedSessionIsCurrent == rejected # None /\ Session = rejected

SessionWasRejected == rejected # None /\ Session \in {None, rejected}

PollingEnabled ==
    /\ ~SessionWasRejected
    /\ \/ Session # None
       \/ auth = None /\ order \in GuestOrders

Inputs == [order |-> order, session |-> Session, enabled |-> PollingEnabled]

NoRun == [order |-> None, session |-> None, enabled |-> FALSE]
Nothing(busy) == [order |-> None, status |-> None, error |-> "none", busy |-> busy]

Init ==
    /\ server = [o \in Orders |-> "created"]
    /\ available \in BOOLEAN
    /\ auth \in {None, Unresolved}
    /\ rejected = None
    /\ order \in Orders
    /\ run = NoRun
    /\ stopped = TRUE
    /\ suspended = ~available
    /\ inFlight = FALSE
    /\ timer = FALSE
    /\ flights = [q \in Requests |-> Idle]
    /\ shown = Nothing("no")

-----------------------------------------------------------------------------
(* The surroundings of the hook.                                           *)

AdvanceOrder(o, status) ==
    /\ <<server[o], status>> \in AllowedTransitions
    /\ server' = [server EXCEPT ![o] = status]
    /\ UNCHANGED <<available, page, stopped, suspended, inFlight, timer, flights, shown>>

ChangeEnvironment ==
    /\ available' = ~available
    /\ UNCHANGED <<server, page, stopped, suspended, inFlight, timer, flights, shown>>

\* The saved session is validated, or the customer logs out.
ResolveSession(s) ==
    /\ auth = Unresolved
    /\ auth' = s
    /\ UNCHANGED <<server, available, rejected, order, run>>
    /\ UNCHANGED <<stopped, suspended, inFlight, timer, flights, shown>>

LogOut ==
    /\ auth # None
    /\ auth' = None
    /\ UNCHANGED <<server, available, rejected, order, run>>
    /\ UNCHANGED <<stopped, suspended, inFlight, timer, flights, shown>>

Navigate(o) ==
    /\ o # order
    /\ order' = o
    /\ UNCHANGED <<server, available, auth, rejected, run>>
    /\ UNCHANGED <<stopped, suspended, inFlight, timer, flights, shown>>

\* Mutant: a run that is replaced is not cleaned up.
StillActive == flights

\* The cleanup of a run: its request, if it has one, is aborted and no longer acts.
Abandoned == [q \in Requests |-> [flights[q] EXCEPT !.live = FALSE]]

\* The page is left, for instance to sign in, and opened again.
Remount(s) ==
    /\ run # NoRun
    /\ auth' = s
    /\ rejected' = None
    /\ run' = NoRun
    /\ stopped' = TRUE
    /\ inFlight' = FALSE
    /\ timer' = FALSE
    /\ flights' = Abandoned
    /\ shown' = Nothing("no")
    /\ UNCHANGED <<server, available, order, suspended>>

-----------------------------------------------------------------------------
(* The effect.                                                             *)

Sent(r) == [state |-> "sent", live |-> TRUE, order |-> r.order, session |-> r.session,
            status |-> None]

\* requestStatus for the inputs r once its guards hold, with a request q that is free.
RequestStatus(q, r, others) ==
    /\ others[q].state = "idle"
    /\ flights' = [others EXCEPT ![q] = Sent(r)]
    /\ inFlight' = TRUE
    /\ timer' = FALSE

Busy(status) == IF status = None THEN "loading" ELSE "refreshing"

\* Mutant: a new run inherits that the old one had stopped.
StaysStopped == (run # NoRun /\ stopped) \/ ~PollingEnabled

StopsAtOnce == ~PollingEnabled

\* The inputs changed: the old run is cleaned up and a new one starts.
Rerun ==
    /\ run # Inputs
    /\ run' = Inputs
    /\ stopped' = StopsAtOnce
    /\ suspended' = ~available
    /\ IF PollingEnabled /\ available
         THEN /\ \E q \in Requests : RequestStatus(q, Inputs, Abandoned)
              /\ shown' = Nothing("loading")
         ELSE /\ flights' = Abandoned
              /\ inFlight' = FALSE
              /\ timer' = FALSE
              /\ shown' = Nothing("no")
    /\ UNCHANGED <<server, available, auth, rejected, order>>

Ask(q) ==
    /\ RequestStatus(q, run, flights)
    /\ shown' = [shown EXCEPT !.error = "none", !.busy = Busy(shown.status)]

\* Mutant: coming back does not ask for the status.
NoticeQuietly ==
    /\ run.enabled
    /\ suspended' = ~available
    /\ suspended' # suspended
    /\ timer' = (timer /\ ~suspended')
    /\ UNCHANGED <<server, available, page, stopped, inFlight, flights, shown>>

\* The visibilitychange, online and offline handler.
NoticeEnvironment ==
    /\ run.enabled
    /\ suspended = available
    /\ suspended' = ~available
    /\ IF available /\ ~stopped /\ ~inFlight
         THEN \E q \in Requests : Ask(q)
         ELSE /\ timer' = (timer /\ available)
              /\ UNCHANGED <<inFlight, flights, shown>>
    /\ UNCHANGED <<server, available, page, stopped>>

FireTimer ==
    /\ timer
    /\ \E q \in Requests : Ask(q)
    /\ UNCHANGED <<server, available, page, stopped, suspended>>

\* Mutant: a manual retry does not look for a request in flight.
RetryBeside ==
    /\ run.enabled
    /\ ~suspended
    /\ stopped' = FALSE
    /\ \E q \in Requests : Ask(q)
    /\ UNCHANGED <<server, available, page, suspended>>

RetryNow ==
    /\ run.enabled
    /\ ~suspended
    /\ ~inFlight
    /\ stopped' = FALSE
    /\ \E q \in Requests : Ask(q)
    /\ UNCHANGED <<server, available, page, suspended>>

\* The server reads the order.
Serve(q) ==
    /\ flights[q].state = "sent"
    /\ flights' = [flights EXCEPT ![q].state = "answered", ![q].status = server[flights[q].order]]
    /\ UNCHANGED <<server, available, page, stopped, suspended, inFlight, timer, shown>>

\* A request of the run in force ends.
End(q) ==
    /\ flights[q].live
    /\ flights' = [flights EXCEPT ![q] = Idle]
    /\ inFlight' = FALSE
    /\ UNCHANGED <<server, available, order, run, suspended>>

\* Then polling stops, or the next request is scheduled.
Stop == stopped' = TRUE /\ timer' = FALSE
Schedule == stopped' = FALSE /\ timer' = ~suspended

\* Mutant: the answer of an abandoned request is shown.
ReceiveAnyStatus(q) ==
    /\ flights[q].state = "answered"
    /\ flights' = [flights EXCEPT ![q] = Idle]
    /\ inFlight' = FALSE
    /\ stopped' = (flights[q].status \in TerminalStatus)
    /\ timer' = (~stopped' /\ ~suspended)
    /\ shown' = [order |-> flights[q].order, status |-> flights[q].status,
                 error |-> "none", busy |-> "no"]
    /\ UNCHANGED <<server, available, page, suspended>>

ReceiveStatus(q) ==
    /\ flights[q].state = "answered"
    /\ End(q)
    /\ IF flights[q].status \in TerminalStatus THEN Stop ELSE Schedule
    /\ shown' = [order |-> flights[q].order, status |-> flights[q].status,
                 error |-> "none", busy |-> "no"]
    /\ UNCHANGED <<auth, rejected>>

\* Mutant: an error is passed on unclassified.
FailedSomehow(error) == [shown EXCEPT !.error = "unknown", !.busy = "no"]

Failed(error) == [shown EXCEPT !.error = error, !.busy = "no"]

\* Mutant: polling gives up after a failure that may be retried.
FailForGood(q) ==
    /\ flights[q].state # "idle"
    /\ End(q) /\ Stop
    /\ shown' = Failed("transient")
    /\ UNCHANGED <<auth, rejected>>

\* The network, a timeout or a server error loses the answer.
FailTransiently(q) ==
    /\ flights[q].state # "idle"
    /\ End(q) /\ Schedule
    /\ shown' = Failed("transient")
    /\ UNCHANGED <<auth, rejected>>

\* 404, or an answer the client does not accept.
FailPermanently(q) ==
    /\ flights[q].state # "idle"
    /\ End(q) /\ Stop
    /\ \E error \in {"access", "contract"} : shown' = Failed(error)
    /\ UNCHANGED <<auth, rejected>>

\* 401 while signed in: the session is ended unless it was replaced, and polling does not
\* go on as a guest.
FailUnauthorized(q) ==
    /\ flights[q].state # "idle"
    /\ flights[q].session # None
    /\ End(q) /\ Stop
    /\ shown' = Failed("access")
    /\ rejected' = run.session
    /\ auth' = IF auth = run.session THEN None ELSE auth

\* A request of an earlier run ends without effect.
Discard(q) ==
    /\ flights[q].state # "idle"
    /\ ~flights[q].live
    /\ flights' = [flights EXCEPT ![q] = Idle]
    /\ UNCHANGED <<server, available, page, stopped, suspended, inFlight, timer, shown>>

-----------------------------------------------------------------------------
Surroundings ==
    \/ \E o \in Orders, status \in OrderStatus : AdvanceOrder(o, status)
    \/ ChangeEnvironment
    \/ \E s \in Sessions \cup {None} : ResolveSession(s) \/ Remount(s)
    \/ LogOut
    \/ \E o \in Orders : Navigate(o)

Answer(q) ==
    ReceiveStatus(q) \/ FailTransiently(q) \/ FailPermanently(q) \/ FailUnauthorized(q)

Next ==
    \/ Surroundings
    \/ Rerun \/ NoticeEnvironment \/ FireTimer \/ RetryNow
    \/ \E q \in Requests : Serve(q) \/ Answer(q) \/ Discard(q)

Spec == Init /\ [][Next]_vars

\* The browser runs the effect, its event handlers and its timers, and every request ends
\* within its timeout.  A request that is tried again and again reaches the server some time,
\* and then some time its answer arrives.
Fairness ==
    /\ WF_vars(Rerun) /\ WF_vars(NoticeEnvironment) /\ WF_vars(FireTimer)
    /\ \A q \in Requests : /\ WF_vars(Answer(q)) /\ WF_vars(Discard(q))
                           /\ SF_vars(Serve(q)) /\ SF_vars(ReceiveStatus(q))

FairSpec == Spec /\ Fairness

-----------------------------------------------------------------------------
Live == {q \in Requests : flights[q].state # "idle" /\ flights[q].live}

\* The hook never has two requests in flight, and its spinner turns exactly while it waits
\* for one.
OneRequestAtATime ==
    /\ \A p, q \in Live : p = q
    /\ inFlight <=> Live # {}
    /\ inFlight <=> shown.busy # "no"

\* Polling never falls asleep: as long as it is neither stopped nor suspended, something is
\* pending that will ask again.
NeverSilentlyIdle ==
    run.enabled /\ ~stopped /\ ~suspended => inFlight \/ timer

\* A stopped hook has a reason to show: the order's end or an error.
StoppedForAReason ==
    run.enabled /\ stopped =>
        \/ shown.status \in TerminalStatus
        \/ shown.error \in {"access", "contract"}

\* What is shown is about the order that the effect polls, never about the one before,
\* whose answer may still arrive.
ShowsItsOrder ==
    shown.status # None => shown.order = run.order

\* The statuses an order may have after each.
Later == [ created   |-> OrderStatus,
           accepted  |-> {"accepted", "preparing", "ready", "completed"},
           preparing |-> {"preparing", "ready", "completed"},
           ready     |-> {"ready", "completed"},
           completed |-> {"completed"},
           cancelled |-> {"cancelled"} ]

-----------------------------------------------------------------------------
(* The inductive invariant behind the properties.                          *)

\* A request that may still act was sent for the inputs of the run in force.
LiveRequestsAreTheRuns ==
    \A q \in Live :
        /\ run.enabled
        /\ flights[q].order = run.order
        /\ flights[q].session = run.session

\* The closure variables exclude one another: a hook that waits has no timer, one that
\* stopped has neither.
WaitsOrSleeps ==
    /\ inFlight => ~stopped
    /\ timer => run.enabled /\ ~stopped /\ ~suspended /\ ~inFlight

RunsHaveCredentials ==
    run.enabled =>
        /\ run.order \in Orders
        /\ rejected # None => run.session # None

\* Every status that was read is one the order has left behind or still has, and the answer
\* awaited is no older than what is shown.
AnswersAreTrue ==
    /\ \A q \in Requests :
         /\ flights[q].state # "idle" => flights[q].order \in Orders
         /\ flights[q].state = "answered" =>
              flights[q].status \in OrderStatus /\ server[flights[q].order] \in Later[flights[q].status]
    /\ shown.status # None =>
         /\ shown.order \in Orders
         /\ server[shown.order] \in Later[shown.status]
         /\ \A q \in Live : flights[q].state = "answered" => flights[q].status \in Later[shown.status]

Coherent ==
    /\ OneRequestAtATime
    /\ NeverSilentlyIdle
    /\ StoppedForAReason
    /\ ShowsItsOrder
    /\ LiveRequestsAreTheRuns
    /\ WaitsOrSleeps
    /\ RunsHaveCredentials
    /\ AnswersAreTrue

-----------------------------------------------------------------------------
(* What a step may never do, and what eventually happens.                  *)

\* What the customer sees never goes back: within one run of the effect a status shown is
\* replaced only by one that the order reaches from it.
StatusNeverRegresses ==
    [][shown.status # None /\ shown'.status # None /\ run' = run
         => shown'.status \in Later[shown.status]]_vars

\* Once the server rejected the customer's session, this page does not go on with the guest
\* token that it may hold for the order, also after that session was ended.
NoGuestAfterRejection ==
    [][\A q \in Requests :
         rejected # None /\ flights[q].state = "idle" /\ flights'[q].state = "sent"
           => flights'[q].session # None]_vars

\* A page that stays open, visible and online ends up showing the status of its order.
Watching(o) ==
    run.order = o /\ run.enabled /\ ~suspended /\ shown.error \notin {"access", "contract"}

EventuallyCurrent ==
    \A o \in Orders : <>[]Watching(o) => <>[](shown.status = server[o])
=============================================================================
