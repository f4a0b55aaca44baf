-------------------------- MODULE CustomerCheckout --------------------------
(***************************************************************************)
(* The checkout page of one order in the customer's browser tabs, the      *)
(* attempt key that each tab keeps in its session storage, and the service *)
(* it calls, with either payment provider.                                 *)
(*                                                                         *)
(* The service is the one of module Checkout seen from the browser: an     *)
(* attempt is known by its key, and the two transactions of a request are  *)
(* the actions Serve and Provider...; sessions, events and clocks are left *)
(* out.  What a request meets on the network is Lose.                      *)
(***************************************************************************)
CONSTANTS
    Tabs,       \* browser tabs: each has a session storage of its own
    Holders,    \* tabs whose storage holds the order's guest access token
    Customers,  \* tabs in which a customer may sign in
    Fragile,    \* tabs whose storage may refuse to save
    Keys,       \* values crypto.randomUUID may return
    Requests,   \* checkout requests in progress at one time
    Providers,  \* payment providers the deployment may have chosen
    None        \* no key

ASSUME KnownTabs == Holders \cup Customers \cup Fragile \subseteq Tabs
ASSUME NoneIsNoKey == None \notin Keys
ASSUME KnownProviders == Providers \subseteq {"stripe_test", "demo"}

VARIABLES
    provider,  \* settings: payment_provider
    status,    \* the payment row of each key
    payable,   \* the order is still in status created
    visited,   \* keys whose hosted payment page the browser was sent to
    requests,  \* checkout requests between browser and service
    stored,    \* session storage: the attempt of the order
    identity,  \* what the authentication context says of each tab
    page,      \* the page of each tab
    cart       \* tabs whose cart has items

vars == <<provider, status, payable, visited, requests, stored, identity, page, cart>>

service == <<provider, status, payable, visited>>

-----------------------------------------------------------------------------
(* The payment row of a key, to the browser: pending without a stored      *)
(* identity, or with one.                                                   *)

Terminal == {"succeeded", "failed", "expired"}
Pending == {"incomplete", "open"}
Status == {"none"} \cup Pending \cup Terminal

\* Answers: the payment_status of a 200 or 201, an HTTP error that the page tells from
\* others, or no usable answer (404, 422, 503, time-out, network, invalid response).
Answers == {"pending", "401", "409", "429", "502", "unusable"} \cup Terminal

\* CheckoutFeedback; a rate limit whose retryAt has passed is a "retry".
Replaceable == {"definitive", "failed", "expired"}
Feedback == {"idle", "pending", "retry", "rate-limited", "redirect-failed", "capability",
             "succeeded"} \cup Replaceable

NoRequest == [pc |-> "idle", tab |-> None, listening |-> FALSE, key |-> None,
              as |-> "guest", answer |-> "unusable"]
NoPage == [open |-> FALSE, attempt |-> None, feedback |-> "idle", failure |-> FALSE]

RequestRow == [pc : {"idle", "sent", "calling", "answered"}, tab : Tabs \cup {None},
               listening : BOOLEAN, key : Keys \cup {None}, as : {"guest", "customer"},
               answer : Answers]
PageRow == [open : BOOLEAN, attempt : Keys \cup {None}, feedback : Feedback, failure : BOOLEAN]

TypeOK ==
    /\ provider \in Providers
    /\ status \in [Keys -> Status]
    /\ payable \in BOOLEAN
    /\ visited \subseteq Keys
    /\ requests \in [Requests -> RequestRow]
    /\ \A r \in Requests : requests[r].pc # "idle" => requests[r].tab \in Tabs /\ requests[r].key \in Keys
    /\ stored \in [Tabs -> Keys \cup {None}]
    /\ identity \in [Tabs -> {"none", "checking", "customer"}]
    /\ page \in [Tabs -> PageRow]
    /\ cart \subseteq Tabs

Init ==
    /\ provider \in Providers
    /\ status = [k \in Keys |-> "none"]
    /\ payable = TRUE
    /\ visited = {}
    /\ requests = [r \in Requests |-> NoRequest]
    /\ stored = [t \in Tabs |-> None]
    /\ identity = [t \in Tabs |-> "none"]
    /\ page = [t \in Tabs |-> NoPage]
    /\ cart = Tabs

-----------------------------------------------------------------------------
(* Identity of a tab.                                                      *)

HasOrderAccess(t) == identity[t] = "customer" \/ (identity[t] = "none" /\ t \in Holders)

\* The customer signs in on another page; the new token is validated.
SignIn(t) ==
    /\ t \in Customers
    /\ ~page[t].open
    /\ identity[t] = "none"
    /\ identity' = [identity EXCEPT ![t] = "checking"]
    /\ UNCHANGED <<service, requests, stored, page, cart>>

\* A validation ends; after a network failure the customer may clear the session instead.
ResolveSession(t) ==
    /\ identity[t] = "checking"
    /\ \E known \in {"customer", "none"} : identity' = [identity EXCEPT ![t] = known]
    /\ UNCHANGED <<service, requests, stored, page, cart>>

EndSession(t) == identity' = [identity EXCEPT ![t] = "none"]

-----------------------------------------------------------------------------
(* The page.                                                               *)

Used == {k \in Keys : \/ status[k] # "none"
                      \/ \E r \in Requests : requests[r].key = k
                      \/ \E t \in Tabs : k \in {stored[t], page[t].attempt}}

\* createCheckoutAttempt; when the values are used up it fails as it does in a browser
\* without randomUUID.
NewKeys == IF Keys \subseteq Used THEN {None} ELSE Keys \ Used

\* What the storage holds after saveCheckoutAttempt, whose result nobody looks at.
Saved(t, k) == IF t \in Fragile THEN {stored[t], k} ELSE {k}

\* Mutant: the stored attempt is not looked up.
CreateInitialAttempt(t, k, saved) ==
    IF ~HasOrderAccess(t) THEN k = None /\ saved = stored[t]
    ELSE k \in NewKeys /\ saved \in Saved(t, k)

\* The attempt k of a page that opens, and what the storage then holds.
ResolveInitialAttempt(t, k, saved) ==
    IF ~HasOrderAccess(t) THEN k = None /\ saved = stored[t]
    ELSE IF stored[t] # None THEN k = stored[t] /\ saved = stored[t]
    ELSE k \in NewKeys /\ saved \in Saved(t, k)

\* A load of the document validates the stored session first; navigation in the app and a
\* tab without a session do not.
Open(t) ==
    /\ ~page[t].open
    /\ \E k \in Keys \cup {None}, saved \in Keys \cup {None} :
         /\ ResolveInitialAttempt(t, k, saved)
         /\ page' = [page EXCEPT ![t] =
                       [open |-> TRUE, attempt |-> k, failure |-> FALSE,
                        feedback |-> IF k = None /\ HasOrderAccess(t) THEN "capability" ELSE "idle"]]
         /\ stored' = [stored EXCEPT ![t] = saved]
    /\ UNCHANGED <<service, requests, identity, cart>>

Load(t) ==
    /\ ~page[t].open
    /\ identity[t] = "customer"
    /\ identity' = [identity EXCEPT ![t] = "checking"]
    /\ page' = [page EXCEPT ![t] = [NoPage EXCEPT !.open = TRUE]]
    /\ UNCHANGED <<service, requests, stored, cart>>

\* Mutant: leaving does not silence the request in flight.
LeaveListening(t) ==
    /\ page[t].open
    /\ page' = [page EXCEPT ![t] = NoPage]
    /\ UNCHANGED <<service, requests, stored, identity, cart>>

\* Navigation, reload or the way to the hosted page: the request in flight is aborted in
\* the browser, and goes on at the service.
Leave(t) ==
    /\ page[t].open
    /\ page' = [page EXCEPT ![t] = NoPage]
    /\ requests' = [r \in Requests |->
                      IF requests[r].tab # t THEN requests[r]
                      ELSE IF requests[r].pc = "answered" THEN NoRequest
                      ELSE [requests[r] EXCEPT !.listening = FALSE]]
    /\ UNCHANGED <<service, stored, identity, cart>>

\* The customer goes on shopping elsewhere in the app.
FillCart(t) ==
    /\ ~page[t].open
    /\ cart' = cart \cup {t}
    /\ UNCHANGED <<service, requests, stored, identity, page>>

CheckoutDisabled(t) ==
    \/ page[t].feedback \in {"pending", "redirect-failed", "capability", "succeeded", "rate-limited"}
    \/ page[t].feedback \in Replaceable
    \/ page[t].failure

Show(t, feedback) == page' = [page EXCEPT ![t].feedback = feedback]
Expects(t) == {r \in Requests : requests[r].pc # "idle" /\ requests[r].tab = t /\ requests[r].listening}

Send(r, t, k) ==
    requests' = [requests EXCEPT ![r] =
                   [NoRequest EXCEPT !.pc = "sent", !.tab = t, !.listening = TRUE, !.key = k,
                                     !.as = IF identity[t] = "customer" THEN "customer" ELSE "guest"]]

\* Mutant: a click is not ignored while a request is pending.
ContinueAgain(t) ==
    /\ page[t].open /\ HasOrderAccess(t) /\ page[t].attempt # None
    /\ \E r \in Requests : requests[r].pc = "idle" /\ Send(r, t, page[t].attempt)
    /\ Show(t, "pending")
    /\ UNCHANGED <<service, stored, identity, cart>>

\* Mutant: an expired session does not disable the button.
ContinueAsGuest(t) ==
    /\ page[t].open /\ HasOrderAccess(t) /\ page[t].attempt # None
    /\ Expects(t) = {}
    /\ page[t].feedback \in {"idle", "retry"}
    /\ \E r \in Requests : requests[r].pc = "idle" /\ Send(r, t, page[t].attempt)
    /\ Show(t, "pending")
    /\ UNCHANGED <<service, stored, identity, cart>>

\* "Continue to secure payment".  A page that was loaded before its session was known has
\* no attempt yet.
StartCheckout(t) ==
    /\ page[t].open
    /\ HasOrderAccess(t)
    /\ ~CheckoutDisabled(t)
    /\ Expects(t) = {}
    /\ \E k \in Keys \cup {None}, saved \in Keys \cup {None} :
         /\ IF page[t].attempt # None THEN k = page[t].attempt /\ saved = stored[t]
            ELSE ResolveInitialAttempt(t, k, saved)
         /\ stored' = [stored EXCEPT ![t] = saved]
         /\ page' = [page EXCEPT ![t] = [@ EXCEPT !.attempt = k,
                       !.feedback = IF k = None THEN "capability" ELSE "pending"]]
         /\ IF k = None THEN UNCHANGED requests
            ELSE \E r \in Requests : requests[r].pc = "idle" /\ Send(r, t, k)
    /\ UNCHANGED <<service, identity, cart>>

\* "Start a new payment attempt".
StartNewAttempt(t) ==
    /\ page[t].open
    /\ HasOrderAccess(t) \/ page[t].failure
    /\ page[t].feedback \in Replaceable
    /\ \E k \in NewKeys :
         IF k = None THEN Show(t, "capability") /\ UNCHANGED stored
         ELSE /\ page' = [page EXCEPT ![t] = [@ EXCEPT !.attempt = k, !.feedback = "idle"]]
              /\ \E saved \in Saved(t, k) : stored' = [stored EXCEPT ![t] = saved]
    /\ UNCHANGED <<service, requests, identity, cart>>

WaitRateLimit(t) ==
    /\ page[t].feedback = "rate-limited"
    /\ Show(t, "retry")
    /\ UNCHANGED <<service, requests, stored, identity, cart>>

\* "Try payment redirect again".
RetryRedirect(t) ==
    /\ page[t].open
    /\ page[t].feedback = "redirect-failed"
    /\ visited' = visited \cup {page[t].attempt}
    /\ UNCHANGED <<provider, status, payable, requests, stored, identity, page, cart>>

\* The order summary of the page is refused because the session expired.
RejectSummary(t) ==
    /\ page[t].open
    /\ ~page[t].failure
    /\ identity[t] = "customer"
    /\ EndSession(t)
    /\ page' = [page EXCEPT ![t].failure = TRUE]
    /\ UNCHANGED <<service, requests, stored, cart>>

-----------------------------------------------------------------------------
(* Answers.                                                                *)

\* Mutant: a failure that settles nothing lets the customer replace the attempt.
MapUnusableToDefinitive == [ code \in {"409", "429", "502", "unusable"} |->
    IF code \in {"502", "unusable"} THEN "definitive" ELSE "retry" ]
\* Mutant: the page shows the status code.
MapToItself == [ code \in {"409", "429", "502", "unusable"} |-> code ]
\* Mutant: every error asks for a retry of the same attempt.
MapEverythingToRetry == [ code \in {"409", "429", "502", "unusable"} |-> "retry" ]

MapCheckoutError == [ code \in {"409", "429", "502", "unusable"} |->
    CASE code = "502" -> "definitive"
      [] code = "429" -> "rate-limited"
      [] OTHER -> "retry" ]

Drop(r) == requests' = [requests EXCEPT ![r] = NoRequest]
Heard(r) == requests[r].pc = "answered" /\ requests[r].listening

ReceiveError(r) ==
    /\ Heard(r)
    /\ requests[r].answer \in DOMAIN MapCheckoutError
    /\ Drop(r)
    /\ Show(requests[r].tab, MapCheckoutError[requests[r].answer])
    /\ UNCHANGED <<service, stored, identity, cart>>

\* A 401 that answers the session: it is not tried again as a guest.
ReceiveUnauthorized(r) ==
    LET t == requests[r].tab IN
    /\ Heard(r)
    /\ requests[r].answer = "401"
    /\ Drop(r)
    /\ page' = [page EXCEPT ![t] = [@ EXCEPT !.failure = TRUE, !.feedback = "retry"]]
    /\ EndSession(t)
    /\ UNCHANGED <<service, stored, cart>>

\* The hosted page opens, or the browser refuses to.  The page shows "pending" until the
\* browser leaves it.
ReceivePending(r) ==
    LET t == requests[r].tab IN
    /\ Heard(r)
    /\ requests[r].answer = "pending"
    /\ Drop(r)
    /\ cart' = cart \ {t}
    /\ \/ visited' = visited \cup {requests[r].key} /\ UNCHANGED page
       \/ Show(t, "redirect-failed") /\ UNCHANGED visited
    /\ UNCHANGED <<provider, status, payable, stored, identity>>

ReceiveTerminal(r) ==
    LET t == requests[r].tab IN
    /\ Heard(r)
    /\ requests[r].answer \in Terminal
    /\ Drop(r)
    /\ cart' = cart \ {t}
    /\ Show(t, requests[r].answer)
    /\ UNCHANGED <<service, stored, identity>>


-----------------------------------------------------------------------------
(* The service.                                                            *)

SomeIn(statuses) == \E k \in Keys : status[k] \in statuses

\* An answer that no page listens to is the end of its request.
Answer(r, code) ==
    requests' = [requests EXCEPT ![r] =
                   IF @.listening
                     THEN [@ EXCEPT !.pc = "answered", !.as = "guest", !.answer = code]
                     ELSE NoRequest]
Reply(r, code) == Answer(r, code) /\ UNCHANGED <<status>>

\* The token of a session may have expired whenever the service looks at it.
RejectToken(r) ==
    /\ requests[r].pc = "sent"
    /\ requests[r].as = "customer"
    /\ Answer(r, "401")
    /\ UNCHANGED <<service, stored, identity, page, cart>>

\* The limiter counts requests before anything else is known of them.
Limit(r) ==
    /\ requests[r].pc = "sent"
    /\ Answer(r, "429")
    /\ UNCHANGED <<service, stored, identity, page, cart>>

\* First transaction of checkout_order, by what it finds.  An owner needs no guest token.
\* Its answer to an attempt that is too old to be retried or replayed is that of Lose.
Serve(r) ==
    LET k == requests[r].key IN
    /\ provider = "stripe_test"
    /\ requests[r].pc = "sent"
    /\ \/ ~payable /\ Reply(r, "409")
       \/ SomeIn({"succeeded"}) /\ Reply(r, "409")
       \/ /\ payable /\ ~SomeIn({"succeeded"})
          /\ \/ status[k] = "failed" /\ Reply(r, "502")
             \/ status[k] = "expired" /\ Reply(r, "409")
             \/ status[k] = "open" /\ Reply(r, "pending")
             \/ /\ status[k] = "incomplete"
                /\ requests' = [requests EXCEPT ![r].pc = "calling"]
                /\ UNCHANGED status
             \/ status[k] = "none" /\ SomeIn(Pending) /\ Reply(r, "409")
             \/ /\ status[k] = "none" /\ ~SomeIn(Pending)
                /\ status' = [status EXCEPT ![k] = "incomplete"]
                /\ requests' = [requests EXCEPT ![r].pc = "calling"]
    /\ UNCHANGED <<provider, payable, visited, stored, identity, page, cart>>

\* Stripe created or repeated the session of the attempt; the second transaction.
ProviderAnswers(r) ==
    LET k == requests[r].key IN
    /\ requests[r].pc = "calling"
    /\ IF \E other \in Keys \ {k} : status[other] = "succeeded" THEN Reply(r, "409")
       ELSE \/ /\ status[k] = "incomplete"
               /\ status' = [status EXCEPT ![k] = "open"]
               /\ Answer(r, "pending")
            \/ status[k] = "open" /\ Reply(r, "pending")
            \/ status[k] = "succeeded" /\ Reply(r, "succeeded")
            \/ status[k] \in {"failed", "expired"} /\ Reply(r, "unusable")
    /\ UNCHANGED <<provider, payable, visited, stored, identity, page, cart>>

\* Stripe rejected the call definitively; the second transaction.
ProviderRejects(r) ==
    LET k == requests[r].key IN
    /\ requests[r].pc = "calling"
    /\ \/ SomeIn({"succeeded"}) /\ Reply(r, "409")
       \/ /\ ~SomeIn({"succeeded"})
          /\ \/ status[k] = "failed" /\ Reply(r, "502")
             \/ status[k] = "expired" /\ Reply(r, "unusable")
             \/ status[k] = "open" /\ Reply(r, "pending")
             \/ /\ status[k] = "incomplete"
                /\ status' = [status EXCEPT ![k] = "failed"]
                /\ Answer(r, "502")
    /\ UNCHANGED <<provider, payable, visited, stored, identity, page, cart>>

\* The one transaction of checkout_demo_order, which only the guest token authorizes; it
\* leaves no row pending.
ServeDemo(r) ==
    LET k == requests[r].key IN
    /\ provider = "demo"
    /\ requests[r].pc = "sent"
    /\ \/ requests[r].tab \notin Holders /\ Reply(r, "unusable")
       \/ /\ requests[r].tab \in Holders
          /\ \/ status[k] \in Terminal /\ Reply(r, status[k])
             \/ /\ status[k] = "none"
                /\ SomeIn({"succeeded"}) \/ ~payable
                /\ Reply(r, "409")
             \/ /\ status[k] = "none" /\ ~SomeIn({"succeeded"}) /\ payable
                /\ \E outcome \in Terminal :
                     /\ status' = [status EXCEPT ![k] = outcome]
                     /\ Answer(r, outcome)
    /\ UNCHANGED <<provider, payable, visited, stored, identity, page, cart>>

\* No usable answer: the call to Stripe was ambiguous, the service failed before or after
\* a transaction, or the network lost the request or its answer.
Lose(r) ==
    /\ requests[r].pc \in {"sent", "calling", "answered"}
    /\ Answer(r, "unusable")
    /\ UNCHANGED <<service, stored, identity, page, cart>>

\* What webhooks confirm: a session is paid once its page was visited, or expires.
Confirm(k) ==
    /\ \E outcome \in Terminal :
         /\ IF outcome = "expired" THEN status[k] \in Pending
            ELSE status[k] = "open" /\ k \in visited
         /\ status' = [status EXCEPT ![k] = outcome]
    /\ UNCHANGED <<provider, payable, visited, requests, stored, identity, page, cart>>

\* An administrator accepts a paid order or cancels one without blocking attempts.
LeaveCreated ==
    /\ payable
    /\ SomeIn({"succeeded"}) \/ ~SomeIn(Pending)
    /\ payable' = FALSE
    /\ UNCHANGED <<provider, status, visited, requests, stored, identity, page, cart>>

TabStep(t) ==
    \/ SignIn(t) \/ ResolveSession(t)
    \/ Open(t) \/ Load(t) \/ Leave(t) \/ FillCart(t)
    \/ StartCheckout(t) \/ StartNewAttempt(t) \/ WaitRateLimit(t) \/ RetryRedirect(t)
    \/ RejectSummary(t)

RequestStep(r) ==
    \/ RejectToken(r) \/ Limit(r) \/ Serve(r) \/ ProviderAnswers(r) \/ ProviderRejects(r)
    \/ ServeDemo(r) \/ Lose(r)
    \/ ReceiveError(r) \/ ReceiveUnauthorized(r) \/ ReceivePending(r) \/ ReceiveTerminal(r)

Next ==
    \/ \E t \in Tabs : TabStep(t)
    \/ \E r \in Requests : RequestStep(r)
    \/ \E k \in Keys : Confirm(k)
    \/ LeaveCreated

Spec == Init /\ [][Next]_vars

\* A customer who does not leave a page that waits for an answer ...
Patience ==
    \A t \in Tabs :
      page[t].open /\ ~page'[t].open => Expects(t) = {} /\ identity[t] # "checking"

\* ... reloads one that offers nothing more, and keeps pressing what it offers; a service
\* and a network that do not fail for ever.
OffersNothing(t) ==
    /\ Expects(t) = {}
    /\ page[t].failure \/ page[t].feedback \in {"pending", "redirect-failed", "capability"}

Fairness ==
    /\ \A t \in Tabs : /\ WF_vars(Open(t) \/ Load(t))
                       /\ WF_vars(ResolveSession(t))
                       /\ WF_vars(Leave(t) /\ OffersNothing(t))
                       /\ SF_vars(StartCheckout(t)) /\ SF_vars(StartNewAttempt(t))
                       /\ WF_vars(WaitRateLimit(t))
    /\ \A r \in Requests :
         /\ WF_vars(RejectToken(r)) /\ SF_vars(Serve(r)) /\ SF_vars(ServeDemo(r))
         /\ SF_vars(ProviderAnswers(r) \/ ProviderRejects(r))
         /\ SF_vars(ReceiveError(r) /\ requests[r].answer = "502") /\ SF_vars(ReceiveTerminal(r))
         /\ WF_vars(ReceiveError(r) \/ ReceiveUnauthorized(r) \/ ReceivePending(r))

FairSpec == Init /\ [][Next /\ Patience]_vars /\ Fairness

-----------------------------------------------------------------------------
(* Properties.                                                             *)

\* A page waits for at most one answer, and one that says that checkout is being prepared
\* waits for one or has sent the browser to the hosted page (pendingRef, startCheckout):
\* it never blocks its button for nothing.
OneRequestPerPage ==
    \A t \in Tabs :
      /\ \A r, q \in Expects(t) : r = q
      /\ page[t].feedback = "pending" => Expects(t) # {} \/ page[t].attempt \in visited

\* What the page tells the customer about the attempt it holds is what the service has
\* committed for its key, although answers of abandoned requests, other tabs and webhooks
\* intervene: an attempt that it calls unavailable, failed, expired or paid is so for good
\* (mapCheckoutError, startCheckout).
FeedbackIsTrue ==
    \A t \in Tabs :
      /\ page[t].feedback = "definitive" => status[page[t].attempt] = "failed"
      /\ page[t].feedback \in Terminal => status[page[t].attempt] = page[t].feedback
      /\ page[t].feedback = "redirect-failed" => status[page[t].attempt] \notin {"none", "incomplete"}

\* What a request in progress, the page that waits for it and the row of its key agree on,
\* whatever the other tabs, abandoned requests and webhooks do: the answer a page will hear
\* is to its present key and still true of it, a page that was left remembers nothing, and
\* a page holds another attempt than its storage only when the stored one has ended
\* (startCheckout, startNewAttempt, saveCheckoutAttempt).  It is inductive.
AnswerAgrees(r, t, k) ==
    /\ requests[r].listening =>
         page[t].open /\ page[t].attempt = k /\ page[t].feedback = "pending"
    /\ requests[r].pc = "answered" =>
         /\ requests[r].listening
         /\ requests[r].answer = "502" => status[k] = "failed"
         /\ requests[r].answer \in Terminal => status[k] = requests[r].answer
         /\ requests[r].answer = "pending" => status[k] \notin {"none", "incomplete"}

PageAgrees(t) ==
    /\ ~page[t].open => page[t] = NoPage
    /\ page[t].attempt = None => page[t].feedback \in {"idle", "capability"}
    /\ page[t].attempt # None /\ stored[t] \notin {None, page[t].attempt}
         => status[stored[t]] \in {"failed", "expired"}

Agreement ==
    /\ \A r \in Requests :
         requests[r].pc # "idle" => AnswerAgrees(r, requests[r].tab, requests[r].key)
    /\ \A t \in Tabs : PageAgrees(t)

\* An attempt that may still be paid is never given up for a new one: a page that stays
\* open replaces its key, and the storage its stored key, only when the payment of the old
\* key has failed or expired (D-060, D-082: network, time-out, 429 and 503 keep the attempt).
ReplacesOnlyFinished ==
    [][\A t \in Tabs :
         /\ page[t].open /\ page'[t].open /\ page[t].attempt # None /\ page'[t].attempt # page[t].attempt
              => status[page[t].attempt] \in {"failed", "expired"}
         /\ stored[t] # None /\ stored'[t] # stored[t]
              => status[stored[t]] \in {"failed", "expired"}]_vars

\* The cart is emptied only by a page that is open and holds an attempt that the service
\* has recorded; a late answer to a page that was left never empties a cart that was
\* filled since (mountedRef in startCheckout).
ClearsItsOwnCart ==
    [][\A t \in Tabs :
         t \in cart /\ t \notin cart' =>
           /\ page[t].open
           /\ page[t].attempt # None
           /\ status[page[t].attempt] \notin {"none", "incomplete"}]_vars

\* After a 401 has ended the session of an open page, the page sends no request, not even
\* with the guest token its tab holds, until it was left (authenticatedFailure).
NoGuestAfterRejection ==
    [][\A t \in Tabs :
         page[t].open /\ page[t].failure /\ page'[t].open =>
           Expects(t)' \subseteq Expects(t)]_vars

Holds(t, k) == stored[t] = k /\ payable /\ ~SomeIn({"succeeded"})
Replaced(t, k) == ~Holds(t, k) \/ page[t].attempt \notin {None, k} \/ NewKeys = {None}

\* A customer who waits for answers, presses what the page offers and reloads it when it
\* offers nothing gets a new attempt after the stored one failed or, from the demo
\* provider, expired (startNewAttempt).
ReplacesEndedAttempt ==
    \A t \in Holders, k \in Keys :
      (Holds(t, k) /\ (status[k] = "failed" \/ (status[k] = "expired" /\ provider = "demo")))
        ~> Replaced(t, k)

\* docs/PROJECT_CONTEXT.md: "After `failed` or `expired`, the user may cancel the order or
\* create a new payment attempt."  As ReplacesEndedAttempt, for an attempt that expired,
\* whichever provider it is from.
ReplacesExpiredAttempt ==
    \A t \in Holders, k \in Keys :
      (Holds(t, k) /\ status[k] = "expired") ~> Replaced(t, k)
=============================================================================
