----------------------- MODULE CustomerCheckoutProofs -----------------------
(***************************************************************************)
(* Theorems about CustomerCheckout for every set of tabs, keys, requests   *)
(* and providers.                                                          *)
(***************************************************************************)
EXTENDS CustomerCheckout, TLAPS

-----------------------------------------------------------------------------
(* What the pieces of the actions do.                                      *)

LEMMA NewKeysAreUnused ==
    ASSUME NEW k \in NewKeys, k # None
    PROVE  /\ k \in Keys
           /\ status[k] = "none"
           /\ \A t \in Tabs : stored[t] # k /\ page[t].attempt # k
BY DEF NewKeys, Used

LEMMA NewKeysType == NewKeys \subseteq Keys \cup {None}
BY DEF NewKeys

LEMMA RowTypes ==
    /\ NoRequest \in RequestRow /\ NoRequest.pc = "idle"
    /\ NoPage \in PageRow /\ ~NoPage.open /\ NoPage.attempt = None
    /\ NoPage.feedback = "idle" /\ ~NoPage.failure
BY DEF NoRequest, NoPage, RequestRow, PageRow, Answers, Terminal, Feedback

LEMMA MapType ==
    /\ DOMAIN MapCheckoutError = {"409", "429", "502", "unusable"}
    /\ \A code \in DOMAIN MapCheckoutError :
         /\ MapCheckoutError[code] \in {"definitive", "rate-limited", "retry"}
         /\ MapCheckoutError[code] = "definitive" => code = "502"
BY DEF MapCheckoutError

\* A new answer: its row, and what is left of the others.
LEMMA AnswerEffect ==
    ASSUME TypeOK, NEW r \in Requests, requests[r].pc # "idle", NEW code \in Answers,
           Answer(r, code)
    PROVE  /\ requests' \in [Requests -> RequestRow]
           /\ \A q \in Requests : q # r => requests'[q] = requests[q]
           /\ requests[r].listening =>
                /\ requests'[r].pc = "answered" /\ requests'[r].answer = code
                /\ requests'[r].tab = requests[r].tab /\ requests'[r].key = requests[r].key
                /\ requests'[r].listening
           /\ ~requests[r].listening => requests'[r] = NoRequest
<1>1. CASE requests[r].listening
  <2>1. requests' = [requests EXCEPT ![r] =
                       [requests[r] EXCEPT !.pc = "answered", !.as = "guest", !.answer = code]]
    BY <1>1 DEF Answer
  <2>2. QED
    BY <1>1, <2>1 DEF TypeOK, RequestRow
<1>2. CASE ~requests[r].listening
  <2>1. requests' = [requests EXCEPT ![r] = NoRequest]
    BY <1>2 DEF Answer
  <2>2. QED
    BY <1>2, <2>1, RowTypes DEF TypeOK
<1>3. QED
  BY <1>1, <1>2

LEMMA SendEffect ==
    ASSUME TypeOK, NEW r \in Requests, NEW t \in Tabs, NEW k \in Keys, Send(r, t, k)
    PROVE  /\ requests' \in [Requests -> RequestRow]
           /\ \A q \in Requests : q # r => requests'[q] = requests[q]
           /\ requests'[r].pc = "sent" /\ requests'[r].tab = t
           /\ requests'[r].key = k /\ requests'[r].listening
<1> DEFINE as == IF identity[t] = "customer" THEN "customer" ELSE "guest"
           new == [NoRequest EXCEPT !.pc = "sent", !.tab = t, !.listening = TRUE, !.key = k,
                                    !.as = as]
<1>1. as \in {"guest", "customer"}
  OBVIOUS
<1> HIDE DEF as
<1>2. new \in RequestRow /\ new.pc = "sent" /\ new.tab = t /\ new.key = k /\ new.listening
  BY <1>1 DEF NoRequest, RequestRow, Answers
<1>3. requests' = [requests EXCEPT ![r] = new]
  BY DEF Send, as
<1> HIDE DEF new
<1>4. QED
  BY <1>2, <1>3 DEF TypeOK

LEMMA DropEffect ==
    ASSUME TypeOK, NEW r \in Requests, Drop(r)
    PROVE  /\ requests' \in [Requests -> RequestRow]
           /\ requests'[r] = NoRequest
           /\ \A q \in Requests : q # r => requests'[q] = requests[q]
BY RowTypes DEF TypeOK, Drop

LEMMA ShowEffect ==
    ASSUME TypeOK, NEW t \in Tabs, NEW feedback \in Feedback, Show(t, feedback)
    PROVE  /\ page' \in [Tabs -> PageRow]
           /\ page'[t].open = page[t].open /\ page'[t].attempt = page[t].attempt
           /\ page'[t].failure = page[t].failure
           /\ page'[t].feedback = feedback
           /\ \A u \in Tabs : u # t => page'[u] = page[u]
BY DEF TypeOK, Show, PageRow

-----------------------------------------------------------------------------
(* A step of the service for request r, as the browser sees it.            *)

TellsTheTruth(code, st) ==
    /\ code = "502" => st = "failed"
    /\ code \in Terminal => st = code
    /\ code = "pending" => st \notin {"none", "incomplete"}

Grows(before, after) ==
    /\ before \in Terminal => after = before
    /\ before \notin {"none", "incomplete"} => after \notin {"none", "incomplete"}

ServiceStep(r) ==
    \/ RejectToken(r) \/ Limit(r) \/ Serve(r) \/ ProviderAnswers(r) \/ ProviderRejects(r)
    \/ ServeDemo(r) \/ Lose(r)

\* The row of the request's key is the only one that changes, it grows, and the new answer
\* is true of it.
LEMMA ServiceOutcome ==
    ASSUME TypeOK, NEW r \in Requests, ServiceStep(r)
    PROVE  /\ requests[r].pc # "idle"
           /\ status' \in [Keys -> Status]
           /\ \A k \in Keys : Grows(status[k], status'[k])
           /\ UNCHANGED <<provider, payable, visited, stored, identity, page, cart>>
           /\ \/ \E code \in Answers : /\ Answer(r, code)
                                       /\ TellsTheTruth(code, status'[requests[r].key])
              \/ /\ requests[r].pc # "answered"
                 /\ requests' = [requests EXCEPT ![r].pc = "calling"]
<1> DEFINE k == requests[r].key
<1>1. status \in [Keys -> Status]
  BY DEF TypeOK
<1>2. requests[r].pc # "idle"
  BY DEF ServiceStep, RejectToken, Limit, Serve, ProviderAnswers, ProviderRejects, ServeDemo, Lose
<1>3. k \in Keys
  BY <1>2 DEF TypeOK
<1> HIDE DEF k
<1>4. {"401", "409", "429", "502", "unusable", "pending"} \subseteq Answers /\ Terminal \subseteq Answers
  BY DEF Answers
<1>5. CASE RejectToken(r) \/ Limit(r) \/ Lose(r)
  BY <1>1, <1>2, <1>4, <1>5
     DEF RejectToken, Limit, Lose, service, TellsTheTruth, Grows, Terminal
<1>6. CASE Serve(r)
  <2>1. requests[r].pc = "sent" /\ UNCHANGED <<provider, payable, visited, stored, identity, page, cart>>
    BY <1>6 DEF Serve
  <2>2. \/ Reply(r, "409") \/ Reply(r, "unusable")
        \/ status[k] = "failed" /\ Reply(r, "502")
        \/ status[k] = "open" /\ Reply(r, "pending")
        \/ UNCHANGED status /\ requests' = [requests EXCEPT ![r].pc = "calling"]
        \/ /\ status[k] = "none" /\ status' = [status EXCEPT ![k] = "incomplete"]
           /\ requests' = [requests EXCEPT ![r].pc = "calling"]
    BY <1>6 DEF Serve, k
  <2>3. \A code \in {"409", "unusable"} : Reply(r, code) =>
          Answer(r, code) /\ TellsTheTruth(code, status'[k])
    BY DEF Reply, TellsTheTruth, Terminal
  <2>4. CASE UNCHANGED status
    BY <1>1, <1>2, <1>4, <2>1, <2>2, <2>3, <2>4 DEF Reply, TellsTheTruth, Grows, Terminal, k
  <2>5. CASE status' # status
    <3>1. /\ status[k] = "none" /\ status' = [status EXCEPT ![k] = "incomplete"]
          /\ requests' = [requests EXCEPT ![r].pc = "calling"]
      BY <2>2, <2>5 DEF Reply
    <3>2. QED
      BY <1>1, <1>2, <1>3, <2>1, <3>1 DEF Grows, Status, Pending, Terminal
  <2>6. QED
    BY <2>4, <2>5
<1>7. CASE ProviderAnswers(r) \/ ProviderRejects(r)
  <2>1. requests[r].pc = "calling" /\ UNCHANGED <<provider, payable, visited, stored, identity, page, cart>>
    BY <1>7 DEF ProviderAnswers, ProviderRejects
  <2>2. \/ Reply(r, "409") \/ Reply(r, "unusable")
        \/ status[k] = "failed" /\ Reply(r, "502")
        \/ status[k] = "open" /\ Reply(r, "pending")
        \/ status[k] = "succeeded" /\ Reply(r, "succeeded")
        \/ \E st \in {"open", "failed"} :
             /\ status[k] = "incomplete" /\ status' = [status EXCEPT ![k] = st]
             /\ Answer(r, IF st = "open" THEN "pending" ELSE "502")
    BY <1>7 DEF ProviderAnswers, ProviderRejects, k
  <2>3. CASE UNCHANGED status /\ \E code \in Answers : Answer(r, code) /\ TellsTheTruth(code, status'[k])
    BY <1>1, <1>2, <2>1, <2>3 DEF Grows, k
  <2>4. ASSUME NEW st \in {"open", "failed"}, status[k] = "incomplete",
               status' = [status EXCEPT ![k] = st],
               Answer(r, IF st = "open" THEN "pending" ELSE "502")
        PROVE  /\ status' \in [Keys -> Status]
               /\ \A j \in Keys : Grows(status[j], status'[j])
               /\ \E code \in Answers : Answer(r, code) /\ TellsTheTruth(code, status'[k])
    <3>1. /\ status' \in [Keys -> Status] /\ status'[k] = st
          /\ \A j \in Keys : Grows(status[j], status'[j])
      BY <1>1, <1>3, <2>4 DEF Grows, Status, Pending, Terminal
    <3>2. CASE st = "open"
      BY <1>4, <2>4, <3>1, <3>2 DEF TellsTheTruth, Terminal
    <3>3. CASE st = "failed"
      BY <1>4, <2>4, <3>1, <3>3 DEF TellsTheTruth, Terminal
    <3>4. QED
      BY <3>1, <3>2, <3>3
  <2>5. CASE \/ Reply(r, "409") \/ Reply(r, "unusable")
             \/ status[k] = "failed" /\ Reply(r, "502")
             \/ status[k] = "open" /\ Reply(r, "pending")
             \/ status[k] = "succeeded" /\ Reply(r, "succeeded")
    BY <1>4, <2>3, <2>5 DEF Reply, TellsTheTruth, Terminal
  <2>6. QED
    BY <1>2, <2>1, <2>2, <2>3, <2>4, <2>5 DEF k
<1>8. CASE ServeDemo(r)
  <2>1. requests[r].pc = "sent" /\ UNCHANGED <<provider, payable, visited, stored, identity, page, cart>>
    BY <1>8 DEF ServeDemo
  <2>2. \/ Reply(r, "unusable") \/ Reply(r, "409")
        \/ status[k] \in Terminal /\ Reply(r, status[k])
        \/ \E outcome \in Terminal : /\ status[k] = "none"
                                     /\ status' = [status EXCEPT ![k] = outcome]
                                     /\ Answer(r, outcome)
    BY <1>8 DEF ServeDemo, k
  <2>3. ASSUME NEW outcome \in Terminal, status[k] = "none",
               status' = [status EXCEPT ![k] = outcome], Answer(r, outcome)
        PROVE  /\ status' \in [Keys -> Status]
               /\ \A j \in Keys : Grows(status[j], status'[j])
               /\ \E code \in Answers : Answer(r, code) /\ TellsTheTruth(code, status'[k])
    <3>1. /\ status' \in [Keys -> Status] /\ status'[k] = outcome
          /\ \A j \in Keys : Grows(status[j], status'[j])
      BY <1>1, <1>3, <2>3 DEF Grows, Status, Pending, Terminal
    <3>2. QED
      BY <1>4, <2>3, <3>1 DEF TellsTheTruth, Terminal
  <2>4. CASE Reply(r, "unusable") \/ Reply(r, "409")
    BY <1>1, <1>2, <1>4, <2>1, <2>4 DEF Reply, TellsTheTruth, Grows, Terminal, k
  <2>5. CASE status[k] \in Terminal /\ Reply(r, status[k])
    BY <1>1, <1>2, <1>4, <2>1, <2>5 DEF Reply, TellsTheTruth, Grows, Terminal, k
  <2>6. QED
    BY <1>2, <2>1, <2>2, <2>3, <2>4, <2>5 DEF k
<1>9. QED
  BY <1>5, <1>6, <1>7, <1>8 DEF ServiceStep

LEMMA ServiceRequests ==
    ASSUME TypeOK, NEW r \in Requests, ServiceStep(r)
    PROVE  /\ requests' \in [Requests -> RequestRow]
           /\ \A q \in Requests : q # r => requests'[q] = requests[q]
           /\ \/ ~requests[r].listening /\ requests'[r] = NoRequest
              \/ /\ requests'[r].tab = requests[r].tab /\ requests'[r].key = requests[r].key
                 /\ requests'[r].listening = requests[r].listening
                 /\ requests'[r].pc # "idle"
                 /\ requests'[r].pc = "answered" =>
                      /\ requests[r].listening
                      /\ TellsTheTruth(requests'[r].answer, status'[requests[r].key])
<1>1. requests[r].pc # "idle"
  BY ServiceOutcome
<1>3. CASE \E code \in Answers : /\ Answer(r, code)
                                 /\ TellsTheTruth(code, status'[requests[r].key])
  <2>1. PICK code \in Answers : /\ Answer(r, code)
                                /\ TellsTheTruth(code, status'[requests[r].key])
    BY <1>3
  <2>2. /\ requests' \in [Requests -> RequestRow]
        /\ \A q \in Requests : q # r => requests'[q] = requests[q]
        /\ requests[r].listening =>
             /\ requests'[r].pc = "answered" /\ requests'[r].answer = code
             /\ requests'[r].tab = requests[r].tab /\ requests'[r].key = requests[r].key
             /\ requests'[r].listening
        /\ ~requests[r].listening => requests'[r] = NoRequest
    BY <1>1, <2>1, AnswerEffect
  <2>3. requests[r].listening \in BOOLEAN /\ requests'[r].listening \in BOOLEAN
    BY <2>2 DEF TypeOK, RequestRow
  <2>4. QED
    BY <2>1, <2>2, <2>3
<1>4. CASE requests' = [requests EXCEPT ![r].pc = "calling"]
  <2>1. requests' = [requests EXCEPT ![r] = [requests[r] EXCEPT !.pc = "calling"]]
    BY <1>4
  <2>2. QED
    BY <2>1 DEF TypeOK, RequestRow
<1>5. QED
  BY <1>3, <1>4, ServiceOutcome

\* Webhooks, the administrator, and what a customer does on other pages.
Environment ==
    \/ LeaveCreated
    \/ \E k \in Keys : Confirm(k)
    \/ \E t \in Tabs : SignIn(t) \/ ResolveSession(t) \/ FillCart(t) \/ RetryRedirect(t)

LEMMA EnvironmentOutcome ==
    ASSUME TypeOK, Agreement, Environment
    PROVE  /\ status' \in [Keys -> Status]
           /\ \A k \in Keys : Grows(status[k], status'[k])
           /\ visited' \subseteq Keys /\ visited \subseteq visited'
           /\ cart \subseteq cart' /\ cart' \subseteq Tabs
           /\ payable' \in BOOLEAN /\ identity' \in [Tabs -> {"none", "checking", "customer"}]
           /\ UNCHANGED <<provider, requests, stored, page>>
<1> DEFINE Goal ==
           /\ status' \in [Keys -> Status]
           /\ \A k \in Keys : Grows(status[k], status'[k])
           /\ visited' \subseteq Keys /\ visited \subseteq visited'
           /\ cart \subseteq cart' /\ cart' \subseteq Tabs
           /\ payable' \in BOOLEAN /\ identity' \in [Tabs -> {"none", "checking", "customer"}]
           /\ UNCHANGED <<provider, requests, stored, page>>
<1>1. status \in [Keys -> Status] /\ UNCHANGED status => \A k \in Keys : Grows(status[k], status'[k])
  BY DEF Grows
<1>2. CASE LeaveCreated
  BY <1>1, <1>2 DEF LeaveCreated, TypeOK
<1>3. ASSUME NEW k \in Keys, Confirm(k) PROVE Goal
  <2>1. PICK outcome \in Terminal :
          /\ status[k] \in Pending
          /\ status[k] = "incomplete" => outcome = "expired"
          /\ status' = [status EXCEPT ![k] = outcome]
    BY <1>3 DEF Confirm, Pending, Terminal
  <2>2. /\ status' \in [Keys -> Status]
        /\ \A j \in Keys : Grows(status[j], status'[j])
    BY <2>1 DEF TypeOK, Status, Pending, Terminal, Grows
  <2>3. QED
    BY <1>3, <2>2 DEF Confirm, TypeOK
<1>4. ASSUME NEW t \in Tabs, SignIn(t) \/ ResolveSession(t) \/ FillCart(t) PROVE Goal
  BY <1>1, <1>4 DEF SignIn, ResolveSession, FillCart, TypeOK, service
<1>5. ASSUME NEW t \in Tabs, RetryRedirect(t) PROVE Goal
  <2>1. page[t].attempt \in Keys
    BY <1>5 DEF RetryRedirect, Agreement, PageAgrees, TypeOK, PageRow
  <2>2. QED
    BY <1>1, <1>5, <2>1 DEF RetryRedirect, TypeOK
<1>6. QED
  BY <1>2, <1>3, <1>4, <1>5 DEF Environment

-----------------------------------------------------------------------------
(* The inductive invariant.                                                *)

IInv == TypeOK /\ Agreement /\ FeedbackIsTrue /\ OneRequestPerPage

LEMMA Initially == Init => IInv
<1> SUFFICES ASSUME Init PROVE IInv
  OBVIOUS
<1>1. /\ \A t \in Tabs : page[t] = NoPage /\ stored[t] = None
      /\ \A r \in Requests : requests[r] = NoRequest
  BY DEF Init
<1>2. TypeOK
  BY RowTypes DEF Init, TypeOK, Status
<1>3. Agreement
  BY <1>1, RowTypes DEF Agreement, PageAgrees
<1>4. FeedbackIsTrue /\ OneRequestPerPage
  BY <1>1, RowTypes DEF FeedbackIsTrue, OneRequestPerPage, Expects, Terminal
<1>5. QED
  BY <1>2, <1>3, <1>4 DEF IInv

\* A request that a step does not touch still agrees with its page, unless the step
\* touched the page as well.
LEMMA StillAgrees ==
    ASSUME NEW r \in Requests, NEW t \in Tabs, NEW k \in Keys,
           AnswerAgrees(r, t, k), requests'[r] = requests[r],
           Grows(status[k], status'[k]),
           requests[r].listening => page'[t] = page[t]
    PROVE  AnswerAgrees(r, t, k)'
BY DEF AnswerAgrees, Grows, Terminal

\* A page that a step does not touch.
LEMMA PageStillAgrees ==
    ASSUME TypeOK, NEW t \in Tabs, PageAgrees(t), page'[t] = page[t], stored'[t] = stored[t],
           \A k \in Keys : Grows(status[k], status'[k])
    PROVE  PageAgrees(t)'
BY DEF PageAgrees, Grows, Terminal, TypeOK

FeedbackTrueOf(t) ==
    /\ page[t].feedback = "definitive" => status[page[t].attempt] = "failed"
    /\ page[t].feedback \in Terminal => status[page[t].attempt] = page[t].feedback
    /\ page[t].feedback = "redirect-failed" => status[page[t].attempt] \notin {"none", "incomplete"}

LEMMA FeedbackStillTrue ==
    ASSUME TypeOK, NEW t \in Tabs, PageAgrees(t), FeedbackTrueOf(t), page'[t] = page[t],
           \A k \in Keys : Grows(status[k], status'[k])
    PROVE  FeedbackTrueOf(t)'
<1>1. page[t].attempt = None =>
        page[t].feedback \notin {"definitive", "redirect-failed"} \cup Terminal
  BY DEF PageAgrees, Terminal
<1>2. page[t].attempt \in Keys \cup {None}
  BY DEF TypeOK, PageRow
<1>3. CASE page[t].attempt = None
  BY <1>1, <1>3 DEF FeedbackTrueOf
<1>4. CASE page[t].attempt \in Keys
  BY <1>4 DEF FeedbackTrueOf, Grows, Terminal
<1>5. QED
  BY <1>2, <1>3, <1>4

OneExpected(t) ==
    /\ \A r, q \in Expects(t) : r = q
    /\ page[t].feedback = "pending" => Expects(t) # {} \/ page[t].attempt \in visited

\* The invariant by tab and by request.
LEMMA InvariantParts ==
    IInv <=> /\ TypeOK
             /\ \A r \in Requests :
                  requests[r].pc # "idle" => AnswerAgrees(r, requests[r].tab, requests[r].key)
             /\ \A t \in Tabs : PageAgrees(t) /\ FeedbackTrueOf(t) /\ OneExpected(t)
BY DEF IInv, Agreement, FeedbackIsTrue, FeedbackTrueOf, OneRequestPerPage, OneExpected

LEMMA EnvironmentPreserves == IInv /\ Environment => IInv'
<1> SUFFICES ASSUME IInv, Environment PROVE IInv'
  OBVIOUS
<1>1. /\ TypeOK /\ Agreement
      /\ \A t \in Tabs : PageAgrees(t) /\ FeedbackTrueOf(t) /\ OneExpected(t)
      /\ \A r \in Requests :
           requests[r].pc # "idle" => AnswerAgrees(r, requests[r].tab, requests[r].key)
  BY InvariantParts DEF IInv
<1>2. /\ status' \in [Keys -> Status]
      /\ \A k \in Keys : Grows(status[k], status'[k])
      /\ visited' \subseteq Keys /\ visited \subseteq visited'
      /\ cart' \subseteq Tabs
      /\ payable' \in BOOLEAN /\ identity' \in [Tabs -> {"none", "checking", "customer"}]
      /\ UNCHANGED <<provider, requests, stored, page>>
  BY <1>1, EnvironmentOutcome
<1>3. TypeOK'
  BY <1>1, <1>2 DEF TypeOK
<1>4. ASSUME NEW r \in Requests, requests'[r].pc # "idle"
      PROVE  AnswerAgrees(r, requests[r].tab, requests[r].key)'
  <2>1. requests[r].tab \in Tabs /\ requests[r].key \in Keys
    BY <1>1, <1>2, <1>4 DEF TypeOK
  <2>2. AnswerAgrees(r, requests[r].tab, requests[r].key)
    BY <1>1, <1>2, <1>4
  <2>3. QED
    BY <1>2, <2>1, <2>2, StillAgrees
<1>5. ASSUME NEW t \in Tabs PROVE (PageAgrees(t) /\ FeedbackTrueOf(t) /\ OneExpected(t))'
  <2>1. PageAgrees(t)' /\ FeedbackTrueOf(t)'
    BY <1>1, <1>2, PageStillAgrees, FeedbackStillTrue
  <2>2. OneExpected(t)'
    BY <1>1, <1>2 DEF OneExpected, Expects
  <2>3. QED
    BY <2>1, <2>2
<1>6. QED
  BY <1>3, <1>4, <1>5, InvariantParts DEF IInv, Agreement, FeedbackIsTrue, FeedbackTrueOf, OneRequestPerPage, OneExpected

LEMMA ServicePreserves ==
    ASSUME IInv, NEW r \in Requests, ServiceStep(r)
    PROVE  IInv'
<1>1. /\ TypeOK
      /\ \A t \in Tabs : PageAgrees(t) /\ FeedbackTrueOf(t) /\ OneExpected(t)
      /\ \A q \in Requests :
           requests[q].pc # "idle" => AnswerAgrees(q, requests[q].tab, requests[q].key)
  BY InvariantParts
<1>2. /\ requests[r].pc # "idle"
      /\ status' \in [Keys -> Status]
      /\ \A k \in Keys : Grows(status[k], status'[k])
      /\ UNCHANGED <<provider, payable, visited, stored, identity, page, cart>>
  BY <1>1, ServiceOutcome
<1>3. /\ requests' \in [Requests -> RequestRow]
      /\ \A q \in Requests : q # r => requests'[q] = requests[q]
      /\ \/ ~requests[r].listening /\ requests'[r] = NoRequest
         \/ /\ requests'[r].tab = requests[r].tab /\ requests'[r].key = requests[r].key
            /\ requests'[r].listening = requests[r].listening
            /\ requests'[r].pc # "idle"
            /\ requests'[r].pc = "answered" =>
                 /\ requests[r].listening
                 /\ TellsTheTruth(requests'[r].answer, status'[requests[r].key])
  BY <1>1, ServiceRequests
<1>4. TypeOK'
  BY <1>1, <1>2, <1>3, RowTypes DEF TypeOK
<1>5. ASSUME NEW q \in Requests, requests'[q].pc # "idle"
      PROVE  AnswerAgrees(q, requests[q].tab, requests[q].key)'
  <2>1. CASE q # r
    <3>1. requests'[q] = requests[q] /\ AnswerAgrees(q, requests[q].tab, requests[q].key)
      BY <1>1, <1>3, <1>5, <2>1
    <3>2. requests[q].tab \in Tabs /\ requests[q].key \in Keys
      BY <1>1, <1>5, <3>1 DEF TypeOK
    <3>3. QED
      BY <1>2, <3>1, <3>2, StillAgrees
  <2>2. CASE q = r
    BY <1>1, <1>2, <1>3, <1>5, <2>2, RowTypes DEF AnswerAgrees, TellsTheTruth
  <2>3. QED
    BY <2>1, <2>2
<1>6. ASSUME NEW t \in Tabs PROVE (PageAgrees(t) /\ FeedbackTrueOf(t) /\ OneExpected(t))'
  <2>1. PageAgrees(t)' /\ FeedbackTrueOf(t)'
    BY <1>1, <1>2, PageStillAgrees, FeedbackStillTrue
  <2>2. Expects(t)' = Expects(t)
    BY <1>2, <1>3, RowTypes DEF Expects
  <2>3. QED
    BY <1>1, <1>2, <2>1, <2>2 DEF OneExpected
<1>7. QED
  BY <1>4, <1>5, <1>6 DEF IInv, Agreement, FeedbackIsTrue, FeedbackTrueOf, OneRequestPerPage, OneExpected

ReceiveStep(r) ==
    ReceiveError(r) \/ ReceiveUnauthorized(r) \/ ReceivePending(r) \/ ReceiveTerminal(r)

\* The page that hears an answer shows what the answer says of its own attempt.
LEMMA ReceiveOutcome ==
    ASSUME IInv, NEW r \in Requests, ReceiveStep(r), NEW t \in Tabs, t = requests[r].tab
    PROVE  /\ page[t].open /\ page[t].attempt = requests[r].key /\ page[t].attempt \in Keys
           /\ requests[r].pc # "idle" /\ requests[r].listening
           /\ Drop(r)
           /\ page' \in [Tabs -> PageRow]
           /\ page'[t].open /\ page'[t].attempt = page[t].attempt
           /\ \A u \in Tabs : u # t => page'[u] = page[u]
           /\ FeedbackTrueOf(t)'
           /\ page'[t].feedback = "pending" => page[t].attempt \in visited'
           /\ visited' \subseteq Keys /\ visited \subseteq visited'
           /\ cart' \in {cart, cart \ {t}}
           /\ cart' # cart => status[page[t].attempt] \notin {"none", "incomplete"}
           /\ identity' \in [Tabs -> {"none", "checking", "customer"}]
           /\ UNCHANGED <<provider, status, payable, stored>>
<1> DEFINE k == requests[r].key
           answer == requests[r].answer
<1>1. TypeOK /\ PageAgrees(t) /\ FeedbackTrueOf(t)
  BY InvariantParts
<1>2. requests[r].pc = "answered" /\ requests[r].listening /\ Drop(r)
  BY DEF ReceiveStep, ReceiveError, ReceiveUnauthorized, ReceivePending, ReceiveTerminal, Heard
<1>3. k \in Keys /\ answer \in Answers
  BY <1>1, <1>2 DEF TypeOK, RequestRow
<1>4. AnswerAgrees(r, t, k)
  BY <1>2, InvariantParts
<1>5. /\ page[t].open /\ page[t].attempt = k /\ page[t].feedback = "pending"
      /\ answer = "502" => status[k] = "failed"
      /\ answer \in Terminal => status[k] = answer
      /\ answer = "pending" => status[k] \notin {"none", "incomplete"}
  BY <1>2, <1>4 DEF AnswerAgrees
<1> HIDE DEF k, answer
<1>6. CASE ReceiveError(r)
  <2>1. answer \in DOMAIN MapCheckoutError /\ Show(t, MapCheckoutError[answer])
        /\ UNCHANGED <<provider, status, payable, visited, stored, identity, cart>>
    BY <1>6 DEF ReceiveError, answer, service
  <2>2. MapCheckoutError[answer] \in {"definitive", "rate-limited", "retry"}
        /\ (MapCheckoutError[answer] = "definitive" => answer = "502")
    BY <2>1, MapType
  <2>3. MapCheckoutError[answer] \in Feedback
    BY <2>2 DEF Feedback, Replaceable
  <2>4. /\ page' \in [Tabs -> PageRow]
        /\ page'[t].open = page[t].open /\ page'[t].attempt = page[t].attempt
        /\ page'[t].feedback = MapCheckoutError[answer]
        /\ \A u \in Tabs : u # t => page'[u] = page[u]
    BY <1>1, <2>1, <2>3, ShowEffect
  <2>5. FeedbackTrueOf(t)'
    BY <1>5, <2>1, <2>2, <2>4 DEF FeedbackTrueOf, Terminal
  <2>6. QED
    BY <1>1, <1>2, <1>3, <1>5, <2>1, <2>2, <2>4, <2>5 DEF TypeOK, k
<1>7. CASE ReceiveUnauthorized(r)
  <2>1. /\ page' = [page EXCEPT ![t] = [page[t] EXCEPT !.failure = TRUE, !.feedback = "retry"]]
        /\ identity' = [identity EXCEPT ![t] = "none"]
        /\ UNCHANGED <<provider, status, payable, visited, stored, cart>>
    BY <1>7 DEF ReceiveUnauthorized, EndSession, service
  <2>2. /\ page' \in [Tabs -> PageRow]
        /\ page'[t].open = page[t].open /\ page'[t].attempt = page[t].attempt
        /\ page'[t].feedback = "retry"
        /\ \A u \in Tabs : u # t => page'[u] = page[u]
    BY <1>1, <2>1 DEF TypeOK, PageRow, Feedback
  <2>3. identity' \in [Tabs -> {"none", "checking", "customer"}]
    BY <1>1, <2>1 DEF TypeOK
  <2>4. FeedbackTrueOf(t)'
    BY <2>2 DEF FeedbackTrueOf, Terminal
  <2>5. QED
    BY <1>1, <1>2, <1>3, <1>5, <2>1, <2>2, <2>3, <2>4 DEF TypeOK, k
<1>8. CASE ReceivePending(r)
  <2>1. /\ answer = "pending"
        /\ cart' = cart \ {t}
        /\ UNCHANGED <<provider, status, payable, stored, identity>>
        /\ \/ visited' = visited \cup {k} /\ UNCHANGED page
           \/ Show(t, "redirect-failed") /\ UNCHANGED visited
    BY <1>8 DEF ReceivePending, answer, k
  <2>2. CASE visited' = visited \cup {k} /\ UNCHANGED page
    <3>1. FeedbackTrueOf(t)'
      BY <1>5, <2>2 DEF FeedbackTrueOf, Terminal
    <3>2. QED
      BY <1>1, <1>2, <1>3, <1>5, <2>1, <2>2, <3>1 DEF TypeOK, k
  <2>3. CASE Show(t, "redirect-failed") /\ UNCHANGED visited
    <3>1. /\ page' \in [Tabs -> PageRow]
          /\ page'[t].open = page[t].open /\ page'[t].attempt = page[t].attempt
          /\ page'[t].feedback = "redirect-failed"
          /\ \A u \in Tabs : u # t => page'[u] = page[u]
      BY <1>1, <2>3, ShowEffect DEF Feedback
    <3>2. FeedbackTrueOf(t)'
      BY <1>5, <2>1, <3>1 DEF FeedbackTrueOf, Terminal
    <3>3. QED
      BY <1>1, <1>2, <1>3, <1>5, <2>1, <2>3, <3>1, <3>2 DEF TypeOK, k
  <2>4. QED
    BY <2>1, <2>2, <2>3
<1>9. CASE ReceiveTerminal(r)
  <2>1. /\ answer \in Terminal /\ Show(t, answer)
        /\ cart' = cart \ {t}
        /\ UNCHANGED <<provider, status, payable, visited, stored, identity>>
    BY <1>9 DEF ReceiveTerminal, answer, service
  <2>2. answer \in Feedback /\ answer \notin {"pending", "definitive", "redirect-failed"}
        /\ answer \notin {"none", "incomplete"}
    BY <2>1 DEF Feedback, Replaceable, Terminal
  <2>3. /\ page' \in [Tabs -> PageRow]
        /\ page'[t].open = page[t].open /\ page'[t].attempt = page[t].attempt
        /\ page'[t].feedback = answer
        /\ \A u \in Tabs : u # t => page'[u] = page[u]
    BY <1>1, <2>1, <2>2, ShowEffect
  <2>4. FeedbackTrueOf(t)'
    BY <1>5, <2>1, <2>2, <2>3 DEF FeedbackTrueOf
  <2>5. QED
    BY <1>1, <1>2, <1>3, <1>5, <2>1, <2>2, <2>3, <2>4 DEF TypeOK, k
<1>10. QED
  BY <1>6, <1>7, <1>8, <1>9 DEF ReceiveStep

LEMMA ReceivePreserves ==
    ASSUME IInv, NEW r \in Requests, ReceiveStep(r)
    PROVE  IInv'
<1>1. /\ TypeOK
      /\ \A u \in Tabs : PageAgrees(u) /\ FeedbackTrueOf(u) /\ OneExpected(u)
      /\ \A q \in Requests :
           requests[q].pc # "idle" => AnswerAgrees(q, requests[q].tab, requests[q].key)
  BY InvariantParts
<1>2. PICK t \in Tabs : t = requests[r].tab
  BY <1>1 DEF TypeOK, ReceiveStep, ReceiveError, ReceiveUnauthorized, ReceivePending,
              ReceiveTerminal, Heard
<1>3. /\ page[t].open /\ page[t].attempt \in Keys
      /\ requests[r].pc # "idle" /\ requests[r].listening
      /\ Drop(r)
      /\ page' \in [Tabs -> PageRow]
      /\ page'[t].open /\ page'[t].attempt = page[t].attempt
      /\ \A u \in Tabs : u # t => page'[u] = page[u]
      /\ FeedbackTrueOf(t)'
      /\ page'[t].feedback = "pending" => page[t].attempt \in visited'
      /\ visited' \subseteq Keys /\ visited \subseteq visited'
      /\ cart' \in {cart, cart \ {t}}
      /\ identity' \in [Tabs -> {"none", "checking", "customer"}]
      /\ UNCHANGED <<provider, status, payable, stored>>
  BY <1>2, ReceiveOutcome
<1>4. /\ requests' \in [Requests -> RequestRow]
      /\ requests'[r].pc = "idle"
      /\ requests'[r] = NoRequest
      /\ \A q \in Requests : q # r => requests'[q] = requests[q]
  BY <1>1, <1>3, DropEffect, RowTypes
<1>5. \A q \in Requests : q # r /\ requests[q].pc # "idle" /\ requests[q].tab = t =>
                            ~requests[q].listening
  BY <1>1, <1>2, <1>3 DEF OneExpected, Expects
<1>6. \A k \in Keys : Grows(status[k], status'[k])
  BY <1>3 DEF Grows
<1>7. TypeOK'
  BY <1>1, <1>3, <1>4 DEF TypeOK
<1>8. ASSUME NEW q \in Requests, requests'[q].pc # "idle"
      PROVE  AnswerAgrees(q, requests[q].tab, requests[q].key)'
  <2>1. /\ q # r /\ requests'[q] = requests[q]
        /\ AnswerAgrees(q, requests[q].tab, requests[q].key)
        /\ requests[q].tab \in Tabs /\ requests[q].key \in Keys
    BY <1>1, <1>4, <1>8 DEF TypeOK
  <2>2. requests[q].listening => page'[requests[q].tab] = page[requests[q].tab]
    BY <1>2, <1>3, <1>4, <1>5, <1>8, <2>1
  <2>3. QED
    BY <1>6, <2>1, <2>2, StillAgrees
<1>9. ASSUME NEW u \in Tabs PROVE (PageAgrees(u) /\ FeedbackTrueOf(u) /\ OneExpected(u))'
  <2>1. CASE u # t
    <3>1. PageAgrees(u)' /\ FeedbackTrueOf(u)'
      BY <1>1, <1>3, <1>6, <2>1, PageStillAgrees, FeedbackStillTrue
    <3>2. Expects(u)' = Expects(u)
      BY <1>2, <1>4, <2>1 DEF Expects
    <3>3. QED
      BY <1>1, <1>3, <2>1, <3>1, <3>2 DEF OneExpected
  <2>2. CASE u = t
    <3>1. PageAgrees(t)'
      BY <1>1, <1>2, <1>3, NoneIsNoKey DEF PageAgrees
    <3>2. OneExpected(t)'
      BY <1>3, <1>4, <1>5 DEF OneExpected, Expects
    <3>3. QED
      BY <1>3, <2>2, <3>1, <3>2
  <2>3. QED
    BY <2>1, <2>2
<1>10. QED
  BY <1>7, <1>8, <1>9 DEF IInv, Agreement, FeedbackIsTrue, FeedbackTrueOf, OneRequestPerPage, OneExpected

\* A step of one tab: it is enough to look at that tab and its requests.
LEMMA TabSuffices ==
    ASSUME IInv, TypeOK', UNCHANGED <<status, visited>>, NEW t \in Tabs,
           \A u \in Tabs : u # t => /\ page'[u] = page[u] /\ stored'[u] = stored[u]
                                    /\ Expects(u)' = Expects(u),
           \A r \in Requests : requests'[r].pc # "idle" =>
             AnswerAgrees(r, requests[r].tab, requests[r].key)',
           (PageAgrees(t) /\ FeedbackTrueOf(t) /\ OneExpected(t))'
    PROVE  IInv'
<1>1. TypeOK /\ \A u \in Tabs : PageAgrees(u) /\ FeedbackTrueOf(u) /\ OneExpected(u)
  BY InvariantParts
<1>2. \A k \in Keys : Grows(status[k], status'[k])
  BY DEF Grows
<1>3. ASSUME NEW u \in Tabs PROVE (PageAgrees(u) /\ FeedbackTrueOf(u) /\ OneExpected(u))'
  <2>1. CASE u = t
    BY <2>1
  <2>2. CASE u # t
    <3>1. PageAgrees(u)' /\ FeedbackTrueOf(u)'
      BY <1>1, <1>2, <2>2, PageStillAgrees, FeedbackStillTrue
    <3>2. OneExpected(u)'
      BY <1>1, <2>2 DEF OneExpected
    <3>3. QED
      BY <3>1, <3>2
  <2>3. QED
    BY <2>1, <2>2
<1>4. QED
  BY <1>3 DEF IInv, Agreement, FeedbackIsTrue, FeedbackTrueOf, OneRequestPerPage, OneExpected

\* The same for a step that leaves the requests alone and whose page expects no answer.
LEMMA IdleTabSuffices ==
    ASSUME IInv, TypeOK', UNCHANGED <<status, visited, requests>>, NEW t \in Tabs,
           Expects(t) = {},
           \A u \in Tabs : u # t => page'[u] = page[u] /\ stored'[u] = stored[u],
           PageAgrees(t)', FeedbackTrueOf(t)',
           page'[t].feedback = "pending" => page'[t].attempt \in visited
    PROVE  IInv'
<1>1. TypeOK /\ \A r \in Requests :
        requests[r].pc # "idle" => AnswerAgrees(r, requests[r].tab, requests[r].key)
  BY InvariantParts
<1>2. \A u \in Tabs : Expects(u)' = Expects(u)
  BY DEF Expects
<1>3. ASSUME NEW r \in Requests, requests'[r].pc # "idle"
      PROVE  AnswerAgrees(r, requests[r].tab, requests[r].key)'
  <2>1. AnswerAgrees(r, requests[r].tab, requests[r].key)
        /\ requests[r].tab \in Tabs /\ requests[r].key \in Keys
    BY <1>1, <1>3 DEF TypeOK
  <2>2. requests[r].listening => page'[requests[r].tab] = page[requests[r].tab]
    BY <1>3, <2>1 DEF Expects
  <2>3. \A k \in Keys : Grows(status[k], status'[k])
    BY DEF Grows
  <2>4. QED
    BY <2>1, <2>2, <2>3, StillAgrees
<1>4. OneExpected(t)'
  BY <1>2 DEF OneExpected
<1>5. QED
  BY <1>2, <1>3, <1>4, TabSuffices

\* A page that is not open, or that shows another feedback than "pending", expects nothing.
LEMMA OnlyPendingExpects ==
    ASSUME IInv, NEW t \in Tabs, ~page[t].open \/ page[t].feedback # "pending"
    PROVE  Expects(t) = {}
<1>1. \A r \in Requests :
        requests[r].pc # "idle" => AnswerAgrees(r, requests[r].tab, requests[r].key)
  BY InvariantParts
<1>2. QED
  BY <1>1 DEF Expects, AnswerAgrees

\* Where the attempt of a page comes from.
LEMMA ResolveOutcome ==
    ASSUME TypeOK, NEW t \in Tabs, NEW k \in Keys \cup {None}, NEW saved \in Keys \cup {None},
           ResolveInitialAttempt(t, k, saved)
    PROVE  /\ k = None => saved = stored[t]
           /\ k # None => saved \in {None, k}
           /\ stored[t] # None => saved = stored[t]
           /\ ~HasOrderAccess(t) => k = None
BY DEF ResolveInitialAttempt, Saved, TypeOK

LEMMA OpenPreserves ==
    ASSUME IInv, NEW t \in Tabs, Open(t)
    PROVE  IInv'
<1>1. TypeOK /\ PageAgrees(t) /\ Expects(t) = {}
  BY InvariantParts, OnlyPendingExpects DEF Open
<1>2. PICK k \in Keys \cup {None}, saved \in Keys \cup {None} :
        /\ ResolveInitialAttempt(t, k, saved)
        /\ page' = [page EXCEPT ![t] =
                      [open |-> TRUE, attempt |-> k, failure |-> FALSE,
                       feedback |-> IF k = None /\ HasOrderAccess(t) THEN "capability" ELSE "idle"]]
        /\ stored' = [stored EXCEPT ![t] = saved]
  BY DEF Open
<1>3. PICK feedback \in {"capability", "idle"} :
        /\ page' = [page EXCEPT ![t] = [open |-> TRUE, attempt |-> k, failure |-> FALSE,
                                        feedback |-> feedback]]
  BY <1>2
<1>4. UNCHANGED <<provider, status, payable, visited, requests, identity, cart>>
  BY DEF Open, service
<1>5. /\ page' \in [Tabs -> PageRow]
      /\ page'[t].open /\ page'[t].attempt = k /\ page'[t].feedback = feedback
      /\ \A u \in Tabs : u # t => page'[u] = page[u]
  BY <1>1, <1>3 DEF TypeOK, PageRow, Feedback
<1>6. /\ stored' \in [Tabs -> Keys \cup {None}] /\ stored'[t] = saved
      /\ \A u \in Tabs : u # t => stored'[u] = stored[u]
  BY <1>1, <1>2 DEF TypeOK
<1>7. TypeOK'
  BY <1>1, <1>4, <1>5, <1>6 DEF TypeOK
<1>8. k # None => saved \in {None, k}
  BY <1>1, <1>2, ResolveOutcome
<1>9. PageAgrees(t)' /\ FeedbackTrueOf(t)'
  BY <1>5, <1>6, <1>8 DEF PageAgrees, FeedbackTrueOf, Terminal
<1>10. QED
  BY <1>1, <1>4, <1>5, <1>6, <1>7, <1>9, IdleTabSuffices

LEMMA LoadPreserves ==
    ASSUME IInv, NEW t \in Tabs, Load(t)
    PROVE  IInv'
<1>1. TypeOK /\ Expects(t) = {}
  BY InvariantParts, OnlyPendingExpects DEF Load
<1>2. /\ identity' \in [Tabs -> {"none", "checking", "customer"}]
      /\ UNCHANGED <<provider, status, payable, visited, requests, stored, cart>>
      /\ page' = [page EXCEPT ![t] = [NoPage EXCEPT !.open = TRUE]]
  BY <1>1 DEF Load, TypeOK, service
<1>3. /\ page' \in [Tabs -> PageRow]
      /\ page'[t].open /\ page'[t].attempt = None /\ page'[t].feedback = "idle"
      /\ \A u \in Tabs : u # t => page'[u] = page[u]
  BY <1>1, <1>2 DEF TypeOK, PageRow, Feedback, NoPage
<1>4. TypeOK'
  BY <1>1, <1>2, <1>3 DEF TypeOK
<1>5. PageAgrees(t)' /\ FeedbackTrueOf(t)'
  BY <1>3 DEF PageAgrees, FeedbackTrueOf, Terminal
<1>6. QED
  BY <1>1, <1>2, <1>3, <1>4, <1>5, IdleTabSuffices

LEMMA WaitPreserves ==
    ASSUME IInv, NEW t \in Tabs, WaitRateLimit(t)
    PROVE  IInv'
<1>1. TypeOK /\ PageAgrees(t) /\ Expects(t) = {}
  BY InvariantParts, OnlyPendingExpects DEF WaitRateLimit
<1>2. Show(t, "retry") /\ page[t].feedback = "rate-limited"
      /\ UNCHANGED <<provider, status, payable, visited, requests, stored, identity, cart>>
  BY DEF WaitRateLimit, service
<1>3. /\ page' \in [Tabs -> PageRow]
      /\ page'[t].open = page[t].open /\ page'[t].attempt = page[t].attempt
      /\ page'[t].feedback = "retry"
      /\ \A u \in Tabs : u # t => page'[u] = page[u]
  BY <1>1, <1>2, ShowEffect DEF Feedback
<1>4. TypeOK'
  BY <1>1, <1>2, <1>3 DEF TypeOK
<1>5. page[t].open /\ page[t].attempt # None
  BY <1>1, <1>2, RowTypes DEF PageAgrees
<1>6. PageAgrees(t)' /\ FeedbackTrueOf(t)'
  BY <1>1, <1>2, <1>3, <1>5 DEF PageAgrees, FeedbackTrueOf, Terminal
<1>7. QED
  BY <1>1, <1>2, <1>3, <1>4, <1>6, IdleTabSuffices

\* An attempt that the page offers to replace has ended.
LEMMA ReplaceableHasEnded ==
    ASSUME IInv, NEW t \in Tabs, page[t].feedback \in Replaceable
    PROVE  /\ page[t].attempt \in Keys
           /\ status[page[t].attempt] \in {"failed", "expired"}
           /\ stored[t] # None => status[stored[t]] \in {"failed", "expired"}
<1>1. TypeOK /\ PageAgrees(t) /\ FeedbackTrueOf(t)
  BY InvariantParts
<1>2. page[t].attempt # None /\ page[t].attempt \in Keys
  BY <1>1 DEF PageAgrees, Replaceable, TypeOK, PageRow
<1>3. status[page[t].attempt] \in {"failed", "expired"}
  BY <1>1 DEF FeedbackTrueOf, Replaceable, Terminal
<1>4. QED
  BY <1>1, <1>2, <1>3 DEF PageAgrees

LEMMA StartNewPreserves ==
    ASSUME IInv, NEW t \in Tabs, StartNewAttempt(t)
    PROVE  IInv'
<1>1. TypeOK /\ PageAgrees(t) /\ FeedbackTrueOf(t) /\ Expects(t) = {} /\ page[t].open
  BY InvariantParts, OnlyPendingExpects DEF StartNewAttempt, Replaceable
<1>2. /\ page[t].attempt \in Keys
      /\ stored[t] # None => status[stored[t]] \in {"failed", "expired"}
  BY ReplaceableHasEnded DEF StartNewAttempt
<1>3. UNCHANGED <<provider, status, payable, visited, requests, identity, cart>>
  BY DEF StartNewAttempt, service
<1>4. PICK k \in NewKeys :
        IF k = None THEN Show(t, "capability") /\ UNCHANGED stored
        ELSE /\ page' = [page EXCEPT ![t] = [page[t] EXCEPT !.attempt = k, !.feedback = "idle"]]
             /\ \E saved \in Saved(t, k) : stored' = [stored EXCEPT ![t] = saved]
  BY DEF StartNewAttempt
<1>5. CASE k = None
  <2>1. /\ page' \in [Tabs -> PageRow]
        /\ page'[t].open = page[t].open /\ page'[t].attempt = page[t].attempt
        /\ page'[t].feedback = "capability"
        /\ \A u \in Tabs : u # t => page'[u] = page[u]
    BY <1>1, <1>4, <1>5, ShowEffect DEF Feedback
  <2>2. TypeOK'
    BY <1>1, <1>3, <1>4, <1>5, <2>1 DEF TypeOK
  <2>3. PageAgrees(t)' /\ FeedbackTrueOf(t)'
    BY <1>1, <1>3, <1>4, <1>5, <2>1 DEF PageAgrees, FeedbackTrueOf, Terminal
  <2>4. QED
    BY <1>1, <1>3, <1>4, <1>5, <2>1, <2>2, <2>3, IdleTabSuffices
<1>6. CASE k # None
  <2>1. k \in Keys
    BY <1>6, NewKeysAreUnused
  <2>2. PICK saved \in {stored[t], k} : stored' = [stored EXCEPT ![t] = saved]
    BY <1>4, <1>6 DEF Saved
  <2>3. /\ stored' \in [Tabs -> Keys \cup {None}] /\ stored'[t] = saved
        /\ \A u \in Tabs : u # t => stored'[u] = stored[u]
    BY <1>1, <2>1, <2>2 DEF TypeOK
  <2>4. /\ page' \in [Tabs -> PageRow]
        /\ page'[t].open /\ page'[t].attempt = k /\ page'[t].feedback = "idle"
        /\ \A u \in Tabs : u # t => page'[u] = page[u]
    <3>1. page' = [page EXCEPT ![t] = [page[t] EXCEPT !.attempt = k, !.feedback = "idle"]]
      BY <1>4, <1>6
    <3>2. page \in [Tabs -> PageRow] /\ "idle" \in Feedback
      BY <1>1 DEF TypeOK, Feedback
    <3>3. QED
      BY <1>1, <2>1, <3>1, <3>2 DEF PageRow
  <2>5. TypeOK'
    BY <1>1, <1>3, <2>3, <2>4 DEF TypeOK
  <2>6. PageAgrees(t)' /\ FeedbackTrueOf(t)'
    BY <1>2, <1>3, <2>2, <2>3, <2>4 DEF PageAgrees, FeedbackTrueOf, Terminal
  <2>7. QED
    BY <1>1, <1>3, <2>3, <2>4, <2>5, <2>6, IdleTabSuffices
<1>7. QED
  BY <1>5, <1>6

LEMMA RejectSummaryPreserves ==
    ASSUME IInv, NEW t \in Tabs, RejectSummary(t)
    PROVE  IInv'
<1>1. /\ TypeOK /\ PageAgrees(t) /\ FeedbackTrueOf(t) /\ OneExpected(t)
      /\ \A r \in Requests :
           requests[r].pc # "idle" => AnswerAgrees(r, requests[r].tab, requests[r].key)
  BY InvariantParts
<1>2. /\ page[t].open
      /\ identity' = [identity EXCEPT ![t] = "none"]
      /\ page' = [page EXCEPT ![t] = [page[t] EXCEPT !.failure = TRUE]]
      /\ UNCHANGED <<provider, status, payable, visited, requests, stored, cart>>
  BY DEF RejectSummary, EndSession, service
<1>3. /\ page' \in [Tabs -> PageRow]
      /\ page'[t].open /\ page'[t].attempt = page[t].attempt
      /\ page'[t].feedback = page[t].feedback
      /\ \A u \in Tabs : u # t => page'[u] = page[u]
  BY <1>1, <1>2 DEF TypeOK, PageRow
<1>4. identity' \in [Tabs -> {"none", "checking", "customer"}]
  BY <1>1, <1>2 DEF TypeOK
<1>5. TypeOK'
  BY <1>1, <1>2, <1>3, <1>4 DEF TypeOK
<1>6. \A u \in Tabs : Expects(u)' = Expects(u)
  BY <1>2 DEF Expects
<1>7. (PageAgrees(t) /\ FeedbackTrueOf(t) /\ OneExpected(t))'
  BY <1>1, <1>2, <1>3, <1>6 DEF PageAgrees, FeedbackTrueOf, OneExpected
<1>8. ASSUME NEW r \in Requests, requests'[r].pc # "idle"
      PROVE  AnswerAgrees(r, requests[r].tab, requests[r].key)'
  <2>1. AnswerAgrees(r, requests[r].tab, requests[r].key) /\ requests[r].tab \in Tabs
    BY <1>1, <1>2, <1>8 DEF TypeOK
  <2>2. CASE requests[r].tab = t
    BY <1>2, <1>3, <2>1, <2>2 DEF AnswerAgrees
  <2>3. CASE requests[r].tab # t
    BY <1>2, <1>3, <2>1, <2>3 DEF AnswerAgrees
  <2>4. QED
    BY <2>2, <2>3
<1>9. QED
  BY <1>2, <1>3, <1>5, <1>6, <1>7, <1>8, TabSuffices

LEMMA LeavePreserves ==
    ASSUME IInv, NEW t \in Tabs, Leave(t)
    PROVE  IInv'
<1>1. /\ TypeOK
      /\ \A r \in Requests :
           requests[r].pc # "idle" => AnswerAgrees(r, requests[r].tab, requests[r].key)
  BY InvariantParts
<1>2. /\ page' = [page EXCEPT ![t] = NoPage]
      /\ requests' = [r \in Requests |->
                        IF requests[r].tab # t THEN requests[r]
                        ELSE IF requests[r].pc = "answered" THEN NoRequest
                        ELSE [requests[r] EXCEPT !.listening = FALSE]]
      /\ UNCHANGED <<provider, status, payable, visited, stored, identity, cart>>
  BY DEF Leave, service
<1>3. /\ page' \in [Tabs -> PageRow] /\ page'[t] = NoPage
      /\ \A u \in Tabs : u # t => page'[u] = page[u]
  BY <1>1, <1>2, RowTypes DEF TypeOK
<1>4. ASSUME NEW r \in Requests
      PROVE  /\ requests'[r] \in RequestRow
             /\ requests[r].tab # t => requests'[r] = requests[r]
             /\ requests[r].tab = t /\ requests'[r].pc # "idle" =>
                  /\ requests[r].pc \notin {"answered", "idle"}
                  /\ requests'[r].pc = requests[r].pc
                  /\ requests'[r].tab = requests[r].tab /\ requests'[r].key = requests[r].key
                  /\ ~requests'[r].listening
  <2>1. requests[r] \in RequestRow
    BY <1>1 DEF TypeOK
  <2>2. CASE requests[r].tab # t
    BY <1>2, <2>1, <2>2
  <2>3. CASE requests[r].tab = t /\ requests[r].pc = "answered"
    BY <1>2, <2>3, RowTypes
  <2>4. CASE requests[r].tab = t /\ requests[r].pc # "answered"
    <3>1. requests'[r] = [requests[r] EXCEPT !.listening = FALSE]
      BY <1>2, <2>4
    <3>2. QED
      BY <2>1, <2>4, <3>1 DEF RequestRow
  <2>5. QED
    BY <2>2, <2>3, <2>4
<1>5. requests' \in [Requests -> RequestRow]
  BY <1>2, <1>4
<1>6. TypeOK'
  BY <1>1, <1>2, <1>3, <1>4, <1>5 DEF TypeOK
<1>7. ASSUME NEW r \in Requests, requests'[r].pc # "idle"
      PROVE  AnswerAgrees(r, requests[r].tab, requests[r].key)'
  <2>1. CASE requests[r].tab = t
    BY <1>4, <1>7, <2>1 DEF AnswerAgrees
  <2>2. CASE requests[r].tab # t
    <3>1. requests'[r] = requests[r] /\ AnswerAgrees(r, requests[r].tab, requests[r].key)
          /\ requests[r].tab \in Tabs
      BY <1>1, <1>4, <1>7, <2>2 DEF TypeOK
    <3>2. QED
      BY <1>2, <1>3, <2>2, <3>1 DEF AnswerAgrees
  <2>3. QED
    BY <2>1, <2>2
<1>8. \A u \in Tabs : u # t => Expects(u)' = Expects(u)
  <2>1. ASSUME NEW u \in Tabs, u # t, NEW r \in Requests
        PROVE  r \in Expects(u)' <=> r \in Expects(u)
    BY <1>4, <2>1, RowTypes DEF Expects
  <2>2. QED
    BY <2>1 DEF Expects
<1>9. (PageAgrees(t) /\ FeedbackTrueOf(t))'
  BY <1>3, RowTypes DEF PageAgrees, FeedbackTrueOf, Terminal
<1>10. Expects(t)' = {}
  BY <1>4 DEF Expects
<1>11. OneExpected(t)'
  BY <1>3, <1>10, RowTypes DEF OneExpected
<1>12. QED
  BY <1>2, <1>3, <1>6, <1>7, <1>8, <1>9, <1>11, TabSuffices

LEMMA StartCheckoutPreserves ==
    ASSUME IInv, NEW t \in Tabs, StartCheckout(t)
    PROVE  IInv'
<1>1. /\ TypeOK /\ PageAgrees(t) /\ FeedbackTrueOf(t)
      /\ Expects(t) = {} /\ page[t].open /\ page[t].feedback # "pending"
      /\ \A r \in Requests :
           requests[r].pc # "idle" => AnswerAgrees(r, requests[r].tab, requests[r].key)
  BY InvariantParts DEF StartCheckout, CheckoutDisabled
<1>2. UNCHANGED <<provider, status, payable, visited, identity, cart>>
  BY DEF StartCheckout, service
<1>3. PICK k \in Keys \cup {None}, saved \in Keys \cup {None} :
        /\ IF page[t].attempt # None THEN k = page[t].attempt /\ saved = stored[t]
           ELSE ResolveInitialAttempt(t, k, saved)
        /\ stored' = [stored EXCEPT ![t] = saved]
        /\ page' = [page EXCEPT ![t] = [page[t] EXCEPT !.attempt = k,
                      !.feedback = IF k = None THEN "capability" ELSE "pending"]]
        /\ IF k = None THEN UNCHANGED requests
           ELSE \E r \in Requests : requests[r].pc = "idle" /\ Send(r, t, k)
  BY DEF StartCheckout
<1>4. PICK feedback \in {"capability", "pending"} :
        /\ feedback = "pending" <=> k # None
        /\ page' = [page EXCEPT ![t] = [page[t] EXCEPT !.attempt = k, !.feedback = feedback]]
  BY <1>3
<1>5. /\ page' \in [Tabs -> PageRow]
      /\ page'[t].open /\ page'[t].attempt = k /\ page'[t].feedback = feedback
      /\ \A u \in Tabs : u # t => page'[u] = page[u]
  <2>1. page \in [Tabs -> PageRow] /\ feedback \in Feedback
    BY <1>1 DEF TypeOK, Feedback
  <2>2. QED
    BY <1>1, <1>4, <2>1 DEF PageRow
<1>6. /\ stored' \in [Tabs -> Keys \cup {None}] /\ stored'[t] = saved
      /\ \A u \in Tabs : u # t => stored'[u] = stored[u]
  BY <1>1, <1>3 DEF TypeOK
<1>7. PageAgrees(t)' /\ FeedbackTrueOf(t)'
  <2>1. k # None /\ saved \notin {None, k} => status[saved] \in {"failed", "expired"}
    BY <1>1, <1>3, ResolveOutcome DEF PageAgrees
  <2>2. QED
    BY <1>2, <1>4, <1>5, <1>6, <2>1 DEF PageAgrees, FeedbackTrueOf, Terminal
<1>8. CASE k = None
  <2>1. UNCHANGED requests /\ feedback # "pending"
    BY <1>3, <1>4, <1>8
  <2>2. TypeOK'
    BY <1>1, <1>2, <1>5, <1>6, <2>1 DEF TypeOK
  <2>3. QED
    BY <1>1, <1>2, <1>5, <1>6, <1>7, <2>1, <2>2, IdleTabSuffices
<1>9. CASE k # None
  <2>1. PICK r \in Requests : requests[r].pc = "idle" /\ Send(r, t, k)
    BY <1>3, <1>9
  <2>2. k \in Keys /\ feedback = "pending"
    BY <1>4, <1>9
  <2>3. /\ requests' \in [Requests -> RequestRow]
        /\ \A q \in Requests : q # r => requests'[q] = requests[q]
        /\ requests'[r].pc = "sent" /\ requests'[r].tab = t
        /\ requests'[r].key = k /\ requests'[r].listening
    BY <1>1, <2>1, <2>2, SendEffect
  <2>4. TypeOK'
    BY <1>1, <1>2, <1>5, <1>6, <2>2, <2>3 DEF TypeOK
  <2>5. Expects(t)' = {r}
    BY <1>1, <2>3 DEF Expects
  <2>6. \A u \in Tabs : u # t => Expects(u)' = Expects(u)
    BY <2>1, <2>3 DEF Expects
  <2>7. OneExpected(t)'
    BY <2>5 DEF OneExpected
  <2>8. ASSUME NEW q \in Requests, requests'[q].pc # "idle"
        PROVE  AnswerAgrees(q, requests[q].tab, requests[q].key)'
    <3>1. CASE q = r
      BY <1>5, <2>2, <2>3, <3>1 DEF AnswerAgrees
    <3>2. CASE q # r
      <4>1. requests'[q] = requests[q] /\ AnswerAgrees(q, requests[q].tab, requests[q].key)
            /\ requests[q].tab \in Tabs /\ requests[q].key \in Keys
        BY <1>1, <2>3, <2>8, <3>2 DEF TypeOK
      <4>2. requests[q].listening => requests[q].tab # t
        BY <1>1, <2>8, <4>1 DEF Expects
      <4>3. \A j \in Keys : Grows(status[j], status'[j])
        BY <1>2 DEF Grows
      <4>4. QED
        BY <1>5, <4>1, <4>2, <4>3, StillAgrees
    <3>3. QED
      BY <3>1, <3>2
  <2>9. QED
    BY <1>2, <1>5, <1>6, <1>7, <2>4, <2>6, <2>7, <2>8, TabSuffices
<1>10. QED
  BY <1>8, <1>9

-----------------------------------------------------------------------------
(* Every step, and the theorems.                                           *)

LEMMA StepsAre ==
    Next <=> \/ Environment
             \/ \E r \in Requests : ServiceStep(r) \/ ReceiveStep(r)
             \/ \E t \in Tabs : \/ Open(t) \/ Load(t) \/ Leave(t) \/ StartCheckout(t)
                                \/ StartNewAttempt(t) \/ WaitRateLimit(t) \/ RejectSummary(t)
BY DEF Next, TabStep, RequestStep, Environment, ServiceStep, ReceiveStep

LEMMA StutterPreserves == IInv /\ UNCHANGED vars => IInv'
BY DEF vars, IInv, TypeOK, Agreement, AnswerAgrees, PageAgrees, FeedbackIsTrue,
       OneRequestPerPage, Expects

LEMMA Inductive == IInv /\ [Next]_vars => IInv'
<1> SUFFICES ASSUME IInv, [Next]_vars PROVE IInv'
  OBVIOUS
<1>1. CASE Environment
  BY <1>1, EnvironmentPreserves
<1>2. ASSUME NEW r \in Requests, ServiceStep(r) PROVE IInv'
  BY <1>2, ServicePreserves
<1>3. ASSUME NEW r \in Requests, ReceiveStep(r) PROVE IInv'
  BY <1>3, ReceivePreserves
<1>4. ASSUME NEW t \in Tabs, Open(t) \/ Load(t) \/ Leave(t) PROVE IInv'
  BY <1>4, OpenPreserves, LoadPreserves, LeavePreserves
<1>5. ASSUME NEW t \in Tabs, StartCheckout(t) \/ StartNewAttempt(t) PROVE IInv'
  BY <1>5, StartCheckoutPreserves, StartNewPreserves
<1>6. ASSUME NEW t \in Tabs, WaitRateLimit(t) \/ RejectSummary(t) PROVE IInv'
  BY <1>6, WaitPreserves, RejectSummaryPreserves
<1>7. CASE UNCHANGED vars
  BY <1>7, StutterPreserves
<1>8. QED
  BY <1>1, <1>2, <1>3, <1>4, <1>5, <1>6, <1>7, StepsAre

\* The invariant of all variables holds throughout: rows have their types, requests agree
\* with their pages, feedback is true, and a page waits for one answer.
THEOREM InvariantAlways == Spec => []IInv
BY Initially, Inductive, PTL DEF Spec

\* Pages, storages, requests and payment rows keep their types.
THEOREM TypeCorrect == Spec => []TypeOK
<1>1. IInv => TypeOK
  BY DEF IInv
<1>2. QED
  BY <1>1, InvariantAlways, PTL

\* The answer a page will hear is to its present key and still true, however late it is
\* (startCheckout, startNewAttempt, saveCheckoutAttempt).
THEOREM AgreementAlways == Spec => []Agreement
<1>1. IInv => Agreement
  BY DEF IInv
<1>2. QED
  BY <1>1, InvariantAlways, PTL

\* What the page says of its attempt is what the service has committed (mapCheckoutError).
THEOREM FeedbackIsTrueAlways == Spec => []FeedbackIsTrue
<1>1. IInv => FeedbackIsTrue
  BY DEF IInv
<1>2. QED
  BY <1>1, InvariantAlways, PTL

\* A page waits for at most one answer, and never blocks its button for nothing (pendingRef).
THEOREM OneRequestPerPageAlways == Spec => []OneRequestPerPage
<1>1. IInv => OneRequestPerPage
  BY DEF IInv
<1>2. QED
  BY <1>1, InvariantAlways, PTL

\* The tab t gives up no attempt that may still be paid.
KeepsUnfinished(t) ==
    /\ page[t].open /\ page'[t].open /\ page[t].attempt # None /\ page'[t].attempt # page[t].attempt
         => status[page[t].attempt] \in {"failed", "expired"}
    /\ stored[t] # None /\ stored'[t] # stored[t]
         => status[stored[t]] \in {"failed", "expired"}

LEMMA StepKeepsUnfinished ==
    ASSUME IInv, [Next]_vars, NEW t \in Tabs
    PROVE  KeepsUnfinished(t)
<1>1. TypeOK
  BY DEF IInv
<1>2. CASE Environment \/ UNCHANGED vars \/ \E r \in Requests : ServiceStep(r)
  <2>1. UNCHANGED <<page, stored>>
    BY <1>1, <1>2, EnvironmentOutcome, ServiceOutcome DEF IInv, vars
  <2>2. QED
    BY <2>1 DEF KeepsUnfinished
<1>3. ASSUME NEW r \in Requests, ReceiveStep(r) PROVE KeepsUnfinished(t)
  <2>1. PICK u \in Tabs : u = requests[r].tab
    BY <1>1, <1>3 DEF TypeOK, ReceiveStep, ReceiveError, ReceiveUnauthorized, ReceivePending,
                      ReceiveTerminal, Heard
  <2>2. UNCHANGED stored /\ page'[t].attempt = page[t].attempt
    BY <1>3, <2>1, ReceiveOutcome
  <2>3. QED
    BY <2>2 DEF KeepsUnfinished
<1>4. ASSUME NEW u \in Tabs, Open(u) PROVE KeepsUnfinished(t)
  <2>1. PICK k \in Keys \cup {None}, saved \in Keys \cup {None} :
          ResolveInitialAttempt(u, k, saved) /\ stored' = [stored EXCEPT ![u] = saved]
    BY <1>4 DEF Open
  <2>2. stored'[t] = stored[t] \/ stored[t] = None
    BY <1>1, <2>1, ResolveOutcome DEF TypeOK
  <2>3. ~page[t].open \/ page'[t] = page[t]
    BY <1>1, <1>4 DEF Open, TypeOK
  <2>4. QED
    BY <2>2, <2>3 DEF KeepsUnfinished
<1>5. ASSUME NEW u \in Tabs, Load(u) \/ Leave(u) PROVE KeepsUnfinished(t)
  <2>1. UNCHANGED stored /\ (~page[t].open \/ ~page'[t].open \/ page'[t] = page[t])
    BY <1>1, <1>5, RowTypes DEF Load, Leave, TypeOK, service
  <2>2. QED
    BY <2>1 DEF KeepsUnfinished
<1>6. ASSUME NEW u \in Tabs, StartCheckout(u) PROVE KeepsUnfinished(t)
  <2>1. PICK k \in Keys \cup {None}, saved \in Keys \cup {None}, feedback \in {"capability", "pending"} :
          /\ IF page[u].attempt # None THEN k = page[u].attempt /\ saved = stored[u]
             ELSE ResolveInitialAttempt(u, k, saved)
          /\ stored' = [stored EXCEPT ![u] = saved]
          /\ page' = [page EXCEPT ![u] = [page[u] EXCEPT !.attempt = k, !.feedback = feedback]]
    BY <1>6 DEF StartCheckout
  <2>2. page[u].attempt \in {None, k} /\ stored[u] \in {None, saved}
    BY <1>1, <2>1, ResolveOutcome
  <2>3. page'[u].attempt = k /\ (u # t => page'[t] = page[t])
    BY <1>1, <2>1 DEF TypeOK, PageRow
  <2>4. QED
    BY <1>1, <2>1, <2>2, <2>3 DEF KeepsUnfinished, TypeOK
<1>7. ASSUME NEW u \in Tabs, StartNewAttempt(u) PROVE KeepsUnfinished(t)
  <2>1. /\ status[page[u].attempt] \in {"failed", "expired"}
        /\ stored[u] # None => status[stored[u]] \in {"failed", "expired"}
    BY <1>7, ReplaceableHasEnded DEF StartNewAttempt
  <2>2. u # t => page'[t] = page[t] /\ stored'[t] = stored[t]
    BY <1>1, <1>7 DEF StartNewAttempt, Show, TypeOK
  <2>3. QED
    BY <2>1, <2>2 DEF KeepsUnfinished
<1>8. ASSUME NEW u \in Tabs, WaitRateLimit(u) \/ RejectSummary(u) PROVE KeepsUnfinished(t)
  <2>1. UNCHANGED stored /\ page'[t].attempt = page[t].attempt
    BY <1>1, <1>8 DEF WaitRateLimit, RejectSummary, Show, TypeOK, PageRow
  <2>2. QED
    BY <2>1 DEF KeepsUnfinished
<1>9. QED
  BY <1>2, <1>3, <1>4, <1>5, <1>6, <1>7, <1>8, StepsAre

\* Neither a page nor its storage gives up an attempt that may still be paid (D-060, D-082).
THEOREM ReplacesOnlyFinishedAlways == Spec => ReplacesOnlyFinished
<1>1. IInv /\ [Next]_vars => [\A t \in Tabs : KeepsUnfinished(t)]_vars
  BY StepKeepsUnfinished
<1>2. Spec => [][\A t \in Tabs : KeepsUnfinished(t)]_vars
  BY <1>1, InvariantAlways, PTL DEF Spec
<1>3. QED
  BY <1>2 DEF ReplacesOnlyFinished, KeepsUnfinished

\* The cart of tab t is emptied for an attempt of its open page that the service recorded.
ClearsForItsAttempt(t) ==
    t \in cart /\ t \notin cart' =>
      /\ page[t].open
      /\ page[t].attempt # None
      /\ status[page[t].attempt] \notin {"none", "incomplete"}

LEMMA StepClearsForItsAttempt ==
    ASSUME IInv, [Next]_vars, NEW t \in Tabs
    PROVE  ClearsForItsAttempt(t)
<1>1. TypeOK
  BY DEF IInv
<1>2. ASSUME NEW r \in Requests, ReceiveStep(r) PROVE ClearsForItsAttempt(t)
  <2>1. PICK u \in Tabs : u = requests[r].tab
    BY <1>1, <1>2 DEF TypeOK, ReceiveStep, ReceiveError, ReceiveUnauthorized, ReceivePending,
                      ReceiveTerminal, Heard
  <2>2. /\ page[u].open /\ page[u].attempt \in Keys
        /\ cart' \in {cart, cart \ {u}}
        /\ cart' # cart => status[page[u].attempt] \notin {"none", "incomplete"}
    BY <1>2, <2>1, ReceiveOutcome
  <2>3. QED
    BY <2>2, NoneIsNoKey DEF ClearsForItsAttempt
<1>3. CASE Environment \/ UNCHANGED vars \/ \E r \in Requests : ServiceStep(r)
  <2>1. cart \subseteq cart'
    BY <1>1, <1>3, EnvironmentOutcome, ServiceOutcome DEF IInv, vars
  <2>2. QED
    BY <2>1 DEF ClearsForItsAttempt
<1>4. ASSUME NEW u \in Tabs,
             \/ Open(u) \/ Load(u) \/ Leave(u) \/ StartCheckout(u)
             \/ StartNewAttempt(u) \/ WaitRateLimit(u) \/ RejectSummary(u)
      PROVE  ClearsForItsAttempt(t)
  <2>1. UNCHANGED cart
    BY <1>4 DEF Open, Load, Leave, StartCheckout, StartNewAttempt, WaitRateLimit, RejectSummary
  <2>2. QED
    BY <2>1 DEF ClearsForItsAttempt
<1>5. QED
  BY <1>2, <1>3, <1>4, StepsAre

\* A late answer never empties a cart that was filled since (mountedRef).
THEOREM ClearsItsOwnCartAlways == Spec => ClearsItsOwnCart
<1>1. IInv /\ [Next]_vars => [\A t \in Tabs : ClearsForItsAttempt(t)]_vars
  BY StepClearsForItsAttempt
<1>2. Spec => [][\A t \in Tabs : ClearsForItsAttempt(t)]_vars
  BY <1>1, InvariantAlways, PTL DEF Spec
<1>3. QED
  BY <1>2 DEF ClearsItsOwnCart, ClearsForItsAttempt

\* A page whose session was rejected sends nothing more.
SendsNothingMore(t) ==
    page[t].open /\ page[t].failure /\ page'[t].open => Expects(t)' \subseteq Expects(t)

LEMMA StepSendsNothingMore ==
    ASSUME IInv, [Next]_vars, NEW t \in Tabs
    PROVE  SendsNothingMore(t)
<1>1. TypeOK
  BY DEF IInv
<1>2. ASSUME NEW r \in Requests, ServiceStep(r) PROVE SendsNothingMore(t)
  BY <1>1, <1>2, ServiceOutcome, ServiceRequests, RowTypes DEF SendsNothingMore, Expects
<1>3. ASSUME NEW r \in Requests, ReceiveStep(r) PROVE SendsNothingMore(t)
  <2>1. Drop(r)
    BY <1>3 DEF ReceiveStep, ReceiveError, ReceiveUnauthorized, ReceivePending, ReceiveTerminal
  <2>2. requests'[r].pc = "idle" /\ \A q \in Requests : q # r => requests'[q] = requests[q]
    BY <1>1, <2>1, DropEffect, RowTypes
  <2>3. QED
    BY <2>2 DEF SendsNothingMore, Expects
<1>4. ASSUME NEW u \in Tabs, StartCheckout(u) PROVE SendsNothingMore(t)
  <2>1. CASE u = t
    BY <1>4, <2>1 DEF StartCheckout, CheckoutDisabled, SendsNothingMore
  <2>2. CASE u # t
    <3>1. UNCHANGED requests \/ \E r \in Requests, k \in Keys : requests[r].pc = "idle" /\ Send(r, u, k)
      BY <1>4 DEF StartCheckout
    <3>2. ASSUME NEW r \in Requests, NEW k \in Keys, requests[r].pc = "idle", Send(r, u, k)
          PROVE  Expects(t)' \subseteq Expects(t)
      BY <1>1, <2>2, <3>2, SendEffect DEF Expects
    <3>3. QED
      BY <3>1, <3>2 DEF SendsNothingMore, Expects
  <2>3. QED
    BY <2>1, <2>2
<1>5. ASSUME NEW u \in Tabs, Leave(u) PROVE SendsNothingMore(t)
  <2>1. \A r \in Requests : \/ requests'[r] = requests[r] \/ requests'[r].pc = "idle"
                            \/ ~requests'[r].listening
    BY <1>1, <1>5, RowTypes DEF Leave, TypeOK, RequestRow
  <2>2. QED
    BY <2>1 DEF SendsNothingMore, Expects
<1>6. CASE Environment \/ UNCHANGED vars
  <2>1. UNCHANGED requests
    BY <1>1, <1>6, EnvironmentOutcome DEF IInv, vars
  <2>2. QED
    BY <2>1 DEF SendsNothingMore, Expects
<1>7. ASSUME NEW u \in Tabs, Open(u) \/ Load(u) \/ StartNewAttempt(u) \/ WaitRateLimit(u) \/ RejectSummary(u)
      PROVE  SendsNothingMore(t)
  <2>1. UNCHANGED requests
    BY <1>7 DEF Open, Load, StartNewAttempt, WaitRateLimit, RejectSummary
  <2>2. QED
    BY <2>1 DEF SendsNothingMore, Expects
<1>8. QED
  BY <1>2, <1>3, <1>4, <1>5, <1>6, <1>7, StepsAre

\* After a 401 an open page sends no request, not even as a guest (authenticatedFailure).
THEOREM NoGuestCheckoutAfterRejection == Spec => NoGuestAfterRejection
<1>1. IInv /\ [Next]_vars => [\A t \in Tabs : SendsNothingMore(t)]_vars
  BY StepSendsNothingMore
<1>2. Spec => [][\A t \in Tabs : SendsNothingMore(t)]_vars
  BY <1>1, InvariantAlways, PTL DEF Spec
<1>3. QED
  BY <1>2 DEF NoGuestAfterRejection, SendsNothingMore
=============================================================================
