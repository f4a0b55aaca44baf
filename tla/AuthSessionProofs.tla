------------------------- MODULE AuthSessionProofs -------------------------
(***************************************************************************)
(* The session of a tab tells one story, an ended session stays ended and  *)
(* only its own requests end it, and nobody waits for nothing: for every   *)
(* set of accounts and tokens, and any number of requests and sign-ins.    *)
(***************************************************************************)
EXTENDS AuthSession, TLAPS

\* What the storage holds of the session that AuthProvider has.
StorageKeeps ==
    /\ store.token = IF store.works /\ ~auth.legacy THEN auth.token ELSE None
    /\ store.login = IF store.works /\ ~auth.legacy THEN auth.login ELSE 0
    /\ store.demo <=> store.works /\ auth.demo
    /\ store.legacy = IF store.works /\ auth.legacy THEN auth.token ELSE None

OneStory ==
    /\ auth.phase = "unauthenticated" <=> auth.token = None
    /\ auth.token = None <=> auth.login = 0
    /\ auth.token = None => ~auth.legacy /\ ~auth.demo
    /\ auth.legacy => auth.login = 1 /\ ~auth.demo /\ auth.phase # "authenticated"
    /\ auth.token # None => (auth.demo <=> auth.token.account = DemoAccount)
    /\ auth.phase = "authenticated" => auth.user = auth.token.account
    /\ auth.login <= service.logins
    /\ StorageKeeps

\* A request is the latest one of its number; the latest is about the session there is, or
\* about to open one.
RequestsMatch ==
    /\ \A r \in asked : r.gen <= auth.gen
    /\ \A r, q \in asked : r.gen = q.gen => r = q
    /\ \A r \in asked : RequestIsCurrent(r.gen) =>
         IF r.kind = "credentials" THEN auth.token = None
         ELSE r.token = auth.token /\ r.legacy = auth.legacy /\ r.login = auth.login

\* Token and generation together identify a session.
CallsMatch ==
    \A c \in calls :
        /\ c.session <= auth.session
        /\ c.session = auth.session /\ c.token = auth.token => c.login = auth.login

EndedIsPast ==
    \A e \in ended :
        /\ e.login # 0 /\ e.login <= service.logins
        /\ e.login # auth.login
        /\ e.by = e.login

TabType == [place : Places, next : Places, waits : SignInControls \cup {"none"}, gen : Nat,
            held : SUBSET SignInControls, toAdmin : BOOLEAN]
CallsTyped(cs) ==
    \A c \in cs : c \in [kind : {"read", "save"}, place : Protected, token : Tokens, session : Nat,
                         login : Logins, open : BOOLEAN]

ServiceType == [roles : [Accounts -> AccountRoles], expired : SUBSET Tokens, logins : Logins,
                reloads : 0 .. MaxReloads, calls : 0 .. MaxCalls]
StoreType == [works : BOOLEAN, token : MaybeToken, login : Logins, demo : BOOLEAN, legacy : MaybeToken]
AuthType == [phase : Phases, user : Accounts \cup {None}, role : AccountRoles, token : MaybeToken,
             legacy : BOOLEAN, demo : BOOLEAN, login : Logins, gen : Nat, session : Nat]

IInv ==
    /\ SessionTypeOK
    /\ OneStory
    /\ RequestsMatch
    /\ CallsMatch
    /\ EndedIsPast
    /\ NeverWaitsForNothing

-----------------------------------------------------------------------------
(* Operators.                                                              *)

\* The type invariant by variables.
LEMMA TypeParts ==
    SessionTypeOK <=>
        /\ service \in ServiceType /\ store \in StoreType /\ auth \in AuthType
        /\ asked \subseteq Requests /\ tab \in TabType /\ CallsTyped(calls)
        /\ ended \subseteq [login : Logins, by : Logins]
BY DEF SessionTypeOK, ServiceType, StoreType, AuthType, TabType, CallsTyped

\* None is not a token, and a token has an account.
LEMMA TokensAreReal == None \notin Tokens /\ None \notin Accounts
BY SessionBounds DEF Tokens

\* What a request holds.
LEMMA RequestsTyped ==
    ASSUME asked \subseteq Requests, NEW r \in asked
    PROVE  /\ r.gen \in 1 .. MaxRequests /\ r.gen \in Nat
           /\ r.by \in SignInControls \cup {"provider"}
           /\ r.kind \in {"credentials", "validation"}
           /\ r.kind = "credentials" => r.account \in Accounts /\ r.by # "provider"
           /\ r.kind = "validation" => r.token \in Tokens /\ r.legacy \in BOOLEAN /\ r.login \in 1 .. MaxLogins
<1>. DEFINE C == [gen : 1 .. MaxRequests, kind : {"credentials"}, by : SignInControls, account : Accounts,
                 token : {None}, legacy : {FALSE}, login : {0}]
            V == [gen : 1 .. MaxRequests, kind : {"validation"}, by : SignInControls \cup {"provider"},
                 account : {None}, token : Tokens, legacy : BOOLEAN, login : 1 .. MaxLogins]
<1>1. r \in C \/ r \in V
  BY DEF Requests
<1>2. \A n \in 1 .. MaxRequests : n \in Nat
  BY SessionBounds
<1>3. "provider" \notin SignInControls
  BY DEF SignInControls
<1>4. CASE r \in C
  BY <1>2, <1>3, <1>4
<1>5. CASE r \in V
  BY <1>2, <1>5
<1>. QED BY <1>1, <1>4, <1>5

\* Pages that are left keep the facts of their requests.
LEMMA LeftKeeps ==
    ASSUME NEW cs, NEW d \in Left(cs), CallsTyped(cs)
    PROVE  \E c \in cs : d.session = c.session /\ d.token = c.token /\ d.login = c.login
BY DEF Left, CallsTyped

LEMMA LeftTyped ==
    ASSUME NEW cs, CallsTyped(cs)
    PROVE  CallsTyped(Left(cs))
BY DEF Left, CallsTyped

LEMMA HeardKeeps ==
    ASSUME NEW cs, NEW d \in Heard(cs), CallsTyped(cs)
    PROVE  \E c \in cs : d.session = c.session /\ d.token = c.token /\ d.login = c.login
BY LeftKeeps DEF Heard

LEMMA HeardTyped ==
    ASSUME NEW cs, CallsTyped(cs)
    PROVE  CallsTyped(Heard(cs))
BY LeftTyped DEF Heard

\* A page as it is opened.
LEMMA PageTyped ==
    ASSUME NEW place \in Places, NEW next \in Places
    PROVE  /\ Page(place, next) \in TabType
           /\ Page(place, next).waits = "none"
BY DEF Page, TabType, Places, SignInControls

\* A form that hears of a request waits for it no longer, and for another as before.
LEMMA ReleasedForm ==
    ASSUME tab \in TabType, NEW r, r.by \in SignInControls \cup {"provider"},
           NEW limited \in BOOLEAN, NEW later \in BOOLEAN
    PROVE  /\ Released(r, limited, later) \in TabType
           /\ \/ Released(r, limited, later).waits = "none"
              \/ /\ Released(r, limited, later) = tab
                 /\ r.gen # tab.gen \/ r.by # tab.waits
BY DEF Released, TabType, SignInControls

\* What the storage of a page load brings back.
LEMMA RestoredSession ==
    ASSUME SessionTypeOK, OneStory
    PROVE  /\ Restored.user = None /\ Restored.role = "customer" /\ Restored.gen = 0 /\ Restored.session = 0
           /\ Restored.token = None =>
                /\ store.token = None /\ store.login = 0 /\ store.demo = FALSE /\ store.legacy = None
                /\ Restored.phase = "unauthenticated" /\ Restored.login = 0
                /\ Restored.legacy = FALSE /\ Restored.demo = FALSE
           /\ Restored.token # None =>
                /\ store.works
                /\ Restored.token = auth.token /\ Restored.login = auth.login
                /\ Restored.legacy = auth.legacy /\ Restored.demo = auth.demo
                /\ Restored.phase = "checking-session"
                /\ Restored.token \in Tokens /\ Restored.login \in 1 .. MaxLogins
                /\ Restored.legacy \in BOOLEAN /\ Restored.demo \in BOOLEAN
<1>. /\ auth.token \in Tokens \cup {None} /\ auth.legacy \in BOOLEAN /\ auth.demo \in BOOLEAN
     /\ auth.login \in Nat /\ auth.login <= MaxLogins /\ store.works \in BOOLEAN /\ store.demo \in BOOLEAN
  BY SessionBounds DEF SessionTypeOK, Logins, MaybeToken
<1>. /\ StorageKeeps
     /\ auth.token = None <=> auth.login = 0
     /\ auth.token = None => ~auth.legacy /\ ~auth.demo
     /\ auth.legacy => auth.login = 1 /\ ~auth.demo
  BY DEF OneStory
<1>1. CASE store.works /\ auth.token # None /\ auth.legacy
  <2>1. store.token = None /\ store.legacy = auth.token
    BY <1>1 DEF StorageKeeps
  <2>2. Restored = [NoSession EXCEPT !.phase = "checking-session", !.token = auth.token, !.login = 1, !.legacy = TRUE]
    BY <1>1, <2>1 DEF Restored
  <2>3. auth.legacy = TRUE /\ auth.demo = FALSE /\ auth.login = 1 /\ auth.token \in Tokens
    BY <1>1
  <2>4. /\ Restored.user = None /\ Restored.role = "customer" /\ Restored.gen = 0 /\ Restored.session = 0
        /\ Restored.token = auth.token /\ Restored.login = 1 /\ Restored.phase = "checking-session"
        /\ Restored.legacy = TRUE /\ Restored.demo = FALSE
    BY <2>2 DEF NoSession
  <2>5. 1 \in 1 .. MaxLogins
    BY SessionBounds
  <2>. QED BY <1>1, <2>3, <2>4, <2>5
<1>2. CASE store.works /\ auth.token # None /\ ~auth.legacy
  <2>1. store.token = auth.token /\ store.login = auth.login /\ store.demo = auth.demo
    BY <1>2 DEF StorageKeeps
  <2>2. Restored = [NoSession EXCEPT !.phase = "checking-session", !.token = auth.token,
                                     !.login = auth.login, !.demo = auth.demo]
    BY <1>2, <2>1 DEF Restored
  <2>3. auth.legacy = FALSE /\ auth.login \in 1 .. MaxLogins /\ auth.token \in Tokens
    BY <1>2, SessionBounds
  <2>4. /\ Restored.user = None /\ Restored.role = "customer" /\ Restored.gen = 0 /\ Restored.session = 0
        /\ Restored.token = auth.token /\ Restored.login = auth.login
        /\ Restored.phase = "checking-session" /\ Restored.legacy = FALSE /\ Restored.demo = auth.demo
    BY <2>2 DEF NoSession
  <2>. QED BY <1>2, <2>3, <2>4
<1>3. CASE ~store.works \/ auth.token = None
  <2>1. store.token = None /\ store.login = 0 /\ store.demo = FALSE /\ store.legacy = None
    BY <1>3 DEF StorageKeeps
  <2>2. Restored = NoSession
    BY <2>1 DEF Restored
  <2>. QED BY <2>1, <2>2 DEF NoSession
<1>. QED BY <1>1, <1>2, <1>3

-----------------------------------------------------------------------------
(* Steps that leave the session and its requests alone.                    *)

\* Such a step keeps the invariant if what it does to pages and their requests is in order.
LEMMA QuietStep ==
    ASSUME IInv, UNCHANGED <<store, auth, asked, ended>>,
           service' \in ServiceType, service'.logins = service.logins,
           tab' \in TabType, tab'.waits = "none" \/ (tab'.waits = tab.waits /\ tab'.gen = tab.gen),
           CallsTyped(calls'), CallsMatch'
    PROVE  IInv'
<1>1. SessionTypeOK'
  BY TypeParts DEF IInv, SessionTypeOK, ServiceType, StoreType, AuthType, TabType, CallsTyped
<1>2. OneStory'
  BY DEF IInv, OneStory, StorageKeeps
<1>3. RequestsMatch'
  BY DEF IInv, RequestsMatch, RequestIsCurrent
<1>4. EndedIsPast'
  BY DEF IInv, EndedIsPast
<1>5. NeverWaitsForNothing'
  BY DEF IInv, NeverWaitsForNothing
<1>. QED BY <1>1, <1>2, <1>3, <1>4, <1>5 DEF IInv

\* Requests that stay as they are, and those of pages that are left, keep their facts.
LEMMA CallsKept ==
    ASSUME CallsTyped(calls), CallsMatch, auth' = auth,
           calls' \subseteq calls \/ calls' = Left(calls)
    PROVE  CallsTyped(calls') /\ CallsMatch'
<1>1. CallsTyped(calls')
  BY LeftTyped DEF CallsTyped
<1>2. ASSUME NEW d \in calls' PROVE \E c \in calls : d.session = c.session /\ d.token = c.token /\ d.login = c.login
  BY <1>2, LeftKeeps
<1>3. CallsMatch'
  BY <1>2 DEF CallsMatch
<1>. QED BY <1>1, <1>3

LEMMA QuietSteps ==
    ASSUME IInv,
           \/ Visit \/ Redirect \/ CountdownEnds
           \/ \E kind \in {"read", "save"} : StartCall(kind)
           \/ \E c \in calls : CallAnswered(c)
           \/ \E token \in InUse : Expire(token)
           \/ \E account \in Accounts, role \in AccountRoles : ChangeRole(account, role)
    PROVE  IInv'
<1>. /\ service \in ServiceType /\ auth \in AuthType /\ tab \in TabType /\ CallsTyped(calls)
     /\ CallsMatch /\ asked \subseteq Requests
  BY TypeParts DEF IInv
<1>1. CASE Visit
  <2>1. PICK place \in Places \ {tab.place} :
          tab' = Page(place, IF tab.place \in {"login", "register"} THEN tab.next ELSE "public")
    BY <1>1 DEF Visit
  <2>2. (IF tab.place \in {"login", "register"} THEN tab.next ELSE "public") \in Places
    BY DEF TabType, Places
  <2>3. tab' \in TabType /\ tab'.waits = "none"
    BY <2>1, <2>2, PageTyped
  <2>4. CallsTyped(calls') /\ CallsMatch'
    BY <1>1, CallsKept DEF Visit
  <2>. QED BY <1>1, <2>3, <2>4, QuietStep DEF Visit
<1>2. CASE Redirect
  <2>1. PICK place \in Places, next \in Places : tab' = Page(place, next)
    BY <1>2 DEF Redirect, SentAway, Destination, Places, Protected, TabType
  <2>2. tab' \in TabType /\ tab'.waits = "none"
    BY <2>1, PageTyped
  <2>3. CallsTyped(calls') /\ CallsMatch'
    BY <1>2, CallsKept DEF Redirect
  <2>. QED BY <1>2, <2>2, <2>3, QuietStep DEF Redirect
<1>3. CASE CountdownEnds
  <2>1. tab' \in TabType /\ tab'.waits = tab.waits /\ tab'.gen = tab.gen
    BY <1>3 DEF CountdownEnds, TabType
  <2>2. CallsTyped(calls') /\ CallsMatch'
    BY <1>3, CallsKept DEF CountdownEnds
  <2>. QED BY <1>3, <2>1, <2>2, QuietStep DEF CountdownEnds
<1>4. ASSUME NEW kind \in {"read", "save"}, StartCall(kind) PROVE IInv'
  <2>1. auth.token \in Tokens /\ auth.session \in Nat /\ auth.login \in Logins /\ tab.place \in Protected
    BY <1>4 DEF StartCall, Content, IInv, OneStory, AuthType, MaybeToken
  <2>a. [kind |-> kind, place |-> tab.place, token |-> auth.token, session |-> auth.session,
         login |-> auth.login, open |-> TRUE]
        \in [kind : {"read", "save"}, place : Protected, token : Tokens, session : Nat,
             login : Logins, open : BOOLEAN]
    BY <2>1
  <2>2. CallsTyped(calls')
    BY <1>4, <2>a DEF StartCall, CallsTyped
  <2>3. CallsMatch'
    BY <1>4, <2>1 DEF StartCall, CallsMatch
  <2>4. service' \in ServiceType /\ service'.logins = service.logins
    BY <1>4, SessionBounds DEF StartCall, ServiceType
  <2>. QED BY <1>4, <2>2, <2>3, <2>4, QuietStep DEF StartCall
<1>5. ASSUME NEW c \in calls, CallAnswered(c) PROVE IInv'
  <2>1. CallsTyped(calls') /\ CallsMatch'
    BY <1>5, CallsKept DEF CallAnswered
  <2>. QED BY <1>5, <2>1, QuietStep DEF CallAnswered
<1>6. ASSUME NEW token \in InUse, Expire(token) PROVE IInv'
  <2>1. token \in Tokens
    BY DEF InUse, AuthType, MaybeToken, Requests, CallsTyped
  <2>2. service' \in ServiceType /\ service'.logins = service.logins
    BY <1>6, <2>1 DEF Expire, ServiceType
  <2>3. CallsTyped(calls') /\ CallsMatch'
    BY <1>6, CallsKept DEF Expire
  <2>. QED BY <1>6, <2>2, <2>3, QuietStep DEF Expire
<1>7. ASSUME NEW account \in Accounts, NEW role \in AccountRoles, ChangeRole(account, role) PROVE IInv'
  <2>1. service' \in ServiceType /\ service'.logins = service.logins
    BY <1>7 DEF ChangeRole, ServiceType
  <2>2. CallsTyped(calls') /\ CallsMatch'
    BY <1>7, CallsKept DEF ChangeRole
  <2>. QED BY <1>7, <2>1, <2>2, QuietStep DEF ChangeRole
<1>. QED BY <1>1, <1>2, <1>3, <1>4, <1>5, <1>6, <1>7

-----------------------------------------------------------------------------
(* Steps that end the session.                                             *)

\* An ended session leaves nothing behind.
Cleared ==
    /\ auth'.phase = "unauthenticated" /\ auth'.token = None /\ auth'.login = 0
    /\ auth'.legacy = FALSE /\ auth'.demo = FALSE
    /\ store'.works = store.works /\ store'.token = None /\ store'.login = 0
    /\ store'.demo = FALSE /\ store'.legacy = None

LEMMA ClearedAgrees ==
    ASSUME IInv, Cleared, service'.logins \in Nat
    PROVE  OneStory'
BY DEF Cleared, OneStory, StorageKeeps

\* What ends is the present session, if there is one.
LEMMA EndingIsPast ==
    ASSUME IInv, service'.logins = service.logins, auth'.login = 0, NEW by,
           auth.login # 0 => by = auth.login, ended' = ended \cup Ending(by)
    PROVE  EndedIsPast' /\ ended' \subseteq [login : Logins, by : Logins]
<1>1. auth.login \in Nat /\ auth.login <= service.logins /\ auth.login \in Logins
      /\ ended \subseteq [login : Logins, by : Logins]
  BY TypeParts DEF IInv, AuthType, Logins, OneStory
<1>2. ASSUME NEW e \in ended' PROVE e \in ended \/ (auth.login # 0 /\ e = [login |-> auth.login, by |-> auth.login])
  BY <1>2 DEF Ending
<1>3. EndedIsPast'
  BY <1>1, <1>2 DEF IInv, EndedIsPast
<1>4. ended' \subseteq [login : Logins, by : Logins]
  BY <1>1, <1>2
<1>. QED BY <1>3, <1>4

\* clearSession outdates every request.
LEMMA ClearingStep ==
    ASSUME IInv, NEW by, ClearSession(by), auth.login # 0 => by = auth.login,
           UNCHANGED <<service, asked>>
    PROVE  /\ auth' \in AuthType /\ store' \in StoreType /\ Cleared
           /\ auth'.session = auth.session + 1
           /\ OneStory' /\ RequestsMatch' /\ EndedIsPast' /\ ended' \subseteq [login : Logins, by : Logins]
           /\ asked' \subseteq Requests
<1>. /\ service \in ServiceType /\ auth \in AuthType /\ store \in StoreType /\ asked \subseteq Requests
  BY TypeParts DEF IInv
<1>1. auth' = [NoSession EXCEPT !.gen = auth.gen + 1, !.session = auth.session + 1]
      /\ store' = [EmptyStore EXCEPT !.works = store.works]
      /\ ended' = ended \cup Ending(by)
  BY DEF ClearSession, Wiped
<1>a. auth.gen \in Nat /\ auth.session \in Nat /\ store.works \in BOOLEAN /\ 0 \in Logins
  BY SessionBounds DEF AuthType, StoreType, Logins
<1>2. /\ auth' \in AuthType /\ auth'.session = auth.session + 1 /\ auth'.gen = auth.gen + 1
      /\ auth'.phase = "unauthenticated" /\ auth'.token = None /\ auth'.login = 0
      /\ auth'.legacy = FALSE /\ auth'.demo = FALSE
  <2>1. /\ auth'.session = auth.session + 1 /\ auth'.gen = auth.gen + 1
        /\ auth'.phase = "unauthenticated" /\ auth'.token = None /\ auth'.login = 0
        /\ auth'.legacy = FALSE /\ auth'.demo = FALSE
    BY <1>1 DEF NoSession
  <2>2. auth' = [phase |-> "unauthenticated", user |-> None, role |-> "customer", token |-> None,
                 legacy |-> FALSE, demo |-> FALSE, login |-> 0, gen |-> auth.gen + 1,
                 session |-> auth.session + 1]
    BY <1>1 DEF NoSession
  <2>3. auth' \in AuthType
    BY <1>a, <2>2 DEF AuthType, Phases, AccountRoles, MaybeToken
  <2>. QED BY <2>1, <2>3
<1>3. /\ store' \in StoreType /\ store'.works = store.works
      /\ store'.token = None /\ store'.login = 0 /\ store'.demo = FALSE /\ store'.legacy = None
  BY <1>1, <1>a DEF EmptyStore, StoreType, MaybeToken
<1>4. Cleared
  BY <1>2, <1>3 DEF Cleared
<1>5. service'.logins \in Nat
  BY DEF ServiceType, Logins
<1>6. OneStory'
  BY <1>4, <1>5, ClearedAgrees
<1>7. \A r \in asked' : r.gen \in Nat /\ r.gen <= auth.gen
  BY RequestsTyped DEF IInv, RequestsMatch
<1>8. RequestsMatch'
  BY <1>2, <1>7 DEF IInv, RequestsMatch, RequestIsCurrent, AuthType
<1>9. EndedIsPast' /\ ended' \subseteq [login : Logins, by : Logins]
  BY <1>1, <1>2, EndingIsPast
<1>. QED BY <1>2, <1>3, <1>4, <1>6, <1>8, <1>9

\* Requests of an ended session are of no session.
LEMMA CallsOutdated ==
    ASSUME CallsTyped(calls), CallsMatch, auth \in AuthType, auth'.session = auth.session + 1,
           NEW cs \in SUBSET calls, calls' \in {cs, Left(cs)}
    PROVE  CallsTyped(calls') /\ CallsMatch'
<1>0. CallsTyped(cs)
  BY DEF CallsTyped
<1>1. CallsTyped(calls')
  BY <1>0, LeftTyped DEF CallsTyped
<1>2. ASSUME NEW d \in calls' PROVE \E c \in calls : d.session = c.session /\ d.token = c.token /\ d.login = c.login
  BY <1>0, <1>2, LeftKeeps
<1>3. ASSUME NEW d \in calls' PROVE d.session \in Nat /\ d.session <= auth.session
  BY <1>2, <1>3 DEF CallsMatch, CallsTyped
<1>4. CallsMatch'
  BY <1>3 DEF CallsMatch, AuthType
<1>. QED BY <1>1, <1>4

\* The rest of a step that ends the session: pages and their requests.
LEMMA ClearedStep ==
    ASSUME IInv, NEW by, ClearSession(by), auth.login # 0 => by = auth.login,
           UNCHANGED <<service, asked>>,
           tab' \in TabType, tab'.waits = "none" \/ tab' = tab,
           NEW cs \in SUBSET calls, calls' \in {cs, Left(cs)}
    PROVE  IInv'
<1>. /\ service \in ServiceType /\ auth \in AuthType /\ CallsTyped(calls) /\ CallsMatch
  BY TypeParts DEF IInv
<1>1. /\ auth' \in AuthType /\ store' \in StoreType /\ Cleared
      /\ auth'.session = auth.session + 1
      /\ OneStory' /\ RequestsMatch' /\ EndedIsPast' /\ ended' \subseteq [login : Logins, by : Logins]
      /\ asked' \subseteq Requests
  BY ClearingStep
<1>2. CallsTyped(calls') /\ CallsMatch'
  BY <1>1, CallsOutdated
<1>3. SessionTypeOK'
  BY <1>1, <1>2 DEF SessionTypeOK, ServiceType, StoreType, AuthType, TabType, CallsTyped
<1>4. NeverWaitsForNothing'
  BY <1>1 DEF IInv, NeverWaitsForNothing, Cleared
<1>. QED BY <1>1, <1>2, <1>3, <1>4 DEF IInv

\* Logging out, and answers for which the session is over.
LEMMA LogoutStep ==
    ASSUME IInv, Logout
    PROVE  IInv'
<1>1. tab \in TabType
  BY TypeParts DEF IInv
<1>2. tab' \in TabType /\ (tab'.waits = "none" \/ tab' = tab)
  BY <1>1, PageTyped DEF Logout, Places
<1>. QED BY <1>2, ClearedStep DEF Logout

LEMMA CallUnauthorizedStep ==
    ASSUME IInv, NEW c \in calls, CallUnauthorized(c)
    PROVE  IInv'
<1>. /\ service \in ServiceType /\ auth \in AuthType /\ tab \in TabType /\ CallsTyped(calls) /\ CallsMatch
  BY TypeParts DEF IInv
<1>. DEFINE cs == calls \ {c}
<1>1. UNCHANGED <<service, asked, tab>> /\ calls' \in {cs, Left(cs)}
  BY DEF CallUnauthorized, Heard
<1>2. CASE auth.token = c.token /\ auth.session = c.session
  <2>1. ClearSession(c.login)
    BY <1>2 DEF CallUnauthorized, InvalidateIfCurrent
  <2>2. c.login = auth.login
    BY <1>2 DEF CallsMatch
  <2>. QED BY <1>1, <2>1, <2>2, ClearedStep
<1>3. CASE ~(auth.token = c.token /\ auth.session = c.session)
  <2>1. UNCHANGED <<auth, store, ended>>
    BY <1>3 DEF CallUnauthorized, InvalidateIfCurrent
  <2>2. CallsTyped(cs)
    BY DEF CallsTyped
  <2>3. CallsTyped(calls')
    BY <1>1, <2>2, LeftTyped
  <2>4. ASSUME NEW d \in calls' PROVE \E e \in calls : d.session = e.session /\ d.token = e.token /\ d.login = e.login
    BY <1>1, <2>2, <2>4, LeftKeeps
  <2>5. CallsMatch'
    BY <2>1, <2>4 DEF CallsMatch
  <2>. QED BY <1>1, <2>1, <2>3, <2>5, QuietStep
<1>. QED BY <1>2, <1>3

LEMMA CallNotFoundStep ==
    ASSUME IInv, NEW c \in calls, CallNotFound(c)
    PROVE  IInv'
<1>. /\ service \in ServiceType /\ auth \in AuthType /\ tab \in TabType /\ CallsTyped(calls) /\ CallsMatch
  BY TypeParts DEF IInv
<1>1. UNCHANGED <<service, asked, tab>>
  BY DEF CallNotFound
<1>2. CASE auth.token = None
  <2>1. ClearSession(0) /\ calls' = calls \ {c}
    BY <1>2 DEF CallNotFound
  <2>2. auth.login = 0
    BY <1>2 DEF IInv, OneStory
  <2>. QED BY <1>1, <2>1, <2>2, ClearedStep
<1>3. CASE auth.token # None
  <2>. DEFINE d == [c EXCEPT !.kind = "read", !.token = auth.token, !.session = auth.session, !.login = auth.login]
  <2>1. calls' = (calls \ {c}) \cup {d} /\ UNCHANGED <<auth, store, ended>>
    BY <1>3 DEF CallNotFound
  <2>2. auth.token \in Tokens /\ auth.session \in Nat /\ auth.login \in Logins
    BY <1>3 DEF AuthType, MaybeToken
  <2>3. c \in [kind : {"read", "save"}, place : Protected, token : Tokens, session : Nat,
               login : Logins, open : BOOLEAN]
    BY DEF CallsTyped
  <2>4. d \in [kind : {"read", "save"}, place : Protected, token : Tokens, session : Nat,
               login : Logins, open : BOOLEAN]
    BY <2>2, <2>3
  <2>5. d.session = auth.session /\ d.login = auth.login
    BY <2>3
  <2>. HIDE DEF d
  <2>6. CallsTyped(calls')
    BY <2>1, <2>4 DEF CallsTyped
  <2>7. CallsMatch'
    BY <2>1, <2>2, <2>5 DEF CallsMatch
  <2>. QED BY <1>1, <2>1, <2>6, <2>7, QuietStep
<1>. QED BY <1>2, <1>3

-----------------------------------------------------------------------------
(* Requests of AuthProvider.                                               *)

\* A request that is sent is the latest.
LEMMA AskingMatches ==
    ASSUME RequestsMatch, asked \subseteq Requests, auth \in AuthType,
           NEW q, asked' = asked \cup {q}, q.gen = auth.gen + 1, auth'.gen = auth.gen + 1,
           IF q.kind = "credentials" THEN auth'.token = None
           ELSE q.token = auth'.token /\ q.legacy = auth'.legacy /\ q.login = auth'.login
    PROVE  RequestsMatch'
<1>1. \A r \in asked : r.gen \in Nat /\ r.gen <= auth.gen
  BY RequestsTyped DEF RequestsMatch
<1>2. auth.gen \in Nat
  BY DEF AuthType
<1>. QED BY <1>1, <1>2 DEF RequestsMatch, RequestIsCurrent

\* When the latest request is answered, no other speaks of the session.
LEMMA AnsweredMatches ==
    ASSUME RequestsMatch, asked' \subseteq asked, auth'.gen = auth.gen,
           \/ \E r \in asked \ asked' : RequestIsCurrent(r.gen)
           \/ auth'.token = auth.token /\ auth'.legacy = auth.legacy /\ auth'.login = auth.login
    PROVE  RequestsMatch'
BY DEF RequestsMatch, RequestIsCurrent

\* A form whose request was answered has heard of it; others still have theirs.
LEMMA FormsAnswered ==
    ASSUME IInv, NEW r \in asked, asked' = asked \ {r},
           NEW limited \in BOOLEAN, NEW later \in BOOLEAN, tab' = Released(r, limited, later)
    PROVE  /\ tab' \in TabType
           /\ tab'.waits # "none" => \E q \in asked' : q.gen = tab'.gen /\ q.by = tab'.waits
<1>1. tab \in TabType /\ r.by \in SignInControls \cup {"provider"}
  BY TypeParts, RequestsTyped DEF IInv
<1>2. /\ tab' \in TabType
      /\ \/ tab'.waits = "none"
         \/ tab' = tab /\ (r.gen # tab.gen \/ r.by # tab.waits)
  BY <1>1, ReleasedForm
<1>. QED BY <1>2 DEF IInv, NeverWaitsForNothing

LEMMA SignInStep ==
    ASSUME IInv, NEW by \in {"form", "demo"}, NEW account \in Accounts, SignIn(by, account)
    PROVE  IInv'
<1>. /\ service \in ServiceType /\ auth \in AuthType /\ store \in StoreType /\ tab \in TabType
     /\ CallsTyped(calls) /\ asked \subseteq Requests
  BY TypeParts DEF IInv
<1>. DEFINE q == [NoRequest EXCEPT !.gen = auth.gen + 1, !.kind = "credentials", !.by = by, !.account = account]
<1>1. /\ auth' = [auth EXCEPT !.gen = @ + 1] /\ asked' = asked \cup {q}
      /\ tab' = [tab EXCEPT !.waits = by, !.gen = auth.gen + 1, !.toAdmin = by = "demo"]
      /\ UNCHANGED <<service, store, calls, ended>>
      /\ auth.phase = "unauthenticated" /\ auth.gen < MaxRequests
  BY DEF SignIn
<1>2. auth.gen \in Nat /\ auth.gen + 1 \in 1 .. MaxRequests /\ auth.token = None
  BY <1>1, SessionBounds DEF AuthType, IInv, OneStory
<1>3. q.gen = auth.gen + 1 /\ q.kind = "credentials" /\ q.by = by
  BY DEF NoRequest
<1>4. q \in Requests
  BY <1>2 DEF NoRequest, Requests, SignInControls
<1>. HIDE DEF q
<1>5. /\ auth' \in AuthType /\ auth'.gen = auth.gen + 1 /\ auth'.token = auth.token
      /\ auth'.phase = auth.phase /\ auth'.legacy = auth.legacy /\ auth'.demo = auth.demo
      /\ auth'.login = auth.login /\ auth'.user = auth.user /\ auth'.session = auth.session
  BY <1>1 DEF AuthType
<1>6. tab' \in TabType /\ tab'.waits = by /\ tab'.gen = auth.gen + 1
  <2>1. by \in SignInControls \cup {"none"} /\ auth.gen + 1 \in Nat
    BY <1>2 DEF SignInControls
  <2>2. PICK later \in BOOLEAN : tab' = [tab EXCEPT !.waits = by, !.gen = auth.gen + 1, !.toAdmin = later]
    BY <1>1
  <2>. QED BY <2>1, <2>2 DEF TabType
<1>7. SessionTypeOK'
  BY <1>1, <1>4, <1>5, <1>6, TypeParts DEF IInv, SessionTypeOK, ServiceType, StoreType, AuthType, TabType, CallsTyped
<1>8. OneStory'
  BY <1>1, <1>5 DEF IInv, OneStory, StorageKeeps
<1>9. RequestsMatch'
  BY <1>1, <1>2, <1>3, <1>5, AskingMatches DEF IInv
<1>10. CallsMatch' /\ EndedIsPast'
  BY <1>1, <1>5 DEF IInv, CallsMatch, EndedIsPast
<1>11. NeverWaitsForNothing'
  BY <1>1, <1>3, <1>5, <1>6 DEF NeverWaitsForNothing
<1>. QED BY <1>7, <1>8, <1>9, <1>10, <1>11 DEF IInv

\* A token that opens a session.
LEMMA SignedInStep ==
    ASSUME IInv, NEW r \in asked, NEW token \in Tokens, SignedIn(r, token)
    PROVE  IInv'
<1>. /\ service \in ServiceType /\ auth \in AuthType /\ store \in StoreType /\ tab \in TabType
     /\ CallsTyped(calls) /\ CallsMatch /\ asked \subseteq Requests
     /\ ended \subseteq [login : Logins, by : Logins]
  BY TypeParts DEF IInv
<1>. DEFINE login == service.logins + 1
            v == [Validation(r.gen, token, FALSE, login) EXCEPT !.by = r.by]
<1>1. PICK demo \in BOOLEAN :
        /\ demo <=> token.account = DemoAccount
        /\ auth' = [auth EXCEPT !.phase = "checking-session", !.user = None, !.token = token,
                                !.legacy = FALSE, !.demo = demo, !.login = login, !.session = @ + 1]
        /\ store' = IF store.works THEN [store EXCEPT !.token = token, !.login = login, !.demo = demo] ELSE store
  BY DEF SignedIn, Saved
<1>2. /\ r.kind = "credentials" /\ RequestIsCurrent(r.gen) /\ service.logins < MaxLogins
      /\ service' = [service EXCEPT !.logins = login] /\ asked' = (asked \ {r}) \cup {v}
      /\ ended' = ended \cup Ending(login) /\ calls' = Heard(calls) /\ tab' = tab
  BY DEF SignedIn
<1>3. auth.token = None /\ auth.login = 0 /\ auth.gen = r.gen
  BY <1>2 DEF IInv, RequestsMatch, OneStory, RequestIsCurrent
<1>4. ended' = ended
  BY <1>2, <1>3 DEF Ending
<1>5. service.logins \in Nat /\ login \in Logins /\ login \in 1 .. MaxLogins
  BY <1>2, SessionBounds DEF ServiceType, Logins
<1>6. v.gen = r.gen /\ v.kind = "validation" /\ v.by = r.by /\ v.token = token /\ v.legacy = FALSE /\ v.login = login
  BY DEF Validation, NoRequest
<1>7. v \in Requests
  BY <1>5, RequestsTyped DEF Validation, NoRequest, Requests, SignInControls
<1>. HIDE DEF v
<1>8. /\ service' \in ServiceType /\ service'.logins = login
  BY <1>2, <1>5 DEF ServiceType
<1>9. /\ auth'.phase = "checking-session" /\ auth'.user = None /\ auth'.token = token
      /\ auth'.legacy = FALSE /\ auth'.demo = demo /\ auth'.login = login
      /\ auth'.gen = auth.gen /\ auth'.session = auth.session + 1
  BY <1>1 DEF AuthType
<1>10. auth' \in AuthType
  <2>1. "checking-session" \in Phases /\ None \in Accounts \cup {None} /\ token \in MaybeToken
        /\ auth.session \in Nat /\ auth.session + 1 \in Nat
    BY DEF AuthType, Phases, MaybeToken
  <2>. QED BY <1>1, <1>5, <2>1 DEF AuthType
<1>11. store' \in StoreType
  BY <1>1, <1>5 DEF StoreType, MaybeToken
<1>12. /\ store'.works = store.works /\ store.works \in BOOLEAN
       /\ store'.token = IF store.works THEN token ELSE None
       /\ store'.login = IF store.works THEN login ELSE 0
       /\ store'.demo <=> store.works /\ demo
       /\ store'.legacy = None
  <2>1. store.token = None /\ store.login = 0 /\ ~store.demo /\ store.legacy = None
    BY <1>3 DEF IInv, OneStory, StorageKeeps
  <2>2. store.works \in BOOLEAN
    BY DEF StoreType
  <2>3. CASE store.works
    BY <1>1, <2>1, <2>3 DEF StoreType
  <2>4. CASE ~store.works
    BY <1>1, <2>1, <2>4 DEF StoreType
  <2>. QED BY <2>2, <2>3, <2>4
<1>13. CallsTyped(calls') /\ CallsMatch'
  <2>1. calls' \in {calls, Left(calls)}
    BY <1>2 DEF Heard
  <2>. QED BY <1>9, <2>1, CallsOutdated
<1>14. SessionTypeOK'
  BY <1>2, <1>4, <1>7, <1>8, <1>10, <1>11, <1>13
  DEF SessionTypeOK, ServiceType, StoreType, AuthType, TabType, CallsTyped
<1>15. OneStory'
  <2>1. StorageKeeps'
    BY <1>9, <1>12 DEF StorageKeeps
  <2>2. token # None /\ login # 0 /\ login <= service'.logins
    BY <1>5, <1>8, TokensAreReal
  <2>. QED BY <1>1, <1>9, <2>1, <2>2 DEF OneStory
<1>16. RequestsMatch'
  <2>1. \A q \in asked' : q = v \/ (q \in asked /\ q.gen # v.gen)
    BY <1>2, <1>6 DEF IInv, RequestsMatch
  <2>2. \A q \in asked' : q.gen <= auth.gen /\ (q.gen = auth.gen => q = v)
    <3>1. auth.gen <= auth.gen
      BY DEF AuthType
    <3>. QED BY <1>3, <1>6, <2>1, <3>1 DEF IInv, RequestsMatch
  <2>3. \A q, u \in asked' : q.gen = u.gen => q = u
    BY <2>1 DEF IInv, RequestsMatch
  <2>. QED BY <1>6, <1>9, <2>2, <2>3 DEF RequestsMatch, RequestIsCurrent
<1>17. EndedIsPast'
  BY <1>4, <1>5, <1>8, <1>9 DEF IInv, EndedIsPast, Logins
<1>18. NeverWaitsForNothing'
  BY <1>2, <1>3, <1>6, <1>9 DEF IInv, NeverWaitsForNothing
<1>. QED BY <1>13, <1>14, <1>15, <1>16, <1>17, <1>18 DEF IInv

\* Answers that change only the form that waits.
LEMMA FormStep ==
    ASSUME IInv, NEW r \in asked, SignInFails(r) \/ Overtaken(r)
    PROVE  IInv'
<1>1. PICK limited \in BOOLEAN, later \in BOOLEAN :
        /\ asked' = asked \ {r} /\ tab' = Released(r, limited, later)
        /\ UNCHANGED <<service, store, auth, calls, ended>>
        /\ r.kind = "credentials" \/ ~RequestIsCurrent(r.gen)
  BY DEF SignInFails, Overtaken
<1>2. /\ tab' \in TabType
      /\ tab'.waits # "none" => \E q \in asked' : q.gen = tab'.gen /\ q.by = tab'.waits
  BY <1>1, FormsAnswered
<1>3. SessionTypeOK'
  BY <1>1, <1>2, TypeParts DEF IInv, SessionTypeOK, ServiceType, StoreType, AuthType, TabType, CallsTyped
<1>4. OneStory' /\ CallsMatch' /\ EndedIsPast'
  BY <1>1 DEF IInv, OneStory, StorageKeeps, CallsMatch, EndedIsPast
<1>5. RequestsMatch'
  BY <1>1, AnsweredMatches DEF IInv
<1>6. auth'.phase = "checking-session" =>
        \E q \in asked' : q.kind = "validation" /\ q.gen = auth'.gen /\ q.token = auth'.token
  BY <1>1 DEF IInv, NeverWaitsForNothing, RequestIsCurrent
<1>7. NeverWaitsForNothing'
  BY <1>2, <1>6 DEF NeverWaitsForNothing
<1>. QED BY <1>3, <1>4, <1>5, <1>7 DEF IInv

\* A check of the session that is there: what it finds.
LEMMA CheckedStep ==
    ASSUME IInv, NEW r \in asked, r.kind = "validation", RequestIsCurrent(r.gen),
           asked' = asked \ {r}, calls' \in {calls, Left(calls)},
           NEW limited \in BOOLEAN, NEW later \in BOOLEAN, tab' = Released(r, limited, later),
           service' = service, auth' \in AuthType, store' \in StoreType, OneStory',
           auth'.phase # "checking-session", auth'.gen = auth.gen, auth'.session = auth.session,
           (auth'.token = auth.token /\ auth'.login = auth.login) \/ auth'.token = None,
           EndedIsPast', ended' \subseteq [login : Logins, by : Logins]
    PROVE  IInv'
<1>. CallsTyped(calls) /\ CallsMatch /\ service \in ServiceType
  BY TypeParts DEF IInv
<1>1. /\ tab' \in TabType
      /\ tab'.waits # "none" => \E q \in asked' : q.gen = tab'.gen /\ q.by = tab'.waits
  BY FormsAnswered
<1>2. CallsTyped(calls')
  BY LeftTyped
<1>3. CallsMatch'
  <2>1. ASSUME NEW d \in calls' PROVE \E c \in calls : d.session = c.session /\ d.token = c.token /\ d.login = c.login
    BY <2>1, LeftKeeps
  <2>2. \A d \in calls' : d.token \in Tokens
    BY <1>2 DEF CallsTyped
  <2>. QED BY <2>1, <2>2, TokensAreReal DEF CallsMatch
<1>4. SessionTypeOK'
  BY <1>1, <1>2, TypeParts DEF IInv, SessionTypeOK, ServiceType, StoreType, AuthType, TabType, CallsTyped
<1>5. RequestsMatch'
  BY AnsweredMatches DEF IInv
<1>6. NeverWaitsForNothing'
  BY <1>1 DEF NeverWaitsForNothing
<1>. QED BY <1>3, <1>4, <1>5, <1>6 DEF IInv

LEMMA ValidatedStep ==
    ASSUME IInv, NEW r \in asked, Validated(r)
    PROVE  IInv'
<1>. /\ service \in ServiceType /\ auth \in AuthType /\ store \in StoreType /\ asked \subseteq Requests
     /\ ended \subseteq [login : Logins, by : Logins]
  BY TypeParts DEF IInv
<1>1. /\ r.kind = "validation" /\ RequestIsCurrent(r.gen)
      /\ auth' = [auth EXCEPT !.phase = "authenticated", !.user = r.token.account,
                              !.role = service.roles[r.token.account], !.token = r.token,
                              !.legacy = FALSE, !.login = r.login]
      /\ store' = WithoutLegacy(Saved(r.token, r.login, auth.demo))
      /\ asked' = asked \ {r} /\ tab' = Released(r, FALSE, TRUE) /\ calls' = Heard(calls)
      /\ UNCHANGED <<service, ended>>
  BY DEF Validated
<1>2. /\ r.token \in Tokens /\ r.login \in 1 .. MaxLogins /\ r.login \in Logins
      /\ r.token = auth.token /\ r.login = auth.login
  BY <1>1, RequestsTyped, SessionBounds DEF IInv, RequestsMatch, Logins
<1>3. r.token.account \in Accounts /\ service.roles[r.token.account] \in AccountRoles
  BY <1>2 DEF Tokens, ServiceType
<1>4. /\ auth'.phase = "authenticated" /\ auth'.user = r.token.account /\ auth'.token = auth.token
      /\ auth'.legacy = FALSE /\ auth'.login = auth.login /\ auth'.demo = auth.demo
      /\ auth'.gen = auth.gen /\ auth'.session = auth.session
  BY <1>1, <1>2 DEF AuthType
<1>5. auth' \in AuthType
  BY <1>1, <1>2, <1>3 DEF AuthType, Phases, MaybeToken
<1>6. store' \in StoreType
  BY <1>1, <1>2 DEF WithoutLegacy, Saved, StoreType, AuthType, MaybeToken
<1>7. /\ store'.works = store.works /\ store.works \in BOOLEAN
      /\ store'.token = IF store.works THEN r.token ELSE store.token
      /\ store'.login = IF store.works THEN r.login ELSE store.login
      /\ store'.demo = IF store.works THEN auth.demo ELSE store.demo
      /\ store'.legacy = None
  BY <1>1 DEF WithoutLegacy, Saved, StoreType
<1>8. OneStory'
  <2>1. StorageKeeps'
    BY <1>2, <1>4, <1>7 DEF IInv, OneStory, StorageKeeps
  <2>2. auth.token # None
    BY <1>2, TokensAreReal
  <2>. QED BY <1>1, <1>2, <1>4, <2>1, <2>2 DEF IInv, OneStory
<1>9. EndedIsPast'
  BY <1>1, <1>4 DEF IInv, EndedIsPast
<1>. QED BY <1>1, <1>4, <1>5, <1>6, <1>8, <1>9, CheckedStep DEF Heard

LEMMA RejectedStep ==
    ASSUME IInv, NEW r \in asked, Rejected(r)
    PROVE  IInv'
<1>. /\ service \in ServiceType /\ auth \in AuthType /\ store \in StoreType /\ asked \subseteq Requests
  BY TypeParts DEF IInv
<1>1. /\ r.kind = "validation" /\ RequestIsCurrent(r.gen)
      /\ auth' = [NoSession EXCEPT !.gen = auth.gen, !.session = auth.session]
      /\ store' = IF r.legacy THEN [WithoutLegacy(store) EXCEPT !.demo = FALSE] ELSE Wiped
      /\ ended' = ended \cup Ending(r.login)
      /\ asked' = asked \ {r} /\ tab' = Released(r, FALSE, FALSE) /\ calls' = Heard(calls)
      /\ service' = service
  BY DEF Rejected
<1>2. r.login = auth.login /\ r.legacy = auth.legacy
  BY <1>1 DEF IInv, RequestsMatch
<1>3. auth.gen \in Nat /\ auth.session \in Nat /\ store.works \in BOOLEAN /\ 0 \in Logins
  BY SessionBounds DEF AuthType, StoreType, Logins
<1>4. /\ auth'.phase = "unauthenticated" /\ auth'.token = None /\ auth'.login = 0
      /\ auth'.legacy = FALSE /\ auth'.demo = FALSE
      /\ auth'.gen = auth.gen /\ auth'.session = auth.session
  BY <1>1 DEF NoSession
<1>5. auth' \in AuthType
  BY <1>1, <1>3 DEF NoSession, AuthType, Phases, AccountRoles, MaybeToken
<1>6. store' \in StoreType /\ store'.works = store.works /\ store'.demo = FALSE /\ store'.legacy = None
  BY <1>1, <1>3 DEF WithoutLegacy, Wiped, EmptyStore, StoreType, MaybeToken
<1>7. store'.token = None /\ store'.login = 0
  BY <1>1, <1>2 DEF IInv, OneStory, StorageKeeps, WithoutLegacy, Wiped, EmptyStore, StoreType
<1>8. Cleared
  BY <1>4, <1>6, <1>7 DEF Cleared
<1>9. OneStory'
  BY <1>1, <1>8, ClearedAgrees DEF ServiceType, Logins
<1>10. EndedIsPast' /\ ended' \subseteq [login : Logins, by : Logins]
  BY <1>1, <1>2, <1>4, EndingIsPast
<1>. QED BY <1>1, <1>4, <1>5, <1>6, <1>9, <1>10, CheckedStep DEF Heard

LEMMA CheckFailsStep ==
    ASSUME IInv, NEW r \in asked, CheckFails(r)
    PROVE  IInv'
<1>. /\ service \in ServiceType /\ auth \in AuthType /\ store \in StoreType /\ asked \subseteq Requests
     /\ ended \subseteq [login : Logins, by : Logins]
  BY TypeParts DEF IInv
<1>1. /\ r.kind = "validation" /\ RequestIsCurrent(r.gen)
      /\ auth' = [auth EXCEPT !.phase = "temporarily-unavailable", !.user = None, !.token = r.token,
                              !.legacy = r.legacy, !.login = r.login]
      /\ asked' = asked \ {r} /\ tab' = Released(r, FALSE, TRUE) /\ calls' = Heard(calls)
      /\ UNCHANGED <<service, store, ended>>
  BY DEF CheckFails
<1>2. /\ r.token \in Tokens /\ r.login \in Logins /\ r.legacy \in BOOLEAN
      /\ r.token = auth.token /\ r.login = auth.login /\ r.legacy = auth.legacy
  BY <1>1, RequestsTyped, SessionBounds DEF IInv, RequestsMatch, Logins
<1>3. /\ auth'.phase = "temporarily-unavailable" /\ auth'.token = auth.token
      /\ auth'.legacy = auth.legacy /\ auth'.login = auth.login /\ auth'.demo = auth.demo
      /\ auth'.gen = auth.gen /\ auth'.session = auth.session
  BY <1>1, <1>2 DEF AuthType
<1>4. auth' \in AuthType
  BY <1>1, <1>2 DEF AuthType, Phases, MaybeToken
<1>5. OneStory'
  BY <1>1, <1>2, <1>3, TokensAreReal DEF IInv, OneStory, StorageKeeps
<1>6. EndedIsPast'
  BY <1>1, <1>3 DEF IInv, EndedIsPast
<1>. QED BY <1>1, <1>3, <1>4, <1>5, <1>6, CheckedStep DEF Heard

\* A further check of the session that is there.
LEMMA AskAgainStep ==
    ASSUME IInv, auth.token # None, auth.gen < MaxRequests, NEW phase \in Phases, NEW user \in Accounts \cup {None},
           auth' = [auth EXCEPT !.phase = phase, !.user = user, !.gen = @ + 1],
           \/ phase = "checking-session"
           \/ phase = auth.phase /\ user = auth.user,
           asked' = asked \cup {Validation(auth.gen + 1, auth.token, auth.legacy, auth.login)},
           UNCHANGED <<service, store, tab, ended>>, CallsTyped(calls'), CallsMatch'
    PROVE  IInv'
<1>. /\ service \in ServiceType /\ auth \in AuthType /\ store \in StoreType /\ tab \in TabType
     /\ asked \subseteq Requests
  BY TypeParts DEF IInv
<1>. DEFINE q == Validation(auth.gen + 1, auth.token, auth.legacy, auth.login)
<1>1. /\ auth.token \in Tokens /\ auth.login \in 1 .. MaxLogins /\ auth.legacy \in BOOLEAN
      /\ auth.gen \in Nat /\ auth.gen + 1 \in 1 .. MaxRequests
  BY SessionBounds DEF IInv, OneStory, AuthType, MaybeToken, Logins
<1>2. /\ q.gen = auth.gen + 1 /\ q.kind = "validation" /\ q.token = auth.token
      /\ q.legacy = auth.legacy /\ q.login = auth.login
  BY DEF Validation, NoRequest
<1>3. q \in Requests
  BY <1>1 DEF Validation, NoRequest, Requests
<1>4. asked' = asked \cup {q}
  OBVIOUS
<1>. HIDE DEF q
<1>5. /\ auth' \in AuthType /\ auth'.phase = phase /\ auth'.user = user /\ auth'.gen = auth.gen + 1
      /\ auth'.token = auth.token /\ auth'.legacy = auth.legacy /\ auth'.demo = auth.demo
      /\ auth'.login = auth.login /\ auth'.session = auth.session
  <2>1. auth.gen + 1 \in Nat
    BY <1>1
  <2>2. auth' \in AuthType
    BY <2>1 DEF AuthType
  <2>3. /\ auth'.phase = phase /\ auth'.user = user /\ auth'.gen = auth.gen + 1
        /\ auth'.token = auth.token /\ auth'.legacy = auth.legacy /\ auth'.demo = auth.demo
        /\ auth'.login = auth.login /\ auth'.session = auth.session
    BY DEF AuthType
  <2>. QED BY <2>2, <2>3
<1>6. SessionTypeOK'
  BY <1>3, <1>4, <1>5, TypeParts DEF IInv, SessionTypeOK, ServiceType, StoreType, AuthType, TabType, CallsTyped
<1>7. OneStory'
  BY <1>5 DEF IInv, OneStory, StorageKeeps
<1>8. RequestsMatch'
  BY <1>2, <1>4, <1>5, AskingMatches DEF IInv
<1>9. EndedIsPast'
  BY <1>5 DEF IInv, EndedIsPast
<1>10. NeverWaitsForNothing'
  BY <1>2, <1>4, <1>5 DEF IInv, NeverWaitsForNothing
<1>. QED BY <1>6, <1>7, <1>8, <1>9, <1>10 DEF IInv

LEMMA RetrySessionStep ==
    ASSUME IInv, RetrySession
    PROVE  IInv'
<1>1. /\ auth.phase = "temporarily-unavailable" /\ auth.gen < MaxRequests
      /\ auth' = [auth EXCEPT !.phase = "checking-session", !.user = None, !.gen = @ + 1]
      /\ asked' = asked \cup {Validation(auth.gen + 1, auth.token, auth.legacy, auth.login)}
      /\ UNCHANGED <<service, store, tab, calls, ended>>
  BY DEF RetrySession
<1>2. auth.token # None /\ auth'.session = auth.session /\ auth'.token = auth.token /\ auth'.login = auth.login
  BY <1>1, TypeParts DEF IInv, OneStory, AuthType
<1>3. CallsTyped(calls') /\ CallsMatch'
  BY <1>1, <1>2, TypeParts DEF IInv, CallsMatch
<1>4. "checking-session" \in Phases
  BY DEF Phases
<1>. QED BY <1>1, <1>2, <1>3, <1>4, AskAgainStep

LEMMA CallForbiddenStep ==
    ASSUME IInv, NEW c \in calls, CallForbidden(c)
    PROVE  IInv'
<1>. /\ auth \in AuthType /\ tab \in TabType /\ CallsTyped(calls) /\ CallsMatch
  BY TypeParts DEF IInv
<1>. DEFINE cs == calls \ {c}
<1>1. RefreshCurrentUser /\ UNCHANGED <<service, tab>> /\ calls' \in {cs, Left(cs)}
  BY DEF CallForbidden, Heard
<1>2. CASE auth.token = None
  <2>1. ClearSession(0) /\ asked' = asked
    BY <1>1, <1>2 DEF RefreshCurrentUser
  <2>2. auth.login = 0
    BY <1>2 DEF IInv, OneStory
  <2>. QED BY <1>1, <2>1, <2>2, ClearedStep
<1>3. CASE auth.token # None
  <2>1. /\ auth.gen < MaxRequests
        /\ auth' = [auth EXCEPT !.gen = @ + 1]
        /\ asked' = asked \cup {Validation(auth.gen + 1, auth.token, auth.legacy, auth.login)}
        /\ UNCHANGED <<store, ended>>
    BY <1>1, <1>3 DEF RefreshCurrentUser
  <2>2. auth' = [auth EXCEPT !.phase = auth.phase, !.user = auth.user, !.gen = @ + 1]
    BY <2>1 DEF AuthType
  <2>3. auth.phase \in Phases /\ auth.user \in Accounts \cup {None}
        /\ auth'.session = auth.session /\ auth'.token = auth.token /\ auth'.login = auth.login
    BY <2>1 DEF AuthType
  <2>4. CallsTyped(cs)
    BY DEF CallsTyped
  <2>5. CallsTyped(calls')
    BY <1>1, <2>4, LeftTyped
  <2>6. ASSUME NEW d \in calls' PROVE \E e \in calls : d.session = e.session /\ d.token = e.token /\ d.login = e.login
    BY <1>1, <2>4, <2>6, LeftKeeps
  <2>7. CallsMatch'
    BY <2>3, <2>6 DEF CallsMatch
  <2>. QED BY <1>1, <1>3, <2>1, <2>2, <2>3, <2>5, <2>7, AskAgainStep
<1>. QED BY <1>2, <1>3

-----------------------------------------------------------------------------
(* Page loads.                                                             *)

LEMMA ReloadStep ==
    ASSUME IInv, ReloadTab
    PROVE  IInv'
<1>. /\ service \in ServiceType /\ auth \in AuthType /\ store \in StoreType /\ tab \in TabType
     /\ ended \subseteq [login : Logins, by : Logins]
  BY TypeParts DEF IInv
<1>1. /\ service' = [service EXCEPT !.reloads = @ - 1] /\ service.reloads > 0
      /\ auth' = Started(Restored) /\ asked' = FirstRequest
      /\ tab' = Page(tab.place, tab.next) /\ calls' = {} /\ store' = store /\ ended' = ended
  BY DEF ReloadTab
<1>2. tab' \in TabType /\ tab'.waits = "none"
  BY <1>1, PageTyped DEF TabType
<1>3. service' \in ServiceType /\ service'.logins = service.logins /\ service.logins \in Nat
  BY <1>1, SessionBounds DEF ServiceType, Logins
<1>4. CallsTyped(calls') /\ CallsMatch'
  BY <1>1 DEF CallsTyped, CallsMatch
<1>5. Restored \in AuthType /\ Restored.user = None
  <2>1. CASE Restored = NoSession
    BY <2>1, SessionBounds DEF NoSession, AuthType, Phases, AccountRoles, MaybeToken, Logins
  <2>2. CASE Restored = [NoSession EXCEPT !.phase = "checking-session", !.token = store.token, !.login = store.login,
                                          !.demo = store.demo]
    BY <2>2 DEF NoSession, AuthType, StoreType, Phases, AccountRoles
  <2>3. CASE Restored = [NoSession EXCEPT !.phase = "checking-session", !.token = store.legacy, !.login = 1,
                                          !.legacy = TRUE]
    <3>1. 1 \in Logins
      BY SessionBounds DEF Logins
    <3>. QED BY <2>3, <3>1 DEF NoSession, AuthType, StoreType, Phases, AccountRoles
  <2>. QED BY <2>1, <2>2, <2>3 DEF Restored
<1>6. PICK n \in {0, 1} :
        /\ n = IF Restored.token = None THEN 0 ELSE 1
        /\ auth' = [Restored EXCEPT !.gen = n, !.session = n]
  BY <1>1 DEF Started
<1>7. /\ auth' \in AuthType /\ auth'.gen = n /\ auth'.session = n
      /\ auth'.phase = Restored.phase /\ auth'.token = Restored.token /\ auth'.login = Restored.login
      /\ auth'.legacy = Restored.legacy /\ auth'.demo = Restored.demo
  BY <1>5, <1>6 DEF AuthType
<1>8. CASE Restored.token = None
  <2>1. /\ auth'.phase = "unauthenticated" /\ auth'.token = None /\ auth'.login = 0
        /\ auth'.legacy = FALSE /\ auth'.demo = FALSE
        /\ store.token = None /\ store.login = 0 /\ store.demo = FALSE /\ store.legacy = None
    BY <1>7, <1>8, RestoredSession DEF IInv
  <2>2. asked' = {}
    BY <1>1, <1>8 DEF FirstRequest
  <2>3. OneStory'
    BY <1>1, <1>3, <2>1, ClearedAgrees DEF Cleared
  <2>4. SessionTypeOK'
    BY <1>1, <1>2, <1>3, <1>4, <1>7, <2>2 DEF SessionTypeOK, ServiceType, StoreType, AuthType, TabType, CallsTyped
  <2>5. RequestsMatch' /\ NeverWaitsForNothing'
    BY <1>2, <2>1, <2>2 DEF RequestsMatch, NeverWaitsForNothing
  <2>6. EndedIsPast'
    BY <1>1, <1>3, <2>1 DEF IInv, EndedIsPast
  <2>. QED BY <1>4, <2>3, <2>4, <2>5, <2>6 DEF IInv
<1>9. CASE Restored.token # None
  <2>. DEFINE q == Validation(1, Restored.token, Restored.legacy, Restored.login)
  <2>1. /\ store.works /\ auth'.phase = "checking-session" /\ auth'.token = auth.token
        /\ auth'.login = auth.login /\ auth'.legacy = auth.legacy /\ auth'.demo = auth.demo
        /\ auth.token # None
    BY <1>7, <1>9, RestoredSession DEF IInv
  <2>2. asked' = {q} /\ auth'.gen = 1
    BY <1>1, <1>6, <1>7, <1>9 DEF FirstRequest
  <2>3. /\ q.gen = 1 /\ q.kind = "validation" /\ q.token = auth'.token
        /\ q.legacy = auth'.legacy /\ q.login = auth'.login
    BY <1>7 DEF Validation, NoRequest
  <2>4. q \in Requests
    <3>1. Restored.token \in Tokens /\ Restored.login \in 1 .. MaxLogins /\ Restored.legacy \in BOOLEAN
      BY <1>9, RestoredSession DEF IInv
    <3>2. 1 \in 1 .. MaxRequests
      BY SessionBounds
    <3>. QED BY <3>1, <3>2 DEF Validation, NoRequest, Requests
  <2>. HIDE DEF q
  <2>5. OneStory'
    BY <1>1, <1>3, <2>1 DEF IInv, OneStory, StorageKeeps
  <2>6. SessionTypeOK'
    BY <1>1, <1>2, <1>3, <1>4, <1>7, <2>2, <2>4
    DEF SessionTypeOK, ServiceType, StoreType, AuthType, TabType, CallsTyped
  <2>7. RequestsMatch'
    BY <2>2, <2>3 DEF RequestsMatch, RequestIsCurrent
  <2>8. NeverWaitsForNothing'
    BY <1>2, <2>2, <2>3 DEF NeverWaitsForNothing
  <2>9. EndedIsPast'
    BY <1>1, <1>3, <2>1 DEF IInv, EndedIsPast
  <2>. QED BY <1>4, <2>5, <2>6, <2>7, <2>8, <2>9 DEF IInv
<1>. QED BY <1>8, <1>9

\* The first load of a tab.
LEMMA FirstLoad == SessionInit => IInv
<1>. SUFFICES ASSUME SessionInit PROVE IInv
  OBVIOUS
<1>1. PICK works \in BOOLEAN, t \in Tokens \cup {None}, old \in Tokens \cup {None} :
        /\ t # None \/ old # None => works
        /\ old # None => old.account # DemoAccount /\ t = None
        /\ store = [EmptyStore EXCEPT !.works = works, !.token = t, !.legacy = old,
                                      !.login = IF t = None THEN 0 ELSE 1,
                                      !.demo = t # None /\ t.account = DemoAccount]
        /\ auth = Started(Restored) /\ asked = FirstRequest
  BY DEF SessionInit
<1>2. 0 \in Logins /\ 1 \in Logins /\ 1 \in 1 .. MaxLogins /\ 1 \in 1 .. MaxRequests
  BY SessionBounds DEF Logins
<1>3. PICK demo \in BOOLEAN : demo <=> (t # None /\ t.account = DemoAccount)
  OBVIOUS
<1>4. /\ store \in StoreType /\ store.works = works /\ store.token = t /\ store.legacy = old
      /\ store.login = (IF t = None THEN 0 ELSE 1) /\ store.demo = demo
  <2>1. store = [EmptyStore EXCEPT !.works = works, !.token = t, !.legacy = old,
                                   !.login = IF t = None THEN 0 ELSE 1, !.demo = demo]
    BY <1>1, <1>3
  <2>2. (IF t = None THEN 0 ELSE 1) \in Logins
    BY <1>2
  <2>. QED BY <2>1, <2>2 DEF EmptyStore, StoreType, MaybeToken
<1>5. service \in ServiceType /\ service.logins = 1
  <2>1. PICK roles \in {[a \in Accounts |-> IF a = DemoAccount THEN "admin" ELSE r] : r \in AccountRoles} :
          /\ service.roles = roles
          /\ service \in [roles : {roles}, expired : {{}}, logins : {1}, reloads : {MaxReloads}, calls : {MaxCalls}]
    BY DEF SessionInit
  <2>2. roles \in [Accounts -> AccountRoles]
    BY DEF AccountRoles
  <2>. QED BY <1>2, <2>1, <2>2, SessionBounds DEF ServiceType
<1>6. tab \in TabType /\ tab.waits = "none"
  BY PageTyped DEF SessionInit, Places
<1>7. CallsTyped(calls) /\ CallsMatch /\ EndedIsPast /\ ended = {}
  BY DEF SessionInit, CallsTyped, CallsMatch, EndedIsPast
<1>8. CASE t = None /\ old = None
  <2>1. Restored = NoSession
    BY <1>4, <1>8 DEF Restored
  <2>2. auth = [NoSession EXCEPT !.gen = 0, !.session = 0] /\ asked = {}
    BY <1>1, <2>1 DEF Started, FirstRequest, NoSession
  <2>3. /\ auth \in AuthType /\ auth.phase = "unauthenticated" /\ auth.token = None /\ auth.login = 0
        /\ auth.legacy = FALSE /\ auth.demo = FALSE
    BY <1>2, <2>2 DEF NoSession, AuthType, Phases, AccountRoles, MaybeToken
  <2>4. SessionTypeOK
    BY <1>4, <1>5, <1>6, <1>7, <2>2, <2>3, TypeParts
  <2>5. OneStory
    BY <1>3, <1>4, <1>5, <1>8, <2>3 DEF OneStory, StorageKeeps
  <2>6. RequestsMatch /\ NeverWaitsForNothing
    BY <1>6, <2>2, <2>3 DEF RequestsMatch, NeverWaitsForNothing
  <2>. QED BY <1>7, <2>4, <2>5, <2>6 DEF IInv
<1>9. CASE ~(t = None /\ old = None)
  <2>. DEFINE token == IF t = None THEN old ELSE t
              legacy == t = None
              q == Validation(1, token, legacy, 1)
  <2>1. /\ token \in Tokens /\ token # None /\ legacy \in BOOLEAN /\ works = TRUE
        /\ demo <=> token.account = DemoAccount
        /\ legacy => ~demo
    BY <1>1, <1>3, <1>9, TokensAreReal
  <2>2. /\ Restored \in AuthType /\ Restored.phase = "checking-session" /\ Restored.token = token
        /\ Restored.login = 1 /\ Restored.legacy = legacy /\ Restored.demo = demo
    <3>1. CASE t = None
      <4>1. Restored = [NoSession EXCEPT !.phase = "checking-session", !.token = old, !.login = 1, !.legacy = TRUE]
        BY <1>4, <1>9, <3>1 DEF Restored
      <4>2. demo = FALSE /\ token = old /\ legacy = TRUE
        BY <1>3, <3>1
      <4>. QED BY <1>2, <4>1, <4>2, SessionBounds DEF NoSession, AuthType, Phases, AccountRoles, MaybeToken
    <3>2. CASE t # None
      <4>1. Restored = [NoSession EXCEPT !.phase = "checking-session", !.token = t, !.login = 1, !.demo = demo]
        BY <1>4, <3>2 DEF Restored
      <4>2. token = t /\ legacy = FALSE
        BY <3>2
      <4>. QED BY <1>2, <4>1, <4>2, SessionBounds DEF NoSession, AuthType, Phases, AccountRoles, MaybeToken
    <3>. QED BY <3>1, <3>2
  <2>3. /\ store.token = IF legacy THEN None ELSE token
        /\ store.legacy = IF legacy THEN token ELSE None
        /\ store.login = IF legacy THEN 0 ELSE 1
    BY <1>1, <1>4, <1>9
  <2>. HIDE DEF token, legacy
  <2>4. asked = {q}
    BY <1>1, <2>1, <2>2 DEF FirstRequest
  <2>5. auth = [Restored EXCEPT !.gen = 1, !.session = 1]
    BY <1>1, <2>1, <2>2 DEF Started
  <2>6. /\ auth.phase = "checking-session" /\ auth.token = token /\ auth.login = 1
        /\ auth.legacy = legacy /\ auth.demo = demo /\ auth.gen = 1 /\ auth.session = 1
    BY <2>2, <2>5 DEF AuthType
  <2>7. auth \in AuthType
    BY <2>2, <2>5 DEF AuthType
  <2>8. /\ q.gen = 1 /\ q.kind = "validation" /\ q.token = token /\ q.legacy = legacy /\ q.login = 1
        /\ q \in Requests
    BY <1>2, <2>1 DEF Validation, NoRequest, Requests
  <2>. HIDE DEF q
  <2>9. SessionTypeOK
    BY <1>4, <1>5, <1>6, <1>7, <2>4, <2>7, <2>8, TypeParts
  <2>10. OneStory
    <3>1. StorageKeeps
      BY <1>4, <2>1, <2>3, <2>6 DEF StorageKeeps
    <3>. QED BY <1>5, <2>1, <2>6, <3>1 DEF OneStory
  <2>11. RequestsMatch
    BY <2>4, <2>6, <2>8 DEF RequestsMatch, RequestIsCurrent
  <2>12. NeverWaitsForNothing
    BY <1>6, <2>4, <2>6, <2>8 DEF NeverWaitsForNothing
  <2>. QED BY <1>7, <2>9, <2>10, <2>11, <2>12 DEF IInv
<1>. QED BY <1>8, <1>9

-----------------------------------------------------------------------------
(* Theorems.                                                               *)

LEMMA StepKeeps == IInv /\ [SessionNext]_sessionVars => IInv'
<1>. SUFFICES ASSUME IInv, [SessionNext]_sessionVars PROVE IInv'
  OBVIOUS
<1>. asked \subseteq Requests
  BY TypeParts DEF IInv
<1>1. CASE \/ Visit \/ Redirect \/ CountdownEnds
           \/ \E kind \in {"read", "save"} : StartCall(kind)
           \/ \E c \in calls : CallAnswered(c)
           \/ \E token \in InUse : Expire(token)
           \/ \E account \in Accounts, role \in AccountRoles : ChangeRole(account, role)
  BY <1>1, QuietSteps
<1>2. CASE ReloadTab \/ RetrySession \/ Logout
  BY <1>2, ReloadStep, RetrySessionStep, LogoutStep
<1>3. ASSUME NEW by \in {"form", "demo"}, NEW account \in Accounts, SignIn(by, account) PROVE IInv'
  BY <1>3, SignInStep
<1>4. ASSUME NEW r \in asked, NEW token \in Tokens, SignedIn(r, token) PROVE IInv'
  BY <1>4, SignedInStep
<1>5. ASSUME NEW r \in asked, SignInFails(r) \/ Validated(r) \/ Rejected(r) \/ CheckFails(r) \/ Overtaken(r)
      PROVE  IInv'
  BY <1>5, FormStep, ValidatedStep, RejectedStep, CheckFailsStep
<1>6. ASSUME NEW c \in calls, CallUnauthorized(c) \/ CallForbidden(c) \/ CallNotFound(c) PROVE IInv'
  BY <1>6, CallUnauthorizedStep, CallForbiddenStep, CallNotFoundStep
<1>7. CASE UNCHANGED sessionVars
  <2>1. UNCHANGED <<service, store, auth, asked, tab, calls, ended>>
    BY <1>7 DEF sessionVars
  <2>2. service' \in ServiceType /\ tab' \in TabType /\ CallsTyped(calls') /\ CallsMatch'
    BY <2>1, TypeParts DEF IInv, CallsMatch
  <2>. QED BY <2>1, <2>2, QuietStep
<1>. QED BY <1>1, <1>2, <1>3, <1>4, <1>5, <1>6, <1>7 DEF SessionNext

\* The invariant of a tab's session: storage, state and refs, requests and forms agree.
THEOREM InvariantAlways == SessionSpec => []IInv
BY FirstLoad, StepKeeps, PTL DEF SessionSpec

\* The state of a tab keeps its shape.
THEOREM TypeCorrect == SessionSpec => []SessionTypeOK
<1>1. IInv => SessionTypeOK
  BY DEF IInv
<1>. QED BY <1>1, InvariantAlways, PTL

LEMMA InvariantGivesAgreement == IInv => SessionAgrees
<1>. SUFFICES ASSUME IInv PROVE SessionAgrees
  OBVIOUS
<1>. auth \in AuthType /\ store \in StoreType /\ OneStory
  BY TypeParts DEF IInv
<1>. store.works \in BOOLEAN /\ 0 \in Logins
  BY SessionBounds DEF StoreType, Logins
<1>1. /\ Wiped \in StoreType /\ Wiped.works = store.works /\ Wiped.token = None /\ Wiped.login = 0
      /\ Wiped.demo = FALSE /\ Wiped.legacy = None
  BY DEF Wiped, EmptyStore, StoreType, MaybeToken
<1>2. ASSUME NEW s \in StoreType, s.works = store.works, s.token = store.token, s.login = store.login,
             s.demo <=> store.demo, s.legacy = store.legacy
      PROVE  store = s
  BY <1>2 DEF StoreType
<1>3. auth.token = None \/ ~store.works => store = Wiped
  <2>. SUFFICES ASSUME auth.token = None \/ ~store.works PROVE store = Wiped
    OBVIOUS
  <2>1. store.token = None /\ store.login = 0 /\ ~store.demo /\ store.legacy = None
    BY DEF OneStory, StorageKeeps
  <2>. QED BY <1>1, <1>2, <2>1
<1>4. ASSUME auth.phase = "authenticated", store.works
      PROVE  store = [Wiped EXCEPT !.token = auth.token, !.login = auth.login, !.demo = auth.demo]
  <2>. DEFINE s == [Wiped EXCEPT !.token = auth.token, !.login = auth.login, !.demo = auth.demo]
  <2>1. /\ s \in StoreType /\ s.works = store.works /\ s.token = auth.token /\ s.login = auth.login
        /\ s.demo = auth.demo /\ s.legacy = None
    BY <1>1 DEF StoreType, AuthType
  <2>2. store.token = auth.token /\ store.login = auth.login /\ (store.demo <=> auth.demo) /\ store.legacy = None
    BY <1>4 DEF OneStory, StorageKeeps
  <2>. HIDE DEF s
  <2>3. store = s
    BY <1>2, <2>1, <2>2
  <2>. QED BY <2>3 DEF s
<1>5. auth.phase = "authenticated" => auth.user = auth.token.account /\ (auth.demo <=> auth.user = DemoAccount)
  BY DEF OneStory
<1>6. auth.phase = "unauthenticated" <=> auth.token = None
  BY DEF OneStory
<1>. QED BY <1>3, <1>4, <1>5, <1>6 DEF SessionAgrees

\* Session, user, demo marker and storage tell one story in every order of answers.
THEOREM SessionAgreesAlways == SessionSpec => []SessionAgrees
BY InvariantGivesAgreement, InvariantAlways, PTL

\* No answer and no reload brings back a session that was ended.
THEOREM RetiredSessionsStayOutAlways == SessionSpec => []RetiredSessionsStayOut
<1>1. IInv => RetiredSessionsStayOut
  BY DEF IInv, EndedIsPast, OneStory, StorageKeeps, RetiredSessionsStayOut
<1>. QED BY <1>1, InvariantAlways, PTL

\* Only a logout or an answer to its own request ends a session.
THEOREM SessionsEndByTheirOwnAlways == SessionSpec => []SessionsEndByTheirOwn
<1>1. IInv => SessionsEndByTheirOwn
  BY DEF IInv, EndedIsPast, SessionsEndByTheirOwn
<1>. QED BY <1>1, InvariantAlways, PTL

\* A session that is being checked, and a form that waits, have a request under way.
THEOREM NeverWaitsForNothingAlways == SessionSpec => []NeverWaitsForNothing
<1>1. IInv => NeverWaitsForNothing
  BY DEF IInv
<1>. QED BY <1>1, InvariantAlways, PTL
=============================================================================
