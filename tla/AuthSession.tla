---------------------------- MODULE AuthSession ----------------------------
(***************************************************************************)
(* The authentication session of one browser tab: AuthProvider and its     *)
(* storage, the login and registration pages, the route guards, and the    *)
(* requests that protected pages send in the name of a session, whose      *)
(* answers may come when that session has long been replaced.              *)
(***************************************************************************)
EXTENDS Integers

CONSTANTS
    Accounts,      \* accounts that sign in
    DemoAccount,   \* the account of demo sessions, which has no password
    Seconds,       \* when tokens are issued: a token is its account and its second
    None,          \* no account, no token
    MaxLogins,     \* bound: sessions, the restored one included
    MaxRequests,   \* bound: requests of AuthProvider in one page load
    MaxCalls,      \* bound: requests of protected pages
    MaxReloads     \* bound: page reloads

ASSUME SessionBounds ==
    /\ DemoAccount \in Accounts /\ None \notin Accounts \cup [account : Accounts, second : Seconds]
    /\ MaxLogins \in Nat \ {0} /\ MaxRequests \in Nat \ {0} /\ MaxCalls \in Nat /\ MaxReloads \in Nat

VARIABLES
    service,   \* roles by account, the tokens that have expired, and what may still happen (bounds)
    store,     \* session storage
    auth,      \* AuthProvider's state and refs
    asked,     \* its requests, superseded ones included
    tab,       \* the page shown and its form
    calls,     \* requests of protected pages whose answers will be heard
    ended      \* history: the sessions that were ended, each with the session whose doing it was

sessionVars == <<service, store, auth, asked, tab, calls, ended>>

-----------------------------------------------------------------------------
AccountRoles == {"customer", "admin", "super_admin"}
Phases == {"checking-session", "authenticated", "unauthenticated", "temporarily-unavailable"}
Tokens == [account : Accounts, second : Seconds]

\* A session is known by the login it came from (history: 1 is the restored one); two
\* logins of an account in one second are answered with the same token.
NoSession == [phase |-> "unauthenticated", user |-> None, role |-> "customer", token |-> None,
              legacy |-> FALSE, demo |-> FALSE, login |-> 0, gen |-> 0, session |-> 0]

Valid(token) == token \notin service.expired

-----------------------------------------------------------------------------
(* Storage.  A tab whose storage fails keeps its session in memory only.   *)

EmptyStore == [works |-> TRUE, token |-> None, login |-> 0, demo |-> FALSE, legacy |-> None]

Saved(token, login, demo) ==
    IF store.works THEN [store EXCEPT !.token = token, !.login = login, !.demo = demo] ELSE store
WithoutLegacy(s) == [s EXCEPT !.legacy = None]
Wiped == [EmptyStore EXCEPT !.works = store.works]

\* loadInitialSession: the canonical token, or the one of an older version of the site.
Restored ==
    IF store.token # None
    THEN [NoSession EXCEPT !.phase = "checking-session", !.token = store.token, !.login = store.login,
                           !.demo = store.demo]
    ELSE IF store.legacy # None
    THEN [NoSession EXCEPT !.phase = "checking-session", !.token = store.legacy, !.login = 1, !.legacy = TRUE]
    ELSE NoSession

-----------------------------------------------------------------------------
(* AuthProvider's requests: beginRequest, requestIsCurrent.                *)

\* "by" is the control that waits for the outcome.
NoRequest == [gen |-> 0, kind |-> "validation", by |-> "provider", account |-> None,
              token |-> None, legacy |-> FALSE, login |-> 0]
Validation(gen, token, legacy, login) ==
    [NoRequest EXCEPT !.gen = gen, !.token = token, !.legacy = legacy, !.login = login]

\* Mutant: an answer is taken for the answer to the latest request.
AnyRequest(gen) == gen <= auth.gen

RequestIsCurrent(gen) == gen = auth.gen

\* A page load that found a token validates it at once.
Started(a) ==
    LET n == IF a.token = None THEN 0 ELSE 1
    IN  [a EXCEPT !.gen = n, !.session = n]
FirstRequest ==
    IF Restored.token = None THEN {} ELSE {Validation(1, Restored.token, Restored.legacy, Restored.login)}

\* The session that ends, and the one whose doing it is.
Ending(by) == IF auth.login = 0 THEN {} ELSE {[login |-> auth.login, by |-> by]}

-----------------------------------------------------------------------------
(* Pages.                                                                  *)

Places == {"public", "account", "admin", "users", "login", "register"}
Protected == {"account", "admin", "users"}

\* The three route guards; the account pages are closed to the shared demo account.
Admitted(place, role, demo) ==
    CASE place = "account" -> ~demo
      [] place = "admin" -> role \in {"admin", "super_admin"}
      [] place = "users" -> role = "super_admin"
      [] OTHER -> TRUE

\* Where a guard sends a user whom it does not admit; the demo notice stays where it is.
SentAway(place, role) == IF place = "users" /\ role = "admin" THEN "admin" ELSE "account"

\* resolveAuthDestination.
Destination(next, role) ==
    CASE next = "users" -> IF role = "super_admin" THEN "users" ELSE IF role = "admin" THEN "admin" ELSE "account"
      [] next = "admin" -> IF role = "customer" THEN "account" ELSE "admin"
      [] next \in {"public", "account"} -> next
      [] OTHER -> "account"

\* A protected page is rendered only behind its guards.
Content == auth.phase = "authenticated" /\ tab.place \in Protected /\ Admitted(tab.place, auth.role, auth.demo)

Page(place, next) ==
    [place |-> place, next |-> IF place \in {"login", "register"} THEN next ELSE "public", waits |-> "none", gen |-> 0, held |-> {}, toAdmin |-> FALSE]

\* A page that is unmounted cancels its reads; its saves go on, and their handlers with them.
Left(cs) == {[c EXCEPT !.open = FALSE] : c \in {d \in cs : d.kind = "save" \/ ~d.open}}
Heard(cs) == IF Content' /\ tab'.place = tab.place THEN cs ELSE Left(cs)

SessionInit ==
    /\ service \in [roles : {[a \in Accounts |-> IF a = DemoAccount THEN "admin" ELSE r] : r \in AccountRoles},
                    expired : {{}}, logins : {1}, reloads : {MaxReloads}, calls : {MaxCalls}]
    /\ \E works \in BOOLEAN, t, old \in Tokens \cup {None} :
        /\ t # None \/ old # None => works
        /\ old # None => old.account # DemoAccount /\ t = None
        /\ store = [EmptyStore EXCEPT !.works = works, !.token = t, !.legacy = old,
                                      !.login = IF t = None THEN 0 ELSE 1,
                                      !.demo = t # None /\ t.account = DemoAccount]
        /\ auth = Started(Restored)
        /\ asked = FirstRequest
    /\ tab = Page("public", "public")
    /\ calls = {}
    /\ ended = {}

\* Every link and the back button; guarded pages may be asked for by anyone.
Visit ==
    /\ \E place \in Places \ {tab.place} :
        tab' = Page(place, IF tab.place \in {"login", "register"} THEN tab.next ELSE "public")
    /\ calls' = Left(calls)
    /\ UNCHANGED <<service, store, auth, asked, ended>>

\* Navigate, in a guard or on the login and registration pages.
Redirect ==
    /\ \/ /\ tab.place \in Protected /\ auth.phase = "unauthenticated"
          /\ tab' = Page("login", tab.place)
       \/ /\ tab.place \in {"admin", "users"} /\ auth.phase = "authenticated"
          /\ ~Admitted(tab.place, auth.role, auth.demo)
          /\ tab' = Page(SentAway(tab.place, auth.role), "public")
       \/ /\ tab.place \in {"login", "register"} /\ auth.phase = "authenticated"
          /\ tab' = Page(Destination(IF tab.toAdmin THEN "admin" ELSE tab.next, auth.role), "public")
    /\ calls' = Left(calls)
    /\ UNCHANGED <<service, store, auth, asked, ended>>

ReloadTab ==
    /\ service.reloads > 0
    /\ service' = [service EXCEPT !.reloads = @ - 1]
    /\ auth' = Started(Restored)
    /\ asked' = FirstRequest
    /\ tab' = Page(tab.place, tab.next)
    /\ calls' = {}
    /\ UNCHANGED <<store, ended>>

-----------------------------------------------------------------------------
(* The login and registration pages.                                       *)

\* handleSubmit and handleDemoSession: the form is shown to a signed-out user only,
\* and one of its two buttons waits at a time.
SignIn(by, account) ==
    /\ tab.place \in {"login", "register"} /\ auth.phase = "unauthenticated"
    /\ by = "demo" => tab.place = "login"
    /\ (by = "demo") = (account = DemoAccount)
    /\ tab.waits = "none" /\ by \notin tab.held
    /\ auth.gen < MaxRequests
    /\ auth' = [auth EXCEPT !.gen = @ + 1]
    /\ asked' = asked \cup {[NoRequest EXCEPT !.gen = auth.gen + 1, !.kind = "credentials", !.by = by,
                                              !.account = account]}
    /\ tab' = [tab EXCEPT !.waits = by, !.gen = auth.gen + 1, !.toAdmin = by = "demo"]
    /\ UNCHANGED <<service, store, calls, ended>>

CountdownEnds ==
    /\ tab.held # {}
    /\ tab' = [tab EXCEPT !.held = {}]
    /\ UNCHANGED <<service, store, auth, asked, calls, ended>>

\* The form hears of its request if it is still the form that sent it.
Released(r, limited, later) ==
    IF r.gen # tab.gen \/ r.by # tab.waits THEN tab
    ELSE [tab EXCEPT !.waits = "none", !.held = IF limited THEN @ \cup {r.by} ELSE @,
                     !.toAdmin = @ /\ later]

\* establishCredentials: a token that is the answer to the latest request opens a session,
\* which the same request goes on to validate.
SignedIn(r, token) ==
    /\ r.kind = "credentials" /\ RequestIsCurrent(r.gen)
    /\ service.logins < MaxLogins
    /\ token.account = r.account /\ Valid(token)
    /\ LET demo == r.account = DemoAccount
           login == service.logins + 1
       IN  /\ service' = [service EXCEPT !.logins = login]
           /\ auth' = [auth EXCEPT !.phase = "checking-session", !.user = None, !.token = token,
                                   !.legacy = FALSE, !.demo = demo, !.login = login, !.session = @ + 1]
           /\ store' = Saved(token, login, demo)
           /\ ended' = ended \cup Ending(login)
           /\ asked' = (asked \ {r}) \cup {[Validation(r.gen, token, FALSE, login) EXCEPT !.by = r.by]}
    /\ calls' = Heard(calls)
    /\ UNCHANGED tab

\* A refusal, a failure, or an answer that a newer request or the end of the session overtook.
SignInFails(r) ==
    /\ r.kind = "credentials"
    /\ asked' = asked \ {r}
    /\ \E limited \in BOOLEAN :
        /\ limited => RequestIsCurrent(r.gen)
        /\ tab' = Released(r, limited, FALSE)
    /\ UNCHANGED <<service, store, auth, calls, ended>>

-----------------------------------------------------------------------------
(* Validation.                                                             *)

\* validateToken.
Validated(r) ==
    /\ r.kind = "validation" /\ RequestIsCurrent(r.gen) /\ Valid(r.token)
    /\ auth' = [auth EXCEPT !.phase = "authenticated", !.user = r.token.account,
                            !.role = service.roles[r.token.account], !.token = r.token,
                            !.legacy = FALSE, !.login = r.login]
    /\ store' = WithoutLegacy(Saved(r.token, r.login, auth.demo))
    /\ asked' = asked \ {r}
    /\ tab' = Released(r, FALSE, TRUE)
    /\ calls' = Heard(calls)
    /\ UNCHANGED <<service, ended>>

\* A 401 ends the session, without a new session generation.
Rejected(r) ==
    /\ r.kind = "validation" /\ RequestIsCurrent(r.gen) /\ ~Valid(r.token)
    /\ auth' = [NoSession EXCEPT !.gen = auth.gen, !.session = auth.session]
    /\ store' = IF r.legacy THEN [WithoutLegacy(store) EXCEPT !.demo = FALSE] ELSE Wiped
    /\ ended' = ended \cup Ending(r.login)
    /\ asked' = asked \ {r}
    /\ tab' = Released(r, FALSE, FALSE)
    /\ calls' = Heard(calls)
    /\ UNCHANGED service

\* Mutant: the failure of a check is not shown.
CheckFailsQuietly(r) ==
    /\ r.kind = "validation" /\ RequestIsCurrent(r.gen)
    /\ asked' = asked \ {r}
    /\ UNCHANGED <<service, store, auth, tab, calls, ended>>

\* Any other failure keeps the session for another attempt.
CheckFails(r) ==
    /\ r.kind = "validation" /\ RequestIsCurrent(r.gen)
    /\ auth' = [auth EXCEPT !.phase = "temporarily-unavailable", !.user = None, !.token = r.token,
                            !.legacy = r.legacy, !.login = r.login]
    /\ asked' = asked \ {r}
    /\ tab' = Released(r, FALSE, TRUE)
    /\ calls' = Heard(calls)
    /\ UNCHANGED <<service, store, ended>>

Overtaken(r) ==
    /\ r.kind = "validation" /\ ~RequestIsCurrent(r.gen)
    /\ asked' = asked \ {r}
    /\ tab' = Released(r, FALSE, FALSE)
    /\ UNCHANGED <<service, store, auth, calls, ended>>

RetrySession ==
    /\ auth.phase = "temporarily-unavailable"
    /\ auth.gen < MaxRequests
    /\ auth' = [auth EXCEPT !.phase = "checking-session", !.user = None, !.gen = @ + 1]
    /\ asked' = asked \cup {Validation(auth.gen + 1, auth.token, auth.legacy, auth.login)}
    /\ UNCHANGED <<service, store, tab, calls, ended>>

\* Mutant: the demo marker is left behind.
ClearToken(by) ==
    /\ auth' = [NoSession EXCEPT !.gen = auth.gen + 1, !.session = auth.session + 1]
    /\ store' = [Wiped EXCEPT !.demo = store.demo]
    /\ ended' = ended \cup Ending(by)

\* clearSession, in the name of a login.
ClearSession(by) ==
    /\ auth' = [NoSession EXCEPT !.gen = auth.gen + 1, !.session = auth.session + 1]
    /\ store' = Wiped
    /\ ended' = ended \cup Ending(by)

\* Offered to a user who is signed in, and where validation has failed.
Logout ==
    /\ auth.phase \in {"authenticated", "temporarily-unavailable"}
    /\ ClearSession(auth.login)
    /\ tab' = IF auth.phase = "authenticated" THEN Page("public", "public") ELSE tab
    /\ calls' = Left(calls)
    /\ UNCHANGED <<service, asked>>

-----------------------------------------------------------------------------
(* Requests of protected pages.                                            *)

\* getAuthenticatedSession: a request carries its session's token and generation. The menu
\* editor's saves have handlers that outlive their page.
StartCall(kind) ==
    /\ Content /\ service.calls > 0
    /\ kind = "save" => tab.place = "admin"
    /\ service' = [service EXCEPT !.calls = @ - 1]
    /\ calls' = calls \cup {[kind |-> kind, place |-> tab.place, token |-> auth.token,
                             session |-> auth.session, login |-> auth.login, open |-> TRUE]}
    /\ UNCHANGED <<store, auth, asked, tab, ended>>

CallAnswered(c) ==
    /\ calls' = calls \ {c}
    /\ UNCHANGED <<service, store, auth, asked, tab, ended>>

\* Mutant: sessions are told apart by their tokens only.
InvalidateIfSameToken(c) ==
    IF auth.token = c.token THEN ClearSession(c.login) ELSE UNCHANGED <<auth, store, ended>>

\* invalidateSessionIfCurrent.
InvalidateIfCurrent(c) ==
    IF auth.token = c.token /\ auth.session = c.session
    THEN ClearSession(c.login)
    ELSE UNCHANGED <<auth, store, ended>>

CallUnauthorized(c) ==
    /\ ~Valid(c.token)
    /\ InvalidateIfCurrent(c)
    /\ UNCHANGED <<service, asked, tab>>
    /\ calls' = Heard(calls \ {c})

\* refreshCurrentUser, which asks about the session of now, whosever request it was.
RefreshCurrentUser ==
    IF auth.token = None
    THEN ClearSession(0) /\ UNCHANGED asked
    ELSE /\ auth.gen < MaxRequests
         /\ auth' = [auth EXCEPT !.gen = @ + 1]
         /\ asked' = asked \cup {Validation(auth.gen + 1, auth.token, auth.legacy, auth.login)}
         /\ UNCHANGED <<store, ended>>

CallForbidden(c) ==
    /\ Valid(c.token) /\ ~Admitted(c.place, service.roles[c.token.account], FALSE)
    /\ RefreshCurrentUser
    /\ UNCHANGED <<service, tab>>
    /\ calls' = Heard(calls \ {c})

\* A save whose row is gone makes its page load the list again, in the session of now, or
\* signs out when there is none.
CallNotFound(c) ==
    /\ c.kind = "save"
    /\ IF auth.token = None
       THEN /\ ClearSession(0)
            /\ calls' = calls \ {c}
       ELSE /\ calls' = (calls \ {c}) \cup
                  {[c EXCEPT !.kind = "read", !.token = auth.token, !.session = auth.session,
                             !.login = auth.login]}
            /\ UNCHANGED <<auth, store, ended>>
    /\ UNCHANGED <<service, asked, tab>>

-----------------------------------------------------------------------------
(* The service.                                                            *)

InUse == ({auth.token} \cup {r.token : r \in asked} \cup {c.token : c \in calls}) \ {None}

Expire(token) ==
    /\ Valid(token)
    /\ service' = [service EXCEPT !.expired = @ \cup {token}]
    /\ UNCHANGED <<store, auth, asked, tab, calls, ended>>

ChangeRole(account, role) ==
    /\ account # DemoAccount /\ service.roles[account] # role
    /\ service' = [service EXCEPT !.roles[account] = role]
    /\ UNCHANGED <<store, auth, asked, tab, calls, ended>>

-----------------------------------------------------------------------------
SessionNext ==
    \/ Visit \/ Redirect \/ ReloadTab \/ CountdownEnds \/ RetrySession \/ Logout
    \/ \E by \in {"form", "demo"}, account \in Accounts : SignIn(by, account)
    \/ \E r \in asked :
        \/ \E token \in Tokens : SignedIn(r, token)
        \/ SignInFails(r) \/ Validated(r) \/ Rejected(r) \/ CheckFails(r) \/ Overtaken(r)
    \/ \E kind \in {"read", "save"} : StartCall(kind)
    \/ \E c \in calls : CallAnswered(c) \/ CallUnauthorized(c) \/ CallForbidden(c) \/ CallNotFound(c)
    \/ \E token \in InUse : Expire(token)
    \/ \E account \in Accounts, role \in AccountRoles : ChangeRole(account, role)

SessionSpec == SessionInit /\ [][SessionNext]_sessionVars

-----------------------------------------------------------------------------
(* Properties.                                                             *)

Logins == 0 .. MaxLogins
MaybeToken == Tokens \cup {None}
SignInControls == {"form", "demo"}
Requests ==
    [gen : 1 .. MaxRequests, kind : {"credentials"}, by : SignInControls, account : Accounts, token : {None},
     legacy : {FALSE}, login : {0}]
    \cup
    [gen : 1 .. MaxRequests, kind : {"validation"}, by : SignInControls \cup {"provider"}, account : {None},
     token : Tokens, legacy : BOOLEAN, login : 1 .. MaxLogins]

\* The shape of a tab's state.
SessionTypeOK ==
    /\ service \in [roles : [Accounts -> AccountRoles], expired : SUBSET Tokens, logins : Logins,
                    reloads : 0 .. MaxReloads, calls : 0 .. MaxCalls]
    /\ store \in [works : BOOLEAN, token : MaybeToken, login : Logins, demo : BOOLEAN, legacy : MaybeToken]
    /\ auth \in [phase : Phases, user : Accounts \cup {None}, role : AccountRoles, token : MaybeToken,
                 legacy : BOOLEAN, demo : BOOLEAN, login : Logins, gen : Nat, session : Nat]
    /\ asked \subseteq Requests
    /\ tab \in [place : Places, next : Places, waits : SignInControls \cup {"none"}, gen : Nat,
                held : SUBSET SignInControls, toAdmin : BOOLEAN]
    /\ \A c \in calls : c \in [kind : {"read", "save"}, place : Protected, token : Tokens, session : Nat,
                               login : Logins, open : BOOLEAN]
    /\ ended \subseteq [login : Logins, by : Logins]

\* Session, user, demo marker and storage tell one story in every order of answers: who is
\* signed in is the token's account, the shared demo account is known as such (its pages
\* depend on it), a signed-out tab keeps nothing that a reload could bring back, and a
\* migrated token leaves no second copy.
SessionAgrees ==
    /\ auth.phase = "unauthenticated" <=> auth.token = None
    /\ auth.token = None => store = Wiped
    /\ auth.phase = "authenticated" =>
        /\ auth.user = auth.token.account
        /\ auth.demo <=> auth.user = DemoAccount
        /\ store = IF store.works THEN [Wiped EXCEPT !.token = auth.token, !.login = auth.login, !.demo = auth.demo]
                   ELSE Wiped

\* A session that was ended, by logging out or by the service, does not come back, whatever
\* answers and reloads follow.
RetiredSessionsStayOut == \A e \in ended : e.login \notin {auth.login, store.login}

\* "Protected requests capture the current token and session generation, so a 401
\* invalidates only that exact session": no session is ended by the answer to a request of
\* another, nor replaced by a sign-in, even when both have the same token.
SessionsEndByTheirOwn == \A e \in ended : e.by = e.login

\* Nobody waits for nothing: while a session is being checked its check is under way and
\* will be heard, and a form that waits has its request.
NeverWaitsForNothing ==
    /\ auth.phase = "checking-session" =>
        \E r \in asked : r.kind = "validation" /\ r.gen = auth.gen /\ r.token = auth.token
    /\ tab.waits # "none" => \E r \in asked : r.gen = tab.gen /\ r.by = tab.waits
=============================================================================
