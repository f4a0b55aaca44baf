----------------------------- MODULE AdminUsers -----------------------------
(***************************************************************************)
(* The users page of the super administrator: the list of accounts, the    *)
(* confirmation of one role change, and the gate that keeps every further  *)
(* change until the list has been read again, against the accounts of the  *)
(* service, whose roles change elsewhere too and which grow by             *)
(* registration.                                                           *)
(***************************************************************************)
EXTENDS AdminApi, Integers, Sequences

CONSTANTS
    UserLimit,    \* accounts of one list page (PAGE_LIMIT)
    MaxAccounts,  \* bound: accounts of the service
    MaxChanges,   \* bound: confirmations on this page
    MaxForeign    \* bound: role changes elsewhere

ASSUME UserBounds == UserLimit \in Nat \ {0} /\ MaxAccounts \in Nat /\ MaxChanges \in Nat /\ MaxForeign \in Nat

VARIABLES
    accounts,  \* the roles of the service's accounts, oldest first; the first is the page's own
    budget,    \* confirmations and foreign changes still to come (a bound)
    users,     \* the page
    fetch,     \* the list request in progress (listControllerRef)
    change,    \* the role change in progress or last made (mutationInFlightRef)
    adrift     \* role changes that may still reach the service, nobody waiting for them

usersVars == <<accounts, budget, users, fetch, change, adrift>>

-----------------------------------------------------------------------------
Ordinary == {"customer", "admin"}
Roles == Ordinary \cup {"super_admin"}

\* getTargetRole; a super administrator has no other role to go to.
TargetRole(role) == IF role = "customer" THEN "admin" ELSE "customer"

NoneSeen == [known |-> FALSE, from |-> 0, total |-> 0, items |-> <<>>]
NoFetch == [pc |-> "none", reason |-> "initial", list |-> NoneSeen]
NoTransition == [who |-> 0, from |-> "customer", to |-> "customer"]
NoChange == [pc |-> "idle", move |-> NoTransition, done |-> FALSE]

Counted(total) == [known |-> TRUE, from |-> users.offset, total |-> total, items |-> <<>>]
AccountPage(list) ==
    [list EXCEPT !.items = SubSeq(accounts, list.from + 1,
        IF list.from + UserLimit <= Len(accounts) THEN list.from + UserLimit ELSE Len(accounts))]

\* The client refuses a page that reaches beyond the total it was sent with.
ParsesAsPage(list) == list.items = <<>> \/ list.from + Len(list.items) <= list.total

-----------------------------------------------------------------------------
(* What the page offers.                                                   *)

InFlight == change.pc # "idle"
ControlsDisabled == InFlight \/ users.gate \/ users.loading \/ users.pending # NoTransition

\* UserAction: neither the administrator's own account nor a super administrator.
Selectable ==
    IF ~users.on \/ ~users.data.known \/ ControlsDisabled THEN {}
    ELSE {at \in {users.data.from + i : i \in DOMAIN users.data.items} :
             at # 1 /\ users.data.items[at - users.data.from] # "super_admin"}

\* Refresh, and the Retry that a list error adds; Retry does not look at a pending choice.
CanLoad ==
    /\ users.on /\ ~InFlight /\ ~users.loading
    /\ users.pending = NoTransition \/ users.error

CanConfirm ==
    users.on /\ users.pending # NoTransition /\ ~InFlight /\ ~users.gate /\ ~users.loading /\ fetch.pc = "none"

Pages ==
    IF ~users.on \/ ~users.data.known \/ ControlsDisabled THEN {}
    ELSE {o \in {users.offset - UserLimit} : users.offset > 0 /\ users.data.total > 0}
         \cup {o \in {users.offset + UserLimit} : users.data.from + Len(users.data.items) < users.data.total}

-----------------------------------------------------------------------------
(* The page comes and goes.                                                *)

\* "owed" is history: a role change may have been made and no list asked for after it
\* has come.
NewUsers == [on |-> TRUE, offset |-> 0, loading |-> TRUE, error |-> FALSE, data |-> NoneSeen,
             pending |-> NoTransition, notice |-> "none", gate |-> FALSE, owed |-> FALSE]

FirstFetch == [NoFetch EXCEPT !.pc = "asked"]

UsersInit ==
    /\ accounts = <<"super_admin", "customer">>
    /\ budget = [changes |-> MaxChanges, foreign |-> MaxForeign]
    /\ users = NewUsers
    /\ fetch = FirstFetch
    /\ change = NoChange
    /\ adrift = {}

\* Unmounting aborts both requests; the service may still carry out the role change.
UsersOff ==
    /\ users' = [NewUsers EXCEPT !.on = FALSE, !.owed = @ \/ users.owed \/ change.pc = "asked"]
    /\ fetch' = NoFetch
    /\ change' = NoChange
    /\ adrift' = IF change.pc = "asked" /\ ~change.done THEN adrift \cup {change.move} ELSE adrift

UsersLeave == users.on /\ UsersOff /\ UNCHANGED <<accounts, budget>>

UsersVisit ==
    /\ ~users.on
    /\ users' = [NewUsers EXCEPT !.owed = users.owed]
    /\ fetch' = FirstFetch
    /\ UNCHANGED <<accounts, budget, change, adrift>>

\* Mutant: the list in progress is abandoned, and the gate left open.
Ungated(p) == [p EXCEPT !.loading = FALSE]

\* setReconciliationGate(true): the list in progress, if any, is abandoned.
Gated(p) == [p EXCEPT !.gate = TRUE, !.loading = FALSE]

-----------------------------------------------------------------------------
(* loadUsers.                                                              *)

Fetching(p) == [p EXCEPT !.loading = TRUE, !.error = FALSE]
NewFetch(reason) == [NoFetch EXCEPT !.pc = "asked", !.reason = reason]

LoadUsers ==
    /\ CanLoad
    /\ users' = Fetching(users)
    /\ fetch' = NewFetch("manual")
    /\ UNCHANGED <<accounts, budget, change, adrift>>

\* changePage, and the effect that loads the new offset.
ChangePage ==
    \E o \in Pages :
        /\ users' = [Fetching(users) EXCEPT !.offset = IF o < 0 THEN 0 ELSE o, !.notice = "none",
                                            !.data = NoneSeen]
        /\ fetch' = NewFetch("initial")
        /\ UNCHANGED <<accounts, budget, change, adrift>>

\* list_users: the total and the page are two statements.
CountUsers ==
    /\ fetch.pc = "asked"
    /\ fetch' = [fetch EXCEPT !.pc = "counted", !.list = Counted(Len(accounts))]
    /\ UNCHANGED <<accounts, budget, users, change, adrift>>

ReadUsers ==
    /\ fetch.pc = "counted"
    /\ fetch' = [fetch EXCEPT !.pc = "read", !.list = AccountPage(@)]
    /\ UNCHANGED <<accounts, budget, users, change, adrift>>

\* A page beyond the last one sends the reader to the last one; otherwise the list is
\* shown and the gate opens.
UsersArrive ==
    /\ fetch.pc = "read" /\ ParsesAsPage(fetch.list)
    /\ IF fetch.list.items = <<>> /\ users.offset > 0 /\ users.offset >= fetch.list.total
       THEN /\ users' = [users EXCEPT !.data = NoneSeen,
                             !.offset = IF fetch.list.total = 0 THEN 0
                                        ELSE ((fetch.list.total - 1) \div UserLimit) * UserLimit]
            /\ fetch' = NewFetch("initial")
       ELSE /\ users' = [users EXCEPT !.data = fetch.list, !.pending = NoTransition, !.gate = FALSE,
                             !.loading = FALSE, !.owed = FALSE,
                             !.notice = CASE fetch.reason = "post-mutation" -> "accepted"
                                          [] fetch.reason = "reconcile" \/ users.gate -> "latest"
                                          [] fetch.reason = "manual" -> "none"
                                          [] OTHER -> @]
            /\ fetch' = NoFetch
    /\ change' = IF change.pc = "reloading" THEN [change EXCEPT !.pc = "idle"] ELSE change
    /\ UNCHANGED <<accounts, budget, adrift>>

UsersFail ==
    /\ fetch.pc \in {"asked", "counted", "read"}
    /\ \E o \in Failures :
        CASE o = "401" -> UsersOff
          [] o = "403" -> fetch' = [fetch EXCEPT !.pc = "judged", !.list = NoneSeen] /\ UNCHANGED <<users, change, adrift>>
          [] OTHER -> /\ users' = [users EXCEPT !.error = TRUE, !.loading = FALSE,
                                                !.notice = IF fetch.reason = "post-mutation" THEN "accepted"
                                                           ELSE IF fetch.reason = "reconcile" THEN "latest" ELSE @]
                      /\ fetch' = NoFetch
                      /\ change' = IF change.pc = "reloading" THEN [change EXCEPT !.pc = "idle"] ELSE change
                      /\ UNCHANGED adrift
    /\ UNCHANGED <<accounts, budget>>

\* refreshRoleAfterForbidden: the page goes with its role or session, or the gate closes, or
\* the role stays unknown (a newer check of the session took the place of this one).
FetchDoubtEnds ==
    /\ fetch.pc = "judged"
    /\ \/ UsersOff
       \/ /\ \/ users' = [Gated(users) EXCEPT !.error = TRUE]
             \/ users' = [users EXCEPT !.loading = FALSE]
          /\ fetch' = NoFetch
          /\ change' = IF change.pc = "reloading" THEN [change EXCEPT !.pc = "idle"] ELSE change
          /\ UNCHANGED adrift
    /\ UNCHANGED <<accounts, budget>>

-----------------------------------------------------------------------------
(* selectTransition, cancelTransition, confirmTransition.                  *)

SelectTransition ==
    \E at \in Selectable :
        LET role == users.data.items[at - users.data.from]
        IN  /\ users' = [users EXCEPT !.notice = "none",
                             !.pending = [who |-> at, from |-> role, to |-> TargetRole(role)]]
            /\ UNCHANGED <<accounts, budget, fetch, change, adrift>>

CancelTransition ==
    /\ users.on /\ users.pending # NoTransition /\ ~InFlight
    /\ users' = [users EXCEPT !.pending = NoTransition]
    /\ UNCHANGED <<accounts, budget, fetch, change, adrift>>

ConfirmTransition ==
    /\ CanConfirm
    /\ budget.changes > 0
    /\ budget' = [budget EXCEPT !.changes = @ - 1]
    /\ change' = [NoChange EXCEPT !.pc = "asked", !.move = users.pending]
    /\ users' = [users EXCEPT !.notice = "none"]
    /\ UNCHANGED <<accounts, fetch, adrift>>

\* Mutant: the account's role of now is not looked at.
AnyTarget(move) == accounts[move.who] # "super_admin"

\* update_user_role: under the account's row lock, an ineffective change is a conflict.
Effective(move) == accounts[move.who] # "super_admin" /\ accounts[move.who] # move.to

ServeChange ==
    /\ change.pc = "asked" /\ ~change.done
    /\ Effective(change.move)
    /\ accounts' = [accounts EXCEPT ![change.move.who] = change.move.to]
    /\ change' = [change EXCEPT !.done = TRUE]
    /\ UNCHANGED <<budget, users, fetch, adrift>>

\* The gate closes, and the list is read in the same handler.
Reloading(reason, notice) ==
    /\ users' = [Fetching(Gated(users)) EXCEPT !.pending = NoTransition, !.notice = notice]
    /\ fetch' = NewFetch(reason)
    /\ change' = [change EXCEPT !.pc = "reloading"]
    /\ UNCHANGED adrift

ChangeArrives ==
    /\ change.pc = "asked" /\ change.done
    /\ Reloading("post-mutation", "accepted")
    /\ UNCHANGED <<accounts, budget>>

ChangeFails ==
    /\ change.pc = "asked"
    /\ \E o \in Failures :
        /\ change.done => Ambiguous(o)
        /\ CASE o = "401" -> UsersOff
             [] o = "403" -> /\ users' = [users EXCEPT !.pending = NoTransition]
                             /\ change' = [change EXCEPT !.pc = "judged"]
                             /\ UNCHANGED <<fetch, adrift>>
             [] o \in {"404", "409"} -> Reloading("reconcile", "latest")
             [] Ambiguous(o) -> /\ users' = [Gated(users) EXCEPT !.pending = NoTransition, !.notice = "uncertain",
                                                                 !.owed = TRUE]
                                /\ fetch' = NoFetch
                                /\ change' = [change EXCEPT !.pc = "idle"]
                                /\ adrift' = IF change.done THEN adrift ELSE adrift \cup {change.move}
             [] OTHER -> /\ users' = [IF o = "422" THEN Gated(users) ELSE users EXCEPT
                                          !.pending = NoTransition, !.notice = "refused"]
                         /\ fetch' = IF o = "422" THEN NoFetch ELSE fetch
                         /\ change' = [change EXCEPT !.pc = "idle"]
                         /\ UNCHANGED adrift
    /\ UNCHANGED <<accounts, budget>>

ChangeDoubtEnds ==
    /\ change.pc = "judged"
    /\ \/ UsersOff
       \/ /\ \/ users' = [Gated(users) EXCEPT !.notice = "refused"]
             \/ UNCHANGED users
          /\ change' = [change EXCEPT !.pc = "idle"]
          /\ UNCHANGED <<fetch, adrift>>
    /\ UNCHANGED <<accounts, budget>>

-----------------------------------------------------------------------------
(* Requests nobody waits for, other changes, registrations.                *)

AdriftServed ==
    \E move \in adrift :
        /\ accounts' \in {IF Effective(move) THEN [accounts EXCEPT ![move.who] = move.to] ELSE accounts, accounts}
        /\ adrift' = adrift \ {move}
        /\ UNCHANGED <<budget, users, fetch, change>>

ForeignChange ==
    /\ budget.foreign > 0
    /\ budget' = [budget EXCEPT !.foreign = @ - 1]
    /\ \E at \in DOMAIN accounts \ {1} : accounts' = [accounts EXCEPT ![at] = TargetRole(@)]
    /\ UNCHANGED <<users, fetch, change, adrift>>

Register ==
    /\ Len(accounts) < MaxAccounts
    /\ accounts' = Append(accounts, "customer")
    /\ UNCHANGED <<budget, users, fetch, change, adrift>>

UsersNext ==
    \/ UsersLeave \/ UsersVisit \/ LoadUsers \/ ChangePage \/ SelectTransition \/ CancelTransition
    \/ ConfirmTransition \/ CountUsers \/ ReadUsers \/ UsersArrive \/ UsersFail \/ FetchDoubtEnds
    \/ ServeChange \/ ChangeArrives \/ ChangeFails \/ ChangeDoubtEnds
    \/ AdriftServed \/ ForeignChange \/ Register

UsersSpec == UsersInit /\ [][UsersNext]_usersVars

-----------------------------------------------------------------------------
Seen == [known : BOOLEAN, from : Nat, total : Nat, items : Seq(Roles)]
Transitions == [who : Nat, from : Ordinary, to : Ordinary]

\* The page's requests and its state agree: one role change at a time, and a list that is
\* being loaded exactly while one is in progress.
UsersTypeOK ==
    /\ accounts \in Seq(Roles)
    /\ users \in [on : BOOLEAN, offset : Nat, loading : BOOLEAN, error : BOOLEAN, data : Seen,
                  pending : Transitions, notice : {"none", "accepted", "refused", "uncertain", "latest"},
                  gate : BOOLEAN, owed : BOOLEAN]
    /\ fetch \in [pc : {"none", "asked", "counted", "read", "judged"},
                  reason : {"initial", "manual", "post-mutation", "reconcile"}, list : Seen]
    /\ change \in [pc : {"idle", "asked", "judged", "reloading"}, move : Transitions, done : BOOLEAN]
    /\ adrift \subseteq Transitions
    /\ users.on => (users.loading <=> fetch.pc # "none")

\* A role change that is committed for this page goes from the role that the administrator
\* was shown in the confirmation to the one that was confirmed, however old the list was.
RoleChangesAsConfirmed ==
    [][change.pc = "asked" /\ change'.done /\ ~change.done
       => /\ accounts[change.move.who] = change.move.from
          /\ accounts'[change.move.who] = change.move.to]_usersVars

\* No role change is confirmed while an earlier one may have been made unseen: the list
\* has been asked for, and has come, after every uncertain answer.
GateNeedsFreshList == [][change.pc = "idle" /\ change'.pc = "asked" => ~users.owed]_usersVars
=============================================================================
