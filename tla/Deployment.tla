----------------------------- MODULE Deployment -----------------------------
(***************************************************************************)
(* The commands that operators run against one database, at the same time  *)
(* if they please: migration, deployment seed, the demo administrator's    *)
(* provision and deactivation, and the bootstrap of the first super        *)
(* administrator. Advisory locks let them take turns; READ COMMITTED shows *)
(* each statement what is committed when it starts.                        *)
(***************************************************************************)
EXTENDS Naturals, FiniteSets

CONSTANTS
    Operators,     \* processes that run commands
    HeadRevision,  \* the newest release's revision, EXPECTED_SCHEMA_REVISION; 0: no schema
    Nobody

ASSUME Releases == HeadRevision \in Nat \ {0} /\ Nobody \notin Operators

VARIABLES
    database,  \* what is committed
    advisory,  \* who holds each advisory lock
    command    \* the command each operator runs

deploymentVars == <<database, advisory, command>>

-----------------------------------------------------------------------------
\* The portfolio's rows, with the canonical menu's, are absent, exactly those of the plan, or
\* something else. The demo administrator's row is exact but for being active or not, or
\* it drifted: another account has its address.
Portfolio == {"empty", "exact", "other"}
DemoAdmin == {"missing", "active", "inactive", "drifted"}
Database == [revision : 0..HeadRevision, portfolio : Portfolio, demo : DemoAdmin, admins : Nat]

Commands == {"migrate", "seed", "provision", "deactivate", "bootstrap"}

\* The lock of a command: MIGRATION_LOCK_KEY, DEPLOYMENT_SEED_LOCK_KEY,
\* DEMO_ADMIN_PROVISION_LOCK_KEY, SUPER_ADMIN_BOOTSTRAP_LOCK_KEY.
LockOf(c) == IF c \in {"provision", "deactivate"} THEN "demo" ELSE c
Locks == {LockOf(c) : c \in Commands}

\* The first two are tried once, the others waited for.
TriedOnce == {"migrate", "seed"}

\* "release" is the revision a migration brings, "saw" what a transaction read after it had
\* its lock: it writes by that.
Ended(how) == [does |-> "nothing", release |-> 0, saw |-> "unread", at |-> how]
Outcomes == {"idle", "done", "locked_out", "refused", "conflict"}
Stages == {"connected", "verified", "locked", "begun", "read", "written", "committed", "failed"}

Is(o, does, at) == command[o].does \in does /\ command[o].at = at
Reach(o, at) == command' = [command EXCEPT ![o].at = at]
End(o, how) == command' = [command EXCEPT ![o] = Ended(how)]
Unlocked(o) == [l \in Locks |-> IF advisory[l] = o THEN Nobody ELSE advisory[l]]

\* A transaction's lock goes with the transaction.
EndTransaction(o, how) == End(o, how) /\ advisory' = Unlocked(o)

-----------------------------------------------------------------------------
Launch(o) ==
    /\ command[o].at = "idle"
    /\ \E does \in Commands, release \in 1..HeadRevision :
         /\ does # "migrate" => release = HeadRevision
         /\ command' = [command EXCEPT ![o] = [does |-> does, release |-> release,
                                               saw |-> "unread", at |-> "connected"]]
    /\ UNCHANGED <<database, advisory>>

Dismiss(o) ==
    /\ command[o].at \in Outcomes \ {"idle"}
    /\ End(o, "idle")
    /\ UNCHANGED <<database, advisory>>

\* _run_with_engine: a provision verifies the portfolio, a deactivation the schema.
VerifyPortfolio(o) ==
    /\ Is(o, {"provision", "deactivate"}, "connected")
    /\ IF database.revision = HeadRevision /\ (command[o].does = "provision" => database.portfolio = "exact")
       THEN Reach(o, "verified") ELSE End(o, "refused")
    /\ UNCHANGED <<database, advisory>>

ReadyToLock(o) ==
    \/ Is(o, {"migrate", "seed", "bootstrap"}, "connected")
    \/ Is(o, {"provision", "deactivate"}, "verified")

\* pg_try_advisory_lock, pg_try_advisory_xact_lock and pg_advisory_xact_lock
AcquireLock(o) ==
    LET lock == LockOf(command[o].does)
    IN /\ ReadyToLock(o)
       /\ \/ /\ advisory[lock] = Nobody
             /\ advisory' = [advisory EXCEPT ![lock] = o]
             /\ Reach(o, "locked")
          \/ /\ advisory[lock] # Nobody /\ command[o].does \in TriedOnce
             /\ End(o, "locked_out")
             /\ UNCHANGED advisory
       /\ UNCHANGED database

LostWithPreflight(o) == Unlocked(o)   \* mutant: a transaction's lock instead of a session's

\* The commit that ends the preflight: a session's lock survives it.
KeptByPreflight(o) == advisory

CommitPreflight(o) ==
    /\ Is(o, {"migrate"}, "locked")
    /\ Reach(o, "begun")
    /\ advisory' = KeptByPreflight(o)
    /\ UNCHANGED database

\* A release that does not know the database's revision cannot upgrade it.
UpgradeExactRevision(o) ==
    /\ Is(o, {"migrate"}, "begun")
    /\ Reach(o, IF database.revision <= command[o].release THEN "written" ELSE "failed")
    /\ UNCHANGED <<database, advisory>>

CommitUpgrade(o) ==
    /\ Is(o, {"migrate"}, "written")
    /\ database' = [database EXCEPT !.revision = command[o].release]
    /\ Reach(o, "committed")
    /\ UNCHANGED advisory

\* Any error of the preflight or the upgrade rolls back; the lock is still held.
FailMigration(o) ==
    /\ command[o].does = "migrate" /\ command[o].at \in {"locked", "begun", "written"}
    /\ Reach(o, "failed")
    /\ UNCHANGED <<database, advisory>>

\* pg_advisory_unlock, in every case
CleanupSession(o) ==
    /\ \/ Is(o, {"migrate"}, "committed") /\ EndTransaction(o, "done")
       \/ Is(o, {"migrate"}, "failed") /\ EndTransaction(o, "refused")
    /\ UNCHANGED database

-----------------------------------------------------------------------------
\* What a command's rows are now, to its own eyes.
Subject(does) ==
    CASE does = "seed" -> database.portfolio
      [] does \in {"provision", "deactivate"} -> database.demo
      [] does = "bootstrap" -> IF database.admins = 0 THEN "missing" ELSE "active"

\* What it may start from, what is already as it should be, and what it leaves behind.
Writes == {<<"seed", "empty">>, <<"provision", "missing">>, <<"deactivate", "active">>,
           <<"bootstrap", "missing">>}
Exact == {<<"seed", "exact">>, <<"provision", "active">>, <<"deactivate", "inactive">>}

\* _classify_portfolio_state, _load_candidates, existing_super_admin
ReadRows(o) ==
    LET found == <<command[o].does, Subject(command[o].does)>>
    IN /\ Is(o, Commands \ {"migrate"}, "locked")
       /\ IF database.revision = 0 \/ (command[o].does = "seed" /\ database.revision # HeadRevision)
          THEN EndTransaction(o, "refused")   \* no tables, or not those of this release
          ELSE IF found \in Writes
          THEN /\ command' = [command EXCEPT ![o].at = "read", ![o].saw = found[2]]
               /\ UNCHANGED advisory
          ELSE EndTransaction(o, IF found \in Exact THEN "done" ELSE "conflict")
       /\ UNCHANGED database

\* The same rows, written by a transaction that is still open: their keys hold others up. The
\* super administrators of two operators have different addresses, that nobody else has.
WaitsForKeys(o) ==
    {p \in Operators \ {o} : /\ command[p].at = "written" /\ command[o].does # "bootstrap"
                             /\ LockOf(command[p].does) = LockOf(command[o].does)}

\* The flush: rows that were committed since they were read break a key or are read again.
WriteRows(o) ==
    /\ Is(o, Commands \ {"migrate"}, "read")
    /\ WaitsForKeys(o) = {}
    /\ IF command[o].does = "bootstrap" \/ command[o].saw = Subject(command[o].does)
       THEN Reach(o, "written") /\ UNCHANGED advisory
       ELSE EndTransaction(o, "conflict")
    /\ UNCHANGED database

Commit(o) ==
    /\ Is(o, Commands \ {"migrate"}, "written")
    /\ database' =
         CASE command[o].does = "seed" -> [database EXCEPT !.portfolio = "exact"]
           [] command[o].does = "provision" -> [database EXCEPT !.demo = "active"]
           [] command[o].does = "deactivate" -> [database EXCEPT !.demo = "inactive"]
           [] command[o].does = "bootstrap" -> [database EXCEPT !.admins = @ + 1]
    /\ EndTransaction(o, "done")

\* The process dies or its connection does: what is not committed is undone and its session's
\* locks are released. An error of a statement has the same effect, except on a migration.
Crash(o) ==
    /\ command[o].at \in Stages
    /\ EndTransaction(o, "idle")
    /\ UNCHANGED database

\* Somebody registers with the demo administrator's address.
RegisterReserved ==
    /\ database.revision # 0 /\ database.demo = "missing"
    /\ \A o \in Operators : ~Is(o, {"provision"}, "written")
    /\ database' = [database EXCEPT !.demo = "drifted"]
    /\ UNCHANGED <<advisory, command>>

-----------------------------------------------------------------------------
DeploymentInit ==
    /\ database \in [revision : {0}, portfolio : {"empty", "other"}, demo : {"missing"}, admins : {0}]
    /\ advisory = [l \in Locks |-> Nobody]
    /\ command = [o \in Operators |-> Ended("idle")]

DeploymentNext ==
    \/ RegisterReserved
    \/ \E o \in Operators :
         \/ Launch(o) \/ Dismiss(o) \/ VerifyPortfolio(o) \/ AcquireLock(o) \/ Crash(o)
         \/ CommitPreflight(o) \/ UpgradeExactRevision(o) \/ CommitUpgrade(o)
         \/ FailMigration(o) \/ CleanupSession(o)
         \/ ReadRows(o) \/ WriteRows(o) \/ Commit(o)

DeploymentSpec == DeploymentInit /\ [][DeploymentNext]_deploymentVars

-----------------------------------------------------------------------------
DeploymentTypeOK ==
    /\ database \in Database
    /\ advisory \in [Locks -> Operators \cup {Nobody}]
    /\ command \in [Operators -> [does : Commands \cup {"nothing"}, release : 0..HeadRevision,
                                  saw : Portfolio \cup DemoAdmin \cup {"unread"}, at : Outcomes \cup Stages]]
    /\ \A o \in Operators : command[o].does = "nothing" <=> command[o].at \in Outcomes

\* Two migrations never have their transactions open together, nor two bootstraps that both
\* found no super administrator.
OneAtATime ==
    /\ Cardinality({o \in Operators : command[o].does = "migrate" /\ command[o].at \in {"begun", "written"}}) <= 1
    /\ database.admins + Cardinality({o \in Operators : Is(o, {"bootstrap"}, "written")}) <= 1

\* A command that had its turn reports a conflict only over rows that are in conflict, never
\* because another command was faster: not over an exact portfolio, nor over the demo
\* administrator as it should be.
ConflictsAreReal(o) ==
    command[o].at \in Stages /\ command'[o].at = "conflict" =>
        CASE command[o].does = "seed" -> database.portfolio = "other"
          [] command[o].does = "provision" -> database.demo \in {"inactive", "drifted"}
          [] command[o].does = "deactivate" -> database.demo \in {"missing", "drifted"}
          [] command[o].does = "bootstrap" -> database.admins = 1

\* The schema only moves forward, and no lock outlives the command that took it.
NothingIsLeftBehind ==
    /\ database'.revision >= database.revision
    /\ \A l \in Locks : advisory'[l] # Nobody => command'[advisory'[l]].at \in Stages

\* A migration that reports success leaves exactly its revision.
RevisionIsVerified(o) ==
    command[o].does = "migrate" /\ command'[o].at = "done" => database'.revision = command[o].release

OperatorsTakeTurns ==
    [][/\ OneAtATime' /\ NothingIsLeftBehind
       /\ \A o \in Operators : ConflictsAreReal(o) /\ RevisionIsVerified(o)]_deploymentVars
=============================================================================
