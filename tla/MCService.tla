------------------------------ MODULE MCService ------------------------------
(* The mechanisms of the server side that orders and commands rely on: the   *)
(* locks of menu rows, the rate limiter, the server process with its loop    *)
(* and its pool, and the operators' commands, one of them in each behaviour. *)
EXTENDS OrderCreation, RateLimiter, RequestHandling, Deployment

CONSTANTS c1, c2, soup, stew
MCCategories == {c1, c2}
MCHome == <<c1, c2>>
MCCalled == [r \in {1, 2, c1, c2} |-> IF r = c2 THEN stew ELSE soup]

VARIABLE topic   \* which of them the behaviour is of

ServiceInit ==
    /\ topic \in {"rows", "limit", "requests", "commands"}
    /\ RowsInit /\ LimiterInit /\ HandlingInit
    /\ DeploymentInit /\ (topic # "commands" => database.portfolio = "empty")

ServiceNext ==
    /\ \/ topic = "rows" /\ RowsNext /\ UNCHANGED <<limiterVars, handlingVars, deploymentVars>>
       \/ topic = "limit" /\ LimiterNext /\ UNCHANGED <<rowsVars, handlingVars, deploymentVars>>
       \/ topic = "requests" /\ HandlingNext /\ UNCHANGED <<rowsVars, limiterVars, deploymentVars>>
       \/ topic = "commands" /\ DeploymentNext /\ UNCHANGED <<rowsVars, limiterVars, handlingVars>>
    /\ UNCHANGED topic

ServiceSpec ==
    /\ ServiceInit /\ [][ServiceNext]_<<rowsVars, limiterVars, handlingVars, deploymentVars, topic>>
    /\ HandlingFairness

-----------------------------------------------------------------------------
\* The shape of the state looked at; a connection is never shared, nor the order's row.
ServiceTypeOK ==
    CASE topic = "rows" -> RowsTypeOK
      [] topic = "limit" -> LimiterTypeOK
      [] topic = "requests" -> HandlingTypeOK
      [] topic = "commands" -> DeploymentTypeOK
==============================================================================
