---------------------------- MODULE MCPlanningRun ----------------------------
(* One planning run; the configurations give the constants their values.    *)
EXTENDS PlanningRun, TLC

\* Requests that are not synchronous are alike; for the safety run only.
Alike == Permutations(Token \ SyncToken)
=============================================================================
