\* The phase ledger under two requests at a time.
SPECIFICATION Spec
CONSTANTS
    Requests = {r1, r2}
    LastPhase = 5
    ImagePhase = 3
    MaxRequests = 4
    PlanningPhases <- MCPlanningPhases
SYMMETRY RequestSymmetry
INVARIANTS LedgerNumbered ApprovalChain
\* A story may receive no further request.
CHECK_DEADLOCK FALSE
