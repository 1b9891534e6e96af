CONSTANTS
    Requests = {r1, r2}
    Proposals = {p1}
    Contents = {c1, c2}
    NoContent = NoContent
    Manual = Manual
    MaxAttempts = 2
    MaxRequests = 4
SPECIFICATION Spec
SYMMETRY PlanSymmetry
INVARIANTS LedgerConsistent ApprovedBaseline LocksSerialize
CHECK_DEADLOCK FALSE
