CONSTANTS
    Requests = {r1, r2}
    Proposals = {p1, p2}
    Keys = {k1, k2}
    Nobody = Nobody
    MaxEdits = 1
    MaxRequests = 5
SPECIFICATION Spec
SYMMETRY AgentSymmetry
INVARIANTS DecisionsOverlap NotesMatchReceipts
CHECK_DEADLOCK FALSE
