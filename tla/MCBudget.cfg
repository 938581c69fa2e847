SPECIFICATION Spec
CONSTANTS
    r1 = r1
    r2 = r2
    p1 = p1
    p2 = p2
    Request <- MCRequest
    Plan <- MCPlan
    Live = "live"
    MaxWrites = 5
    MaxEdits = 1
SYMMETRY Symmetry
INVARIANTS SignedAsSeen PlanAgrees
PROPERTIES LockHolds
