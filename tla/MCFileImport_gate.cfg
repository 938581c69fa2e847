SPECIFICATION Spec
CONSTANTS
    c1 = c1
    c2 = c2
    Call <- MCCall
    Doc <- MCDoc
    Request = {"import", "retry"}
    Faults = {"die", "timeout", "bad"}
    MaxCalls = 3
SYMMETRY Symmetry
CHECK_DEADLOCK FALSE
INVARIANTS ReviewGate
