SPECIFICATION Spec
CONSTANTS
    r1 = r1
    r2 = r2
    c1 = c1
    c2 = c2
    Run <- MCRun
    Call <- MCCall
    Type = {"standard", "preview"}
    MaxEdits = 1
SYMMETRY Symmetry
INVARIANTS
    TypeOK
    StaleShowsEdits
PROPERTIES
    KeepsLedger
CONSTRAINT OneOpen
CHECK_DEADLOCK FALSE
