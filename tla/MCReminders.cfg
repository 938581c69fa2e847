SPECIFICATION Spec
CONSTANTS
    expiry = expiry
    owner = owner
    manager = manager
    r1 = r1
    r2 = r2
    Obligation <- MCObligation
    Due <- MCDue
    Recipient <- MCRecipient
    Reachable <- MCReachable
    Run <- MCRun
    Window = 1
    Milestone <- MCMilestone
    MaxDay = 1
    MaxStarts = 3
SYMMETRY Symmetry
CHECK_DEADLOCK FALSE
INVARIANTS TypeOK
PROPERTIES ClosedIsQuiet RecordedOnce CleanRunRepairs
