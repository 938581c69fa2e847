SPECIFICATION Spec
CONSTANTS
    t1 = t1
    t2 = t2
    k1 = k1
    k2 = k2
    withDefault = withDefault
    without = without
    Call <- MCCall
    Key <- MCKey
    Amount = {1, 2}
    Pool <- MCPool
    Defaulting <- MCDefaulting
    MaxCalls = 5
SYMMETRY Symmetry
INVARIANTS
    TypeOK
    OneChain
    StaleSourceShows
PROPERTIES
    PulledBackStays
CONSTRAINT Bounds
CHECK_DEADLOCK FALSE
