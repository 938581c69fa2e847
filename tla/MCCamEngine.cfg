SPECIFICATION EngineSpec
CONSTANTS
    e1 = e1
    e2 = e2
    p1 = p1
    p2 = p2
    site = site
    u1 = u1
    u2 = u2
    u3 = u3
    None = None
    Days = 6
    MonthStart = {1, 4}
    Unit = 4
    Scale = 6000
    Lease <- MCLease
    Pool <- MCPool
    Expense <- MCExpense
    Inputs <- MCInputs
INVARIANTS
    EngineTypeOK
    DayByDay
    YearlyTerms
    RoundedTies
    ReadyMeansComplete
CHECK_DEADLOCK FALSE
