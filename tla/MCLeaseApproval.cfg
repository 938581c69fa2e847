SPECIFICATION Spec
CONSTANTS
    key1 = key1
    key2 = key2
    first = first
    retry = retry
    other = other
    c1 = c1
    c2 = c2
    rr = rr
    mine = mine
    theirs = theirs
    Key <- MCKey
    Request <- MCRequest
    Compute <- MCCompute
    Rerun <- MCRerun
    Review <- MCReview
    KeyOf <- MCKeyOf
    ReviewOf <- MCReviewOf
    Faulty = TRUE
SYMMETRY Symmetry
INVARIANTS
    AnswerMatchesHistory
    RentAuthoritative
    ScheduleKept
    DerivedFromAnswers
PROPERTIES
    AnswerKept
    ApprovedIsLocked
CONSTRAINT Bounds
CHECK_DEADLOCK FALSE
