SPECIFICATION Spec
CONSTANTS
    extract = extract
    sub = sub
    reducer = reducer
    w1 = w1
    w2 = w2
    Stage <- MCStage
    Substage <- MCSubstage
    Invocation <- MCWorkers
    ExtractStage = extract
    Reducer = reducer
    MaxAttempts = 2
    MaxGen = 2
SYMMETRY WorkerSymmetry
INVARIANTS
    TypeOK
    ClaimExclusive
PROPERTIES
    RetiredForever
CONSTRAINT Bounds
