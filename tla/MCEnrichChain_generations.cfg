SPECIFICATION Spec
CONSTANTS
    extract = extract
    sub = sub
    reducer = reducer
    assembly = assembly
    w1 = w1
    w2 = w2
    h1 = h1
    h2 = h2
    Stage <- MCStage
    Substage <- MCSubstage
    Chain <- MCChain
    Needs <- MCNeeds
    Invocation <- MCWorkers
    Handler <- MCHandler1
    ExtractStage = extract
    Reducer = reducer
    MaxAttempts = 1
    MaxGen = 2
    Faults = {"failure", "cancel"}
SYMMETRY Symmetry
CHECK_DEADLOCK FALSE
CONSTRAINTS NoDuplicates CancelAlone
ACTION_CONSTRAINT CancelLast
PROPERTIES UsesQueue VerdictIsCurrent
