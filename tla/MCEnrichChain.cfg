SPECIFICATION Spec
CONSTANTS
    extract = extract
    sub = sub
    reducer = reducer
    assembly = assembly
    w1 = w1
    w2 = w2
    h1 = h1
    h2 = h2
    Stage <- MCStage
    Substage <- MCSubstage
    Chain <- MCChain
    Needs <- MCNeeds
    Invocation <- MCWorkers
    Handler <- MCHandlers
    ExtractStage = extract
    Reducer = reducer
    MaxAttempts = 2
    MaxGen = 1
    Faults = {"crash", "kill", "failure"}
SYMMETRY Symmetry
CHECK_DEADLOCK FALSE
INVARIANTS TypeOK ReadyMeansAssembled
PROPERTIES ResultsKept PublishedStands
