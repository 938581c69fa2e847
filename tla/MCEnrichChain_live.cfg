SPECIFICATION FairSpec
CONSTANTS
    extract = extract
    sub = sub
    reducer = reducer
    assembly = assembly
    w1 = w1
    w2 = w2
    h1 = h1
    h2 = h2
    Stage <- MCStage
    Substage <- MCSubstage
    Chain <- MCChain
    Needs <- MCNeeds
    Invocation <- MCWorker1
    Handler <- MCHandler1
    ExtractStage = extract
    Reducer = reducer
    MaxAttempts = 2
    MaxGen = 1
    Faults = {"crash", "kill", "orphan", "unreadable"}
CHECK_DEADLOCK FALSE
PROPERTIES UsesQueue ChainSettles
