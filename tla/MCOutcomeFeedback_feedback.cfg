SPECIFICATION Spec
CONSTANTS
    Experiences = {e1, e2}
    Delay = 1
    KeyWindow = 1
    MaxTick = 3
    MaxActivations = 2
    MaxDecisions = 1
    MaxPredictions <- MCPredictions
    MaxRestarts = 1
SYMMETRY Alike
INVARIANTS
    CountedOnce
    SourcedDecisionsCount
CHECK_DEADLOCK FALSE
