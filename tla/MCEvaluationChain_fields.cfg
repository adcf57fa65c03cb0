SPECIFICATION Spec
CONSTANTS
    Feed <- MCFeed
    Edges <- MCEdges
    Experiences <- MCExperiences
    MaxSignals = 2
    MaxTargets = 2
    MaxProbes = 1
    MaxSearched = 1
    MaxGroups = 1
    Recent = 2
    MaxApplied = 5
    KeptApplied = 2
    Apart = {0, 1, 2}
    MaxCalls = 3
    MaxFed = 2
INVARIANTS
    FieldIsTrue
    FieldsTrackLog
    NoneIsOverlooked
PROPERTIES
    DecayIsStepwise
CHECK_DEADLOCK FALSE
