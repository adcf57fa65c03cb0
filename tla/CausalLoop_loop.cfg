CONSTANTS
    None = None
    Outside = Outside
    field = field
    other = other
    Topologies = {field, other}
    MaxEntries = 1
    MaxAge = 1
    ClockLead = 1
    MaxTick = 3
    MaxFrames = 2
SPECIFICATION FairSpec
INVARIANTS CauseIsReal ResultTellsTruth RelationsInTime TrackingNeverFails
PROPERTIES ShortMemoryKeeps KeepsUp
CHECK_DEADLOCK FALSE
