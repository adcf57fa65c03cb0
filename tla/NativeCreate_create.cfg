SPECIFICATION FairSpec
CONSTANTS
    Creators = {c1, c2}
    Requests = {r1, r2, bad}
    Malformed = {bad}
    Old = Old
    NoOne = NoOne
    OldIds = {1, 3}
    MaxCalls = 4
    MaxFaults = 2
    MaxCrashes = 1
PROPERTIES
    CallsReturn
    IsRecordStore
INVARIANTS
    EveryRecordHasOneOwner
    AnswersTellTruth
CHECK_DEADLOCK FALSE
