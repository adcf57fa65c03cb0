SPECIFICATION SharedSpec
CONSTANTS
    Creators = {c1}
    Requests = {r1, r2, bad}
    Malformed = {bad}
    Old = Old
    NoOne = NoOne
    OldIds = {1, 3}
    MaxCalls = 3
    MaxFaults = 2
    MaxCrashes = 1
    None = None
    MaxCommits = 1
PROPERTIES
    ExistingUntouched
CHECK_DEADLOCK FALSE
