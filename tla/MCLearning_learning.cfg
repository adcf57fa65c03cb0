SPECIFICATION MCSpec
CONSTANTS
    Verdicts <- MCVerdicts
    Delay = 1
    OutcomeWindow = 2
    CandidateWindow = 3
    ReadyWindow = 2
    MaxSources = 4
    ObserverCooldown = 2
    CandidateCooldown = 2
    ReviewCooldown = 2
    ObservationWindow = 2
    ValueCandidateWindow = 2
    ValueReviewWindow = 2
    LinkWindow = 2
    Evidence <- MCEvidence
    MaxClock = 4
    MaxObserved = 1
    MaxFaults = 1
    MaxProcesses = 1
INVARIANTS
    SupportIsEvidence
    LostOnlyInBursts
    ApprovalsAreEarned
    ValueIsEarned
PROPERTIES
    ReviewsCatchUp
    FailuresAreMadeGood
CHECK_DEADLOCK FALSE
