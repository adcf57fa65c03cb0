SPECIFICATION FairSpec
CONSTANTS
    Others = {"store", "outside"}
    Store = "store"
    Outside = {"outside"}
    MinConsolidation = 3
    GuardMin = 3
    ProposerMin = 3
    MaxConsolidation = 6
    RecoveryTicks = 2
    CandidateTtl = 3
    Cooldown = 2
    DecisionWindow = 8
    CleanupWindow = 4
    Gaps = {0, 1, 4}
INVARIANTS
    DecisionsActAtOnce
    CleanupSucceeds
PROPERTIES
    GoesRound
    ComesBack
