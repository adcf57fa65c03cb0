SPECIFICATION MCSpec
CONSTANTS
    NoValue = NoValue
    MaxEvents = 12
    MaxEntries <- MCMaxEntries
    Window <- MCWindow
    Inputs <- MCInputs
    Bursts <- MCBursts
    Shown <- MCShown
    MaxFeeds = 4
    MaxSwitches = 2
    MaxReviewed = 2
    LightWork = 2
    Fixtures <- MCFixtures
    Ticks <- MCTicks
    OwnPressures <- MCOwnPressures
    RealFiles = {expsm, akbsm}
INVARIANTS
    FeltExactlyOnce
    ViewsFollowLog
    VerdictIsSound
CHECK_DEADLOCK FALSE
