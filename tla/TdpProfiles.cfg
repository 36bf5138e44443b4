SPECIFICATION FairSpec

CONSTANTS
    a = a
    Ids = {a}
    Limits = {1, 2, 3}
    MinLimit = 1
    DownloadLimit = 2
    None = None
    FanConfigured = FALSE
    CachedLimit = FALSE
    Remote = FALSE
    CallsFail = FALSE
    ProfileSwitches = TRUE
    Crashes = FALSE
    MaxHandles = 2
    MaxQueue = 2

INVARIANTS
    LimitIsRemembered

PROPERTIES
    SavedLimitReturned
    ModeEnteredOnReturn
