SPECIFICATION FairSpec

CONSTANTS
    a = a
    b = b
    Ids = {a, b}
    Limits = {1, 2, 3}
    MinLimit = 1
    DownloadLimit = 2
    None = None
    FanConfigured = TRUE
    CachedLimit = FALSE
    Remote = FALSE
    CallsFail = FALSE
    ProfileSwitches = FALSE
    Crashes = FALSE
    MaxHandles = 2
    MaxQueue = 2

INVARIANTS
    NothingLeftBehind

PROPERTIES
    FanNotForgotten
    LowPowerExited
    ImplementsLock
