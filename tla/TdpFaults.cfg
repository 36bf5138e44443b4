SPECIFICATION Spec

CONSTANTS
    a = a
    b = b
    Ids = {a, b}
    Limits = {1, 2, 3}
    MinLimit = 1
    DownloadLimit = 2
    None = None
    FanConfigured = TRUE
    CachedLimit = FALSE
    Remote = TRUE
    CallsFail = TRUE
    ProfileSwitches = FALSE
    Crashes = TRUE
    MaxHandles = 2
    MaxQueue = 2

INVARIANTS
    HandleAccounting

PROPERTIES
    ModeKeptWhileHeld
