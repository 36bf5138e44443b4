SPECIFICATION FairSpec

CONSTANTS
    a = a
    Ids = {a}
    Limits = {1, 2, 3}
    MinLimit = 1
    DownloadLimit = 2
    None = None
    FanConfigured = FALSE
    CachedLimit = FALSE
    Remote = FALSE
    CallsFail = TRUE
    ProfileSwitches = FALSE
    Crashes = FALSE
    MaxHandles = 1
    MaxQueue = 1

PROPERTIES
    LowPowerExited
