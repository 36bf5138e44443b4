SPECIFICATION MachineSpec

CONSTANTS
    \* Wifi
    ShouldTrace = TRUE
    IwdDropsInterface = TRUE
    MaxWifiFaults = 2
    \* Cec
    a = a
    b = b
    CecCallers = {a, b}
    Addresses = {1, 2}
    MaxCecFaults = 1
    MaxCecCalls = 3
    MaxReplugs = 1
    \* HardwareSettings
    Lo = 1
    Hi = 4
    SpptMin = 2
    FpptMin = 3
    PolicyFile <- MachinePolicies
    PowerScale = 2
    WordMax = 7
    MaxHwFaults = 2
    MaxQueuedLimits = 2
    \* SerialOrder
    NoMessage = NoMessage
    gpu = gpu
    tdp = tdp
    governor = governor
    Interfaces = {gpu, tdp, governor}
    Checked = {gpu, tdp}
    MaxSetterCalls = 4
    \* RemoteInterface
    fan = fan
    boost = boost
    Configured <- ConfiguredIfaces
    Tdp = tdp
    LocalIfaces = {boost}
    MaxFlaps = 3
    \* ScreenReader
    Rates = {1, 2}
    DefaultRate = 1
    OtherRates = {2}
    Voices = {anna}
    anna = anna
    OtherVoice = other
    ModeCapacity = 2
    MaxReaderCalls = 2
    MaxModeChanges = 3
    MaxReaderFaults = 1
    \* LoginSwitch
    Switchers = {a, b}
    LoginSessions = {1, 2}
    NoSession = NoSession
    MaxLogins = 3
    MaxLoginFaults = 2
    \* UserInterfaces
    Machines <- OddMachines
    \* PerformanceProfile
    ProfileCallers = {a, b}
    Profiles = {1, 2}
    LimitProfiles = {2}
    MaxProfileCalls = 3
    MaxProfileFaults = 2
    \* Lifecycle
    MaxLives = 2
    MaxLifeFaults = 1
    \* InputPlumber
    d = d
    e = e
    Devices = {d, e}
    MaxPlugs = 2
    \* WifiDump
    MaxDumps = 3
    MaxCrashes = 2
    \* UdevEvents
    MaxUsbEvents = 4
    MaxUdevFaults = 1

INVARIANTS
    RelayFollowsRemote
    NewestIsApplied
    SystemIsInMode
    CecInStep
    AnswerIsInForce
    ReaderIsInStep
    SupportedIsServed
    ProfileInStep
    StopIsOrderly
    DevicesAreDeck
    DumpIsOurs
    OverCurrentsAreTold

PROPERTIES
    SwitchIsForOnce

\* Every component comes to an end when its bounds are reached.
CHECK_DEADLOCK FALSE
