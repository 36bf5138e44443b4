SPECIFICATION RootSpec

CONSTANTS
    a = a
    b = b
    Clients = {a, b}
    on = on
    off = off
    States = {on, off}
    Default = on
    None = None
    Empty = Empty
    Capacity = 2
    HandlersFail = TRUE
    Stops = TRUE
    Burst = 4
    steam = steam
    Devices = {1}
    Procs = {steam}
    Steam = {steam}
    MaxPlugs = 2
    MaxRuns = 2
    MaxEvents = 2

SYMMETRY ClientSymmetry

INVARIANTS
    UnsavedIsPending
    AppliedIsState
    InhibitorKeepsUp

\* An inhibitor that has seen everything waits for ever.
CHECK_DEADLOCK FALSE
