SPECIFICATION FairSpec

CONSTANTS
    a = a
    b = b
    Clients = {a, b}
    on = on
    off = off
    States = {on, off}
    Default = on
    None = None
    Empty = Empty
    Capacity = 2
    HandlersFail = FALSE
    Stops = FALSE
    Burst = 3

PROPERTIES
    ReloadConfigIsHandled
