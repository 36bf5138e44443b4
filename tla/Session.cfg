SPECIFICATION InstanceSpec

CONSTANTS
    a = a
    b = b
    plasma = plasma
    other = other
    Setters = {a, b}
    First = a
    Desktops = {plasma, other}
    Plasma = plasma
    Gamescope = Gamescope
    None = None
    Empty = Empty
    Capacity = 2
    Stops = TRUE
    Burst = 2
    RootFails = TRUE

INVARIANTS
    StateIsBoots
    NoUpdateLost
    SettersLeaveRoom

PROPERTIES
    SettersSettle
