SPECIFICATION FairSpec

CONSTANTS
    charge = charge
    Paths = {charge}
    WritesFail = TRUE
    MaxRequests = 5

INVARIANTS
    SettledIsNewest

PROPERTIES
    ImplementsWrites
    EveryCallAnswered
    ShownIsCurrent

\* With no more requests to come, the service waits for ever.
CHECK_DEADLOCK FALSE
