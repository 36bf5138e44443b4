SPECIFICATION EndingSpec

CONSTANTS
    m = m
    a = a
    Clients = {a, m}
    Mirrored = {m}
    None = None
    HonoursTerm = TRUE

INVARIANTS
    StoppedIsPaused
    WaitedForRuns
    CodeIsStatus

PROPERTIES
    CallsComeToAnEnd
