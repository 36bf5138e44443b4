SPECIFICATION MirrorFairSpec

CONSTANTS
    a = a
    b = b
    Callers = {a, b}
    NoMirror = NoMirror
    MaxJobs = 2
    MaxRestarts = 1

INVARIANTS
    MirrorsAreOne
    AnswerIsOwnJob

PROPERTIES
    NoneIsForgotten
