CONSTANTS
    Threads = {t1, t2}
    Jobs = {j1, j2}
    Reusable = {j1}
    None = None
    Wrappers <- MCWrappers
    Callers = {c1, c2}
    Owner = c1
SPECIFICATION SimpleSpec
INVARIANTS
    GoneIsQuiet
PROPERTIES
    StopTakesEffect
    JobsServed
CHECK_DEADLOCK FALSE
