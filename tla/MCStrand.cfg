CONSTANTS
    Threads = {t1, t2}
    Jobs = {j1, j2, j3}
    Others = {o1}
    Slice = Slice
    Callers = {c1, c2}
    None = None
SPECIFICATION Spec
INVARIANTS
    NoParallelJobs
    SliceHasWork
    JoinedIsQuiet
PROPERTIES
    ImplementsSerialQueue
    JobsServed
    JoinReturns
CHECK_DEADLOCK FALSE
