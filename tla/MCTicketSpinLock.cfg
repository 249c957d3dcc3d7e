\* Three threads on counters of 2^2 values, so that the counters wrap.
CONSTANTS
    Threads = {t1, t2, t3}
    TicketCount = 4
SPECIFICATION Spec
INVARIANTS
    MutualExclusion
PROPERTIES
    ImplementsFifoLock
    NoStarvation
