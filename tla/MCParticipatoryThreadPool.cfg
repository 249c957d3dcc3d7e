CONSTANTS
    Threads = {t1, t2, t3}
    Jobs = {j1}
    Reusable = {}
    None = None
    Wrappers <- MCWrappers
    MaxParticipants = 2
SPECIFICATION PSpec
INVARIANTS
    NoLostWakeup
PROPERTIES
    ImplementsTaskQueue
    JoinSawNobody
    JoinReturns
