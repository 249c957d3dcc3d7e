CONSTANTS
    Threads = {t1, t2, t3}
    Keys = {k1}
    Objs = {o1, o2}
    Blocks = {b1, b2, b3}
    None = None
SPECIFICATION FairSpec
INVARIANTS
    InUseIsInMap
    LeaksExplained
PROPERTIES
    MapEmpties
CHECK_DEADLOCK FALSE
