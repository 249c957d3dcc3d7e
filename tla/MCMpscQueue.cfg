\* Three producers, so that two gaps and a finished push can be in the list at
\* once, and four nodes, so that nodes are reused.
CONSTANTS
    Producers = {p1, p2, p3}
    Nodes = {n1, n2, n3, n4}
    Items = {a, b, c}
    NoNode = NoNode
    NoItem = NoItem
SPECIFICATION FairQueueSpec
INVARIANTS
    HeldIsUnreachable
PROPERTIES
    FifoSpec
    Delivered
