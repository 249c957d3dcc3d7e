\* Two descriptors and two threads that remove them; the flush takes two bytes at once.
CONSTANTS
    Fds = {f, g}
    Spinners = {s, t}
    Nobody = Nobody
    DISCARD_SIZE = 2
SPECIFICATION LoopSpec
INVARIANTS
    HandlersAlive
PROPERTIES
    CallsReturn
CHECK_DEADLOCK FALSE
