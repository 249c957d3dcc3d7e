CONSTANTS
    M = 3
    Holders = {h1, h2, h3, h4}
SPECIFICATION Spec
INVARIANTS
    ExhaustionThrows
CHECK_DEADLOCK FALSE
