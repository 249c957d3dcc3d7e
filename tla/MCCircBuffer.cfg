CONSTANTS
    N = 3
    SizeMax = 5
    Values = {a, b}
    MaxRequest = 4
SPECIFICATION Spec
SYMMETRY Symmetry
INVARIANTS
    OffsetsAgree
    NoRace
    NobodySleepsOverRoom
PROPERTIES
    FifoSpec
