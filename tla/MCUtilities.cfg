CONSTANTS
    M = 3
    Holders = {h1, h2, h3, h4}
    Threads = {1, 2, 3}
    N = 2
    Functions = {"f", "g"}
    NoFunction = "empty"
    Optionals = {"o", "p", "q"}
    Values = {1, 2}
    Deleters = {"t", "u"}
    Parents = {"p", "q"}
    Children = {"c", "d", "e"}
    None = "none"
    Items = {"i", "j", "k"}
    Keys = {1, 2}
    MaxHandles = 2
    CacheKeys = {1, 2, 3}
    Objects = {"v", "w", "x"}
    ListNodes = {1, 2, 3, 4}
    SizeLimit = 2
    Vectors = {"v", "w"}
    BitsPerBlock = 2
    BlockWidth = 2
    MaxBits = 4
    Texts <- MCTexts
    Chars = {0, 1, 2}
    Needles <- MCNeedles
    npos = 7
    Maps = {"m", "n"}
    MapKeys = {10, 11, 20}
    Mapped = {1}
    Default = 0
    Entries = {1, 2, 3, 4, 5}
    hasher <- MCHasher
    pred <- MCPred
    Base = 3
    SizeBytes = 2
    SizeMax = 7
    WordSize = 2
    Words <- MCWords
    Strings <- MCStrings
    NarrowMax = 2
    MaxItems = 2
    Structs = {"s", "t"}
    FieldLists <- MCFieldLists
    MaxSize = 2
SPECIFICATION PartsSpec
INVARIANTS
    IdsHeld
    ContainersAgree
    NumbersAgree
    TextAgrees
    PiecesAgree
    WaitersReleased
    
CHECK_DEADLOCK FALSE
