CONSTANTS
    NULL = NULL
    RingHeads = {h1, h2}
    RingNodes = {n1, n2, n3}
    HashHeads = {g1, g2}
    HashNodes = {m1, m2, m3}
    Data = {a, b}
    Cells = {c1, c2, c3}
    InitialCapacity = 3
    MinCapacity = 2
    MaxLen = 4
    Junk = Junk
    Blocks = {1, 2, 3, 4}
    NodesMax = 2
    Buckets = 2
    Keys = {1, 2, 3}
    Values = {"v", "w"}
    Objects = {11, 12, 13}
    Uuids = {21, 22}
    Nothing = 0
    MaxCnt = 3
    None = None
    Failed = Failed
    OS_LINUX = TRUE
    HAVE_DRM = TRUE
    Capacities = {1, 6, 15}
    Align = 2
    Page = 4
    Word = 16
    Ids = {1, 2, 3}
    Sizes = {2, 4}
    Samples = {0, 100, 128, 255}
    MaxPuts = 3
SPECIFICATION LibrarySpec
INVARIANTS
    SequencesKept
    MemoryKept
    HeldByBuffers
    ConversionsKept
CHECK_DEADLOCK FALSE
