CONSTANTS
    FfCount = 1
    HwCount = 2
    PoolMin = 2
    Frames = 2
    MaxRefusals = 1
    MaxStarts = 2
    Delay = 1
    Depth = 2
    BitRates = {1, 7, 100, 119, 120}
    Word = 4096
    None = None
    NULL = NULL
    Sessions = 2
    OS_WINDOWS = TRUE
    MaxStreams = 3
    Kinds = {"video", "audio", "subtitle"}
    MaxReads = 2
    MaxOpens = 1
    NoPts = NoPts
    Starts <- TheStarts
    Units <- TheUnits
SPECIFICATION NodesSpec
INVARIANT OwnTrackDecoded
CHECK_DEADLOCK FALSE
