CONSTANTS
    FfCount = 1
    HwCount = 2
    PoolMin = 2
    Frames = 2
    MaxRefusals = 1
    MaxStarts = 2
    Delay = 1
    Depth = 2
    BitRates = {1, 7, 100, 119, 120}
    Word = 4096
    None = None
SPECIFICATION Spec
PROPERTY InputReturns
CHECK_DEADLOCK FALSE
