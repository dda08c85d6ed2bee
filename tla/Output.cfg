CONSTANTS
    Frames = 3
    Pieces = 2
    MaxCommands = 4
    MaxErrors = 1
    StopsIdle = FALSE
    Volumes = {0, 30, 70, 120}
    Least = 0
    Greatest = 90
    None = None
    MIN_REF_BUFFER_COUNT = 3
    SwBuffers = 2
    MinUndequeued = 1
    MaxCalls = 4
    Workers = {1, 2}
    Pushers = {o, p}
    Owner = o
    Quota = 2
    max_task_num = 1
    MaxPauses = 1
    NULL = NULL
SPECIFICATION OutputSpec
INVARIANTS
    FramesKept
    MuteRestores
    BlankReplaces
    WaitRunsAll
PROPERTIES
    CompleteOnce
    StopReturns
CHECK_DEADLOCK FALSE
