CONSTANTS
    PacketCount = 2
    FrameCount = 2
    Streams <- AllStreams
    Lossy = TRUE
    MaxPackets = 3
    MaxCmds = 2
SPECIFICATION Spec
INVARIANTS FramesInOrder StaleBounded BuffersBack
PROPERTIES EndShown StopReturns
CHECK_DEADLOCK FALSE
