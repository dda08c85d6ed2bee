CONSTANTS
    PacketCount = 2
    FrameCount = 2
    Streams <- PlainStream
    Lossy = FALSE
    MaxPackets = 3
    MaxCmds = 3
SPECIFICATION Spec
INVARIANTS OnlySeekDrops
CHECK_DEADLOCK FALSE
