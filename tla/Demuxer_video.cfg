CONSTANTS
    Audio = "audio"
    Video = "video"
    Tracks = {"audio", "video"}
    Stream <- WithVideo
    Durations <- Ones
    Sizes <- Ones
    Targets = {1}
    MaxDuration = 2
    MaxCount = 2
    MaxSize = 4
    ErrLimit = 0
    MaxCmds = 3
SPECIFICATION FairSpec
PROPERTY RoomWhilePlaying
CHECK_DEADLOCK FALSE
