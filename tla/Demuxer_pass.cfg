CONSTANTS
    Audio = "audio"
    Video = "video"
    Tracks = {"audio", "video"}
    Stream <- WithPicture
    Durations <- ShortAndLong
    Sizes <- SmallAndLarge
    Targets = {1, 3}
    MaxDuration = 3
    MaxCount = 2
    MaxSize = 4
    ErrLimit = 1
    MaxCmds = 3
SPECIFICATION FairSpec
INVARIANTS
    CacheKept
    SeekServed
PROPERTIES
    CommandReturns
    EndReached
CHECK_DEADLOCK FALSE
