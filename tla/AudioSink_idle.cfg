CONSTANTS
    Frames = 3
    Pieces = 2
    MaxCommands = 4
    MaxErrors = 1
    StopsIdle = TRUE
SPECIFICATION Spec
PROPERTY StartedPlays
CHECK_DEADLOCK FALSE
