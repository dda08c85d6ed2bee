CONSTANTS
    app1 = app1
    app2 = app2
    player = player
    Apps = {app1}
    Player = player
    Targets = {0, 4}
    Frames = {4}
    Margin = 2
    HasListener = FALSE
    MaxCmds = 6
    MaxEnds = 1
SPECIFICATION Spec
INVARIANTS StartedDelivers SeekSkippedOnlyNear
CHECK_DEADLOCK FALSE
