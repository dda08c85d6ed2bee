CONSTANTS
    app1 = app1
    app2 = app2
    player = player
    Apps = {app1}
    Player = player
    Targets = {0, 4}
    Frames = {4}
    Margin = 2
    HasListener = FALSE
    MaxCmds = 7
    MaxEnds = 1
SPECIFICATION FairSpec
PROPERTY SavedSeekServed
CHECK_DEADLOCK FALSE
