CONSTANTS
    Sessions = 2
    OS_WINDOWS = TRUE
    NULL = NULL
SPECIFICATION Spec
PROPERTY NodesFoundAreLive
CHECK_DEADLOCK FALSE
