CONSTANTS
    Blocks = {1, 2, 3, 4}
    NodesMax = 2
    Buckets = 2
    Keys = {1, 3}
    Values = {"v", "w"}
    Objects = {11, 12, 13}
    Uuids = {21, 22}
    None = 0
    MaxCnt = 3
SPECIFICATION Spec
INVARIANT FreedOnce
CHECK_DEADLOCK FALSE
