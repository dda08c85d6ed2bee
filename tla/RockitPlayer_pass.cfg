CONSTANTS
    None = None
    MaxCalls = 2
    MaxWrites = 3
    Chunks = 1
SPECIFICATION FacadeSpec
INVARIANTS
    EndKind
    WrittenIsPlayed
PROPERTY CallsReturn
CHECK_DEADLOCK FALSE
