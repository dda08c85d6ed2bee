CONSTANTS
    a1 = a1
    a2 = a2
    c1 = c1
    c2 = c2
    owner1 = owner1
    small = small
    large = large
    Acquirers = {a1}
    Consumers = {c1, c2}
    Owner = owner1
    Buffers = {small, large}
    Size <- SmallAndLarge
    Requests = {2}
    MaxCount = 2
    Nobody = nobody
    NoBuffer = none
    Unborn = unborn
    Free = free
    Gone = gone
SPECIFICATION FairSpec
INVARIANT BuffersKept
PROPERTIES
    NoLeak
    ImplementsLending
    AcquireReturns
