CONSTANTS
    s1 = s1
    s2 = s2
    p1 = p1
    looper = looper
    Clients = {s1, p1}
    Looper = looper
    Senders = {s1}
    Flushers = {looper}
    Stoppers = {p1}
    Spurious = {looper}
    Whats = {"seek", "cmd"}
    Errs = {"ok", "bad"}
    OK = "ok"
    None = "none"
    MaxPosts = 3
SPECIFICATION FairSpec
INVARIANTS
    NoSleepOnWork
    SendWaitsForHandler
PROPERTIES
    ImplementsMailbox
    SendReturns
CHECK_DEADLOCK FALSE
