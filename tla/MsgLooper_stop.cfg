CONSTANTS
    s1 = s1
    s2 = s2
    p1 = p1
    looper = looper
    Clients = {p1}
    Looper = looper
    Senders = {}
    Flushers = {}
    Stoppers = {p1}
    Spurious = {}
    Whats = {"cmd"}
    Errs = {"ok", "bad"}
    OK = "ok"
    None = "none"
    MaxPosts = 2
SPECIFICATION FairSpec
PROPERTY StopReturns
CHECK_DEADLOCK FALSE
