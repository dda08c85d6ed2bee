CONSTANTS
    s1 = s1
    s2 = s2
    p1 = p1
    looper = looper
    Clients = {s1}
    Looper = looper
    Senders = {s1}
    Flushers = {}
    Stoppers = {}
    Spurious = {}
    Whats = {"cmd"}
    Errs = {"ok", "bad"}
    OK = "ok"
    None = "none"
    MaxPosts = 2
SPECIFICATION Spec
INVARIANT SendReturnsAnswer
CHECK_DEADLOCK FALSE
