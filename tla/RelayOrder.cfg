SPECIFICATION Spec
CHECK_DEADLOCK FALSE
CONSTANTS
    c1 = c1
    c2 = c2
    s1 = s1
    Client = {c1, c2}
    Session = {s1, s2}
    NoSession = NoSession
    Own <- MCOwn
    WireCap = 1
    MaxOut = 3
    MaxIn = 1
    Speaking = {c1, c2}
    Sync = {}
INVARIANTS ExactStream
