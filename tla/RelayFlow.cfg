SPECIFICATION FairSpec
CHECK_DEADLOCK FALSE
CONSTANTS
    c1 = c1
    c2 = c2
    s1 = s1
    Client = {c1, c2}
    Session = {s1}
    NoSession = NoSession
    Own <- MCOwn
    WireCap = 1
    MaxOut = 1
    MaxIn = 1
    Speaking = {c2}
    Sync = {y1}
PROPERTIES OutputArrives NobodyIsStuck
