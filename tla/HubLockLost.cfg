SPECIFICATION Spec
CONSTANTS
    Name = {"", "ai", "other", "s1", "s2"}
    Blank = ""
    AgentConn = {a1, a2}
    Client = {c1}
    TheAgent = "ai"
    NoConn = NoConn
    NoClient = NoClient
    a1 = a1
    a2 = a2
    c1 = c1
    Token <- MCWriterToken
    FirstMessage <- MCWriterHello
    Kind = {"input"}
    LockSession = {"s1"}
PROPERTIES OnlyUnlockUnlocks
