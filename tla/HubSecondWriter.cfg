SPECIFICATION Spec
CONSTANTS
    Name = {"", "ai", "other", "s1", "s2"}
    Blank = ""
    AgentConn = {a1}
    Client = {c1, c2}
    TheAgent = "ai"
    NoConn = NoConn
    NoClient = NoClient
    a1 = a1
    c1 = c1
    c2 = c2
    Token <- MCWriterToken
    FirstMessage <- MCWriterHello
    Kind = {"request_write"}
    LockSession = {}
PROPERTIES NoSecondWriter
