SPECIFICATION FairSpec
CONSTANTS
    Name = {"", "ai", "other", "s1", "s2"}
    Blank = ""
    AgentConn = {a1, a2}
    Client = {c1, c2}
    TheAgent = "ai"
    NoConn = NoConn
    NoClient = NoClient
    a1 = a1
    a2 = a2
    c1 = c1
    c2 = c2
    Token <- MCTailnetToken
    FirstMessage <- MCAnyHello
    Kind = {"request_write","pass"}
    LockSession = {}
PROPERTIES LeaseFreed HandlersEnd AgentLossEndsClients
