SPECIFICATION Spec
CONSTANTS
    Name = {"", "ai", "other", "s1", "s2"}
    Blank = ""
    AgentConn = {a1, a2}
    Client = {c1, c2}
    TheAgent = "ai"
    NoConn = NoConn
    NoClient = NoClient
    a1 = a1
    a2 = a2
    c1 = c1
    c2 = c2
    Token <- MCMixedToken
    FirstMessage <- MCScopedHello
    Kind = {"request_write", "release_write", "input", "focus", "bad", "pass"}
    LockSession = {"s1"}
SYMMETRY MCClientSymmetry
INVARIANTS WriterServes ClientsServed AttachedUnlessOrphaned LawfulInput ToldWhenQuiet
PROPERTIES OldConnectionHarmless ImplementsLease
