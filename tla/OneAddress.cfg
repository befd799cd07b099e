SPECIFICATION FairSpec
CHECK_DEADLOCK FALSE
CONSTANTS
    c1 = c1
    Client = {c1}
    None = None
    Program <- MCProgram
    Origin <- MCOrigin
    MaxStarts = 3
    MaxAge = 60
INVARIANTS TypeOK ConnectedMeansRegistered
PROPERTIES AdmittedInTime SignalEnds AgentConnects
