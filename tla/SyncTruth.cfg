SPECIFICATION FairSpec
CHECK_DEADLOCK FALSE
CONSTANTS
    Call = {r1, r2}
    AgentConn = {a1, a2}
    Client = {c1}
    Session = {s1}
    MaxChanges = 1
    NoConn = NoConn
INVARIANTS AnswerWasTrue PendingIsWaiting RoomForAnswer AloneSyncShowsTruth
PROPERTIES ImplementsQuery CallsEnd
