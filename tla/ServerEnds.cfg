SPECIFICATION FairSpec
CHECK_DEADLOCK FALSE
CONSTANTS
    Conn = {c1}
    Pty = {p1}
    Session = {s1}
    Talking = {p1}
    Longer <- MCNoLonger
    NoSession = NoSession
    NoPty = NoPty
    KillOnClose = TRUE
    OutputCap = 2
INVARIANTS TypeOK ReturnedMeansClosed
PROPERTIES ShellEndsConnection ConnectionEndsShell
