SPECIFICATION Spec
CHECK_DEADLOCK FALSE
CONSTANTS
    Pty = {p1}
    ai = ai
    ai2 = ai2
    Session = {ai}
    Talking = {p1}
    Longer <- MCLonger
    NoSession = NoSession
    NoPty = NoPty
    KillOnClose = TRUE
    OutputCap = 1
    Combined = TRUE
INVARIANT RunExitKills
