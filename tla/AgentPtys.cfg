SPECIFICATION FairSpec
CHECK_DEADLOCK FALSE
CONSTANTS
    Pty = {p1, p2}
    ai = ai
    ai2 = ai2
    Session = {ai, ai2}
    Talking = {p1}
    Longer <- MCLonger
    NoSession = NoSession
    NoPty = NoPty
    KillOnClose = TRUE
    OutputCap = 1
    Combined = FALSE
INVARIANTS OnePtyPerSession NothingOutlivesConnection ClosedMeansKilled ExitKills
PROPERTIES KillsOnlyItsOwn ClosedEnds RunReturns
