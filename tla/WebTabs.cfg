SPECIFICATION FairSpec
CHECK_DEADLOCK FALSE
CONSTANTS
    Base = 2
    Cap = 2000
    Session <- MCSession
    Cfg <- Ai
    Claim <- MCClaim
    MaxActs = 2
    MaxEvents = 1
INVARIANTS TypeOK InputGoesThrough TabsFollowSessions
PROPERTIES BackoffGrows ServedAgain
