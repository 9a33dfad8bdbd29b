CONSTANTS
    Intent = {i1}
    Key = {1}
    Request = {r1, r2}
    Sweeper = {s1}
    NoIntent = NoIntent
    NoKey = NoKey
    MaxOpened = 1
    MaxRecovery = 0
    MaxCrash = 1
    Timely = TRUE
    Hook = {k1}
    Worker = {w1, w2}
    JobAttempts = 2
    MaxFault = 1
    Swift = TRUE
SPECIFICATION FairSpec
PROPERTIES ProcessingEnds
CHECK_DEADLOCK FALSE
