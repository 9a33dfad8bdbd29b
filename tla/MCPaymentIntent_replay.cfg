CONSTANTS
    Intent = {i1, i2}
    Key = {k1}
    ReplayKey = {k1}
    Request = {r1}
    Sweeper = {s1}
    NoIntent = NoIntent
    NoKey = NoKey
    MaxOpened = 2
    MaxRecovery = 1
    MaxCrash = 1
    Timely = TRUE
SPECIFICATION FairSpec
PROPERTIES InitializingEnds
