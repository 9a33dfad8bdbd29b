CONSTANTS
    Intent = {i1, i2}
    Key = {1, 2}
    Request = {r1}
    Sweeper = {}
    NoIntent = NoIntent
    NoKey = NoKey
    MaxOpened = 1
    MaxRecovery = 0
    MaxCrash = 0
    Timely = TRUE
    Hook = {k1}
    Worker = {w1, w2}
    JobAttempts = 1
    MaxFault = 0
    Swift = TRUE
SPECIFICATION Spec
INVARIANT CompletedIsPaidUp
CHECK_DEADLOCK FALSE
