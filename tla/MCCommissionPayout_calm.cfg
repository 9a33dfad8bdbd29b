CONSTANTS
    Commission = {1, 2}
    Amount <- TwoCommissions
    Ask = {2}
    Payout = {p1, p2}
    Handler = {h1}
    Hook = {k1}
    Worker = {w1}
    NoPayout = NoPayout
    AdminFirst = FALSE
    Reversals = FALSE
    Prompt = TRUE
    JobAttempts = 2
    MaxJob = 2
    MaxSent = 2
    MaxCrash = 1
SPECIFICATION FairSpec
PROPERTIES RequestIsFifo InitiatedEnds
CHECK_DEADLOCK FALSE
