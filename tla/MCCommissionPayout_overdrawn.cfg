CONSTANTS
    Commission = {1}
    Amount <- OneCommission
    Ask = {1, 2}
    Payout = {p1, p2}
    Handler = {h1}
    Hook = {k1}
    Worker = {w1}
    NoPayout = NoPayout
    AdminFirst = FALSE
    Reversals = FALSE
    Prompt = TRUE
    JobAttempts = 2
    MaxJob = 1
    MaxSent = 1
    MaxCrash = 0
SPECIFICATION Spec
INVARIANT NeverOverdrawn
CHECK_DEADLOCK FALSE
