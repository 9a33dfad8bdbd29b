CONSTANTS
    Commission = {1}
    Amount <- OneCommission
    Ask = {2}
    Payout = {p1, p2}
    Handler = {h1, h2}
    Hook = {k1}
    Worker = {w1}
    NoPayout = NoPayout
    AdminFirst = TRUE
    Reversals = TRUE
    Prompt = FALSE
    JobAttempts = 1
    MaxJob = 2
    MaxSent = 1
    MaxCrash = 0
SPECIFICATION Spec
INVARIANTS TypeOK SignedBeforeSent PaidWasConfirmed
PROPERTIES RequestReservesFree ReservedKept
SYMMETRY Symmetry
CHECK_DEADLOCK FALSE
