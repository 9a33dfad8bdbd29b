CONSTANTS
    i1 = i1
    i2 = i2
    m1 = m1
    m2 = m2
    h1 = h1
    k1 = k1
    w1 = w1
    w2 = w2
    Installment = {i1}
    Settlement = {m1, m2}
    Scheduler = Scheduler
    Handler = {h1}
    Hook = {k1}
    Worker = {w1, w2}
    NoSettlement = NoSettlement
    Linked = {m1}
    JobAttempts = 1
    MaxJob = 2
    MaxSent = 2
    MaxCrash = 1
SPECIFICATION FairSpec
INVARIANTS TypeOK PaidOutOnce SuccessWasConfirmed BooksFollowMoney
PROPERTIES  TransferEnds
