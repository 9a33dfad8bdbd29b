SPECIFICATION FairSpec
CONSTANTS
    e1 = e1
    Session = {s1, s2}
    Email = {e1}
    EmailOf <- SameEmail
    Referred = {s1}
    Handler = {h1}
    Nobody = Nobody
    Direct = Direct
    NoSession = NoSession
    Batch = 1
INVARIANTS TypeOK DualSignature SessionOfUser
PROPERTIES ActivatedOnce UndoneByStaleRead PendingEnds DocumentGoes
