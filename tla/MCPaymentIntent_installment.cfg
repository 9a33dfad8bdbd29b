CONSTANTS
    Intent = {i1, i2}
    Key = {k1, k2}
    ReplayKey = {}
    Request = {r1, r2}
    Sweeper = {s1}
    NoIntent = NoIntent
    NoKey = NoKey
    MaxOpened = 2
    MaxRecovery = 1
    MaxCrash = 1
    Timely = TRUE
SPECIFICATION Spec
INVARIANTS TypeOK OneActiveIntent HolderHasLink LinkIsCurrent
PROPERTIES EndedIsFinal SweepKeepsLiveIntent ImplementsSlot
SYMMETRY Symmetry
