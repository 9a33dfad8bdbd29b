SPECIFICATION FairSpec
CONSTANTS
    payable = payable
    transit = transit
    bank = bank
    Account = {payable, transit, bank}
    DebitNormal = {transit, bank}
    Transaction <- Bookings
    MaxRecorded = 4
    MaxCrash = 1
INVARIANTS TypeOK BooksBalance DriftFromRace
PROPERTIES QuietWriteIsExact DriftHeals
