SPECIFICATION FairSpec
CONSTANTS
    w1 = w1
    w2 = w2
    a1 = a1
    a2 = a2
    h1 = h1
    h2 = h2
    None = None
    Workers = {w1,w2}
    Accounts = {a1}
    Hashes = {h1}
    QuotaMessages = 1
    PurgeGrace = 1
    ReservationTtl = 2
    MaxDocs = 1
    MaxUploads = 1
    MaxFailures = 1
    MaxTime = 4
    QuietAfter = 1
INVARIANTS ReservationKeepsBody
PROPERTIES
    UnwantedSwept
CHECK_DEADLOCK FALSE
