SPECIFICATION Spec
CONSTANTS
    w1 = w1
    w2 = w2
    a1 = a1
    a2 = a2
    h1 = h1
    h2 = h2
    None = None
    Workers = {w1, w2}
    Accounts = {a1}
    Hashes = {h1}
    QuotaMessages = 0
    PurgeGrace = 1
    ReservationTtl = 1
    MaxDocs = 2
    MaxUploads = 0
    MaxFailures = 0
    MaxTime = 2
    QuietAfter = 1
INVARIANTS
    DeletionKeepsBody
CHECK_DEADLOCK FALSE
