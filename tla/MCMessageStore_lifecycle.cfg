SPECIFICATION Spec
CONSTANTS
    w1 = w1
    w2 = w2
    a1 = a1
    a2 = a2
    h1 = h1
    h2 = h2
    None = None
    Workers = {w1, w2}
    Accounts = {a1, a2}
    Hashes = {h1}
    QuotaMessages = 1
    PurgeGrace = 1
    ReservationTtl = 1
    MaxDocs = 3
    MaxUploads = 0
    MaxFailures = 1
    MaxTime = 1
    QuietAfter = 0
SYMMETRY WorkerSymmetry
INVARIANTS
    TypeOK
    RefCountExact
    BodyKept
    QuotaBound
    LinkWithinRecords
CHECK_DEADLOCK FALSE
