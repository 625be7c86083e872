SPECIFICATION Spec
CONSTANTS
    alice = alice
    null = null
    b1 = b1
    c1 = c1
    c2 = c2
    None = None
    Senders = {alice}
    NullSender = null
    Bodies = {b1}
    Clients = {c1}
    ActiveRoutes = {"submission"}
    DomainOf <- MCDomainOf
    MaxPerSender = 1
    MaxPerDomain = 2
    BaseBackoff = 1
    MaxBackoff = 2
    RateWindow = 2
    MaxAge = 4
    AttemptLimit = 2
    RefreshInterval = 1
    PurgeGrace = 2
    MaxRecipients = 1
    MaxId = 4
    MaxSubmissions = 1
    MaxTime = 4
    QuietAfter = 0
    MaxMishaps = 0
    MaxAdminOps = 0
    MaxSweeps = 1
    SlowPasses = FALSE
INVARIANTS
    RecordHasBody
CHECK_DEADLOCK FALSE
