SPECIFICATION Spec
CONSTANTS
    alice = alice
    null = null
    b1 = b1
    c1 = c1
    c2 = c2
    None = None
    Senders = {alice}
    NullSender = null
    Bodies = {b1}
    Clients = {c1}
    ActiveRoutes = {"submission", "jmap", "relay", "vacation", "overQuota"}
    DomainOf <- MCDomainOf
    MaxPerSender = 1
    MaxPerDomain = 2
    BaseBackoff = 1
    MaxBackoff = 2
    RateWindow = 2
    MaxAge = 1
    AttemptLimit = 2
    RefreshInterval = 1
    PurgeGrace = 9
    MaxRecipients = 2
    MaxId = 4
    MaxSubmissions = 1
    MaxTime = 3
    QuietAfter = 3
    MaxMishaps = 1
    MaxAdminOps = 0
    MaxSweeps = 0
    SlowPasses = TRUE
INVARIANTS
    TypeOK
    NoSilentLoss
    AtMostOneOutcome
    WithinLimits
CHECK_DEADLOCK FALSE
