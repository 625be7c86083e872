SPECIFICATION FairSpec
CONSTANTS
    alice = alice
    null = null
    b1 = b1
    c1 = c1
    c2 = c2
    None = None
    Senders = {alice}
    NullSender = null
    Bodies = {b1}
    Clients = {c1}
    ActiveRoutes = {"jmap", "vacation"}
    DomainOf <- MCDomainOf
    MaxPerSender = 1
    MaxPerDomain = 2
    BaseBackoff = 1
    MaxBackoff = 2
    RateWindow = 2
    MaxAge = 1
    AttemptLimit = 2
    RefreshInterval = 1
    PurgeGrace = 2
    MaxRecipients = 1
    MaxId = 4
    MaxSubmissions = 1
    MaxTime = 6
    QuietAfter = 1
    MaxMishaps = 1
    MaxAdminOps = 1
    MaxSweeps = 1
    SlowPasses = FALSE
PROPERTIES
    QueueDrains
    ImplementsTransfer
CHECK_DEADLOCK FALSE
