SPECIFICATION Spec
CONSTANTS
    alice = alice
    null = null
    b1 = b1
    c1 = c1
    c2 = c2
    None = None
    Senders = {alice}
    NullSender = null
    Bodies = {b1}
    Clients = {c1, c2}
    ActiveRoutes = {"jmap"}
    DomainOf <- MCDomainOf
    MaxPerSender = 1
    MaxPerDomain = 2
    BaseBackoff = 1
    MaxBackoff = 2
    RateWindow = 2
    MaxAge = 1
    AttemptLimit = 2
    RefreshInterval = 1
    PurgeGrace = 1
    MaxRecipients = 1
    MaxId = 6
    MaxSubmissions = 2
    MaxTime = 2
    QuietAfter = 1
    MaxMishaps = 0
    MaxAdminOps = 2
    MaxSweeps = 1
    SlowPasses = FALSE
INVARIANTS
    OneOutcomeInv
    NoLossInv
    FreshRecordHasBody
    NudgeNotLost
CHECK_DEADLOCK FALSE
