SPECIFICATION Spec
CONSTANTS
    r1 = r1
    r2 = r2
    far = far
    None = None
    Rcpts = {r1, r2, far}
    Remote = {far}
    Modes = {"inbound", "submission"}
    MaxRecipients = 2
    MaxMails = 2
    MaxConnects = 2
    MaxChanges = 1
    MaxFaults = 1
INVARIANTS
    TypeOK
    OneTransaction
    AckAccounts
    RefusalKeepsNothing
CHECK_DEADLOCK FALSE
