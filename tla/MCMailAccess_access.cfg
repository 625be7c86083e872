SPECIFICATION Spec
CONSTANTS
    d1 = d1
    d2 = d2
    d3 = d3
    Docs = {d1, d2, d3}
    Inbox = inbox
    Folders = {work}
    Imap = {i1}
    Pop3 = {p1}
    Jmap = {j1}
    Mtas = {m1}
    Initial <- TwoStored
    Ranges = {{1}, {1, 2, 3}}
    MaxUid = 3
    MaxOps = 3
    UpdateAttempts = 2
    None = None
SYMMETRY DocSymmetry
INVARIANTS
    TypeOK
    UidOwner
    ViewFollows
PROPERTIES
    StoreMerges
CHECK_DEADLOCK FALSE
