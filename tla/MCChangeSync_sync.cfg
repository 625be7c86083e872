SPECIFICATION Spec
CONSTANTS
    Writers = {w1, w2}
    Clients = {c1}
    Pages = {1, 3}
    MaxId = 5
    KeepLast = 2
SYMMETRY SyncSymmetry
INVARIANTS
    TypeOK
    MailSync
    QuerySync
    QresyncSync
    FloorCoversPruned
CHECK_DEADLOCK FALSE
