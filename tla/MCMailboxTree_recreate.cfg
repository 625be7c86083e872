SPECIFICATION Spec
CONSTANTS
    Actors = {a1}
    Names = {n1}
    Docs = {d1, d2}
    SpamId = 1
    CreatedAt = CreatedAt
    MaxId = 3
    MaxUid = 1
    None = None
INVARIANT
    UidMeansOneMessage
CHECK_DEADLOCK FALSE
