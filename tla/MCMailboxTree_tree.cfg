SPECIFICATION Spec
CONSTANTS
    Actors = {a1, a2}
    Names = {n1, n2}
    Docs = {d1}
    SpamId = 1
    CreatedAt = CreatedAt
    MaxId = 3
    MaxUid = 1
    None = None
SYMMETRY TreeSymmetry
INVARIANTS
    TypeOK
    IdsFresh
    NoStrandedMail
PROPERTIES
    SharedMailKept
CHECK_DEADLOCK FALSE
