CONSTANTS
    dao = dao
    user = user
    Requests = {r1, r2}
    Senders = {dao, user}
    Kind <- MCKind
    MaxMessages = 2
    MaxTime = 2
    MaxTrouble = 1
SPECIFICATION Spec
SYMMETRY Symmetry
CHECK_DEADLOCK FALSE
INVARIANTS
    MarkKept
    ListExplained
    OrphanExplained
