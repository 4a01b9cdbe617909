SPECIFICATION FairSpec
CONSTANTS
    s1 = s1
    s2 = s2
    u1 = u1
    u2 = u2
    Slots = {s1, s2}
    Users = {u1, u2}
    Owner <- OneUser
    Handlers = {h1}
    NoSlot = NoSlot
    Types = {"lucked", "average", "unknown"}
    Amounts = {1}
    MaxCount = 2
    EarlyClaims = FALSE
    MaxTrouble = 1
INVARIANTS
    ClaimOnce
    NoLockout
    PurseTracksBalance
PROPERTIES
    SenderAnswered
    LeftoverReturned
    PaidIsClosed
CHECK_DEADLOCK FALSE
