SPECIFICATION Spec
CONSTANTS
    s1 = s1
    s2 = s2
    u1 = u1
    u2 = u2
    Slots = {s1, s2}
    Users = {u1, u2}
    Owner <- TwoUsers
    Handlers = {h1, h2}
    NoSlot = NoSlot
    Types = {"lucked"}
    Amounts = {2}
    MaxCount = 2
    EarlyClaims = TRUE
    MaxTrouble = 1
INVARIANTS
    SharesCovered
    Books
    ClaimsPaid
PROPERTIES
    ClosedByRefund
CHECK_DEADLOCK FALSE
SYMMETRY Symmetry
