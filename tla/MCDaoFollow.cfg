CONSTANTS
    r1 = r1
    r2 = r2
    r3 = r3
    alice = alice
    bob = bob
    d1 = d1
    d2 = d2
    Requests = {r1, r2, r3}
    Users = {alice, bob}
    Daos = {d1, d2}
    Owner <- MCOwner
    Founder <- MCFounder
    None = None
    MaxTrouble = 1
SPECIFICATION Spec
SYMMETRY Symmetry
CHECK_DEADLOCK FALSE
INVARIANTS
    FollowsCounted
    RowsAgree
    MembersAgree
    ScreensAgree
PROPERTY
    IsMembership
