CONSTANTS
    r1 = r1
    r2 = r2
    r3 = r3
    alice = alice
    bob = bob
    phone = phone
    Requests = {r1, r2, r3}
    Users = {alice, bob}
    Owner <- MCOwner
    Calls <- MCCalls
    Devices = {phone}
    None = None
    MaxLoginErrTimes = 1
    MaxIds = 2
    MaxTokens = 2
    MaxTrouble = 1
SPECIFICATION FairSpec
CHECK_DEADLOCK FALSE
INVARIANTS
    WishKept
    SessionsEnd
    NothingLeft
PROPERTY
    DeletionHappens
