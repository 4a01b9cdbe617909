CONSTANTS
    Requests = {r1, r2}
    Handlers = {h1, h2}
    None = None
    MaxTrouble = 1
SPECIFICATION FairSpec
CHECK_DEADLOCK FALSE
INVARIANTS
    HeardIsStored
    ToldIsPaid
    PaidTwiceIsRace
PROPERTIES
    SettledIsStored
    CreatorReleased
