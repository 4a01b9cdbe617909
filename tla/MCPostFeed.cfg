CONSTANTS
    Requests = {r1, r2}
    Author = alice
    Anonymous = anonymous
    Empty = Empty
    MaxEntries = 1
    Workers = {w1, w2}
    MainSize = 1
    TempSize = 1
    Idle = Idle
    MaxTrouble = 1
SPECIFICATION Spec
SYMMETRY Symmetry
CHECK_DEADLOCK FALSE
INVARIANTS
    PageExplained
    IndexSettled
    SearchShowsPost
