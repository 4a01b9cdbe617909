CONSTANTS
    Requests = {r1, r2}
    Handlers = {h1, h2}
    None = None
    MaxTrouble = 1
SPECIFICATION Spec
SYMMETRY Symmetry
CHECK_DEADLOCK FALSE
INVARIANT NeverNil
