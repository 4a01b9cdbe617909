SPECIFICATION DrawSpec
CONSTANTS
    MaxPrice = 12
    MaxNumbers = 5
INVARIANTS
    Exact
    NoneLeftOut
