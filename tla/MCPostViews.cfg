CONSTANTS
    MaxBlocks = 1
    Blockable = {"video", "quote", "da"}
    MaxBlocked = 2
SPECIFICATION Spec
CHECK_DEADLOCK FALSE
INVARIANTS
    VideoShown
    PanicIsLate
    BlockedHidden
