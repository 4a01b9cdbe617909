CONSTANTS
    r1 = r1
    r2 = r2
    r3 = r3
    alice = alice
    bob = bob
    Requests = {r1, r2, r3}
    Users = {alice, bob}
    Owner <- MCOwner
    Ops = {"star", "view", "comment", "reply", "delcomment", "delreply", "retweet", "quote", "unrepost", "stick", "unpin", "visible", "delete"}
    None = None
    MaxCommentCount = 1
    MaxTrouble = 1
SPECIFICATION Spec
SYMMETRY Symmetry
CHECK_DEADLOCK FALSE
INVARIANTS
    UpvotesCounted
    CommentsCounted
    RefsCounted
    RetweetOnce
    OrphanIsLate
