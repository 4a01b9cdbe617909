--------------------------- MODULE DaoMembership ---------------------------
(***************************************************************************)
(* What the DAOs promise about membership: who founds a DAO follows it,    *)
(* one follows a DAO that is open, at most once, and a DAO that is         *)
(* dissolved has no followers and is never opened again.  DaoFollow        *)
(* implements it with bookmarks.                                           *)
(***************************************************************************)
CONSTANTS
    Users,
    Daos

VARIABLES
    stage,     \* of each DAO: "unborn", "open" or "gone"
    followers  \* pairs of a user and a DAO

membership == <<stage, followers>>

Open == {d \in Daos : stage[d] = "open"}

TypeOK ==
    /\ stage \in [Daos -> {"unborn", "open", "gone"}]
    /\ followers \subseteq Users \X Daos

\* The initial DAOs have their founders for followers, at least.
Init ==
    /\ stage \in [Daos -> {"unborn", "open"}]
    /\ followers \in SUBSET (Users \X Open)

Found(u, d) ==
    /\ stage[d] = "unborn"
    /\ stage' = [stage EXCEPT ![d] = "open"]
    /\ followers' = followers \cup {<<u, d>>}

Follow(u, d) ==
    /\ d \in Open
    /\ followers' = followers \cup {<<u, d>>}
    /\ UNCHANGED stage

Unfollow(u, d) ==
    /\ followers' = followers \ {<<u, d>>}
    /\ UNCHANGED stage

\* A founder leaves and takes the DAOs along.
Dissolve(ds) ==
    /\ ds \subseteq Open
    /\ stage' = [d \in Daos |-> IF d \in ds THEN "gone" ELSE stage[d]]
    /\ followers' = {p \in followers : p[2] \notin ds}

\* A user leaves.
Forget(u) ==
    /\ followers' = {p \in followers : p[1] # u}
    /\ UNCHANGED stage

Next ==
    \/ \E u \in Users, d \in Daos : Found(u, d) \/ Follow(u, d) \/ Unfollow(u, d)
    \/ \E ds \in SUBSET Daos : Dissolve(ds)
    \/ \E u \in Users : Forget(u)

Spec == Init /\ [][Next]_membership

\* Nobody follows a DAO that is not open.
NoStrayFollower == \A p \in followers : stage[p[2]] = "open"
=============================================================================
