-------------------------- MODULE DaoFollowProofs --------------------------
(***************************************************************************)
(* TLAPS proofs about DaoFollow, for any number of requests, users and     *)
(* DAOs: the invariant IInv is inductive, the counts and rows of followers *)
(* agree with their bookmarks, bookmarks and DAOs implement DaoMembership, *)
(* the screens agree, and the members of the chat groups are the followers.*)
(***************************************************************************)
EXTENDS DaoFollow, FiniteSetTheorems, TLAPS

-----------------------------------------------------------------------------
(* What does not touch the database. *)

\* The steps of a request that change none of the documents keep the invariant, if
\* they leave the other requests and their locks alone.
LEMMA Frame ==
    ASSUME IInv, NEW r \in Requests, TypeOK', Fit(r)',
           UNCHANGED <<dao, book, rows, lost, uneven>>,
           \A q \in Requests \ {r} :
               /\ pc'[q] = pc[q] /\ op'[q] = op[q] /\ target'[q] = target[q]
               /\ copy'[q] = copy[q] /\ todo'[q] = todo[q] /\ missed'[q] = missed[q],
           \A d \in Daos : holder[d] \notin {None, r} => holder'[d] = holder[d]
    PROVE  IInv'
<1>1. ASSUME NEW q \in Requests, q # r PROVE Fit(q)'
    <2> USE <1>1
    <2>1. Fit(q) /\ todo[q] \subseteq Daos
        BY DEF IInv, TypeOK
    <2>2. \A d \in Daos : holder[d] = q => holder'[d] = q
        BY FollowAssumption
    <2>3. \A d : Expects(q, d) => Expects(q, d)'
        BY DEF Expects, Delta, Unfollowing
    <2> QED BY <2>1, <2>2, <2>3 DEF Fit
<1>2. FollowersOfOpen' /\ RowsAgree' /\ FollowsCounted'
    BY DEF IInv, FollowersOfOpen, RowsAgree, FollowsCounted, Live, Open
<1> QED BY <1>1, <1>2 DEF IInv

LEMMA CallKeeps ==
    ASSUME IInv, NEW r \in Requests, NEW d \in Daos \cup {None}, NEW c \in Int,
           NEW o \in {"follow", "unfollow", "update", "create"},
           o # "create" => d \in Daos,
           Call(r, o, d, c)
    PROVE  IInv'
<1> USE DEF Call, Goto, database, chat, locks, history
<1>1. TypeOK'
    BY DEF IInv, TypeOK, Stages
<1>2. Fit(r)'
    BY DEF IInv, TypeOK, Fit
<1> QED BY <1>1, <1>2, Frame DEF IInv, TypeOK

LEMMA CallsKeep ==
    ASSUME IInv, NEW r \in Requests,
           ActionDaoBookmark(r) \/ JoinSubscribed(r) \/ CallUpdate(r) \/ CallCreate(r)
    PROVE  IInv'
<1>1. CASE ActionDaoBookmark(r)
    BY <1>1, CallKeeps DEF ActionDaoBookmark
<1>2. CASE JoinSubscribed(r)
    BY <1>2, CallKeeps DEF JoinSubscribed, Open
<1>3. CASE CallUpdate(r)
    <2>1. PICK d \in GetListByAddress(Owner[r]) : Call(r, "update", d, dao[d].follows)
        BY <1>3 DEF CallUpdate
    <2>2. d \in Daos /\ dao[d].follows \in Int
        BY DEF GetListByAddress, Open, IInv, TypeOK, Dao
    <2> QED BY <2>1, <2>2, CallKeeps
<1>4. CASE CallCreate(r)
    BY <1>4, CallKeeps DEF CallCreate
<1> QED BY <1>1, <1>2, <1>3, <1>4

LEMMA DeleteChatUserKeeps ==
    ASSUME IInv, NEW r \in Requests, DeleteChatUser(r) PROVE IInv'
<1> USE DEF DeleteChatUser, Goto, database, locks
<1>1. TypeOK'
    BY FollowAssumption DEF IInv, TypeOK, Stages
<1>2. Fit(r)'
    BY DEF IInv, TypeOK, Fit
<1> QED BY <1>1, <1>2, Frame DEF IInv, TypeOK

-----------------------------------------------------------------------------
(* The transactions up to their commits. *)

LEMMA BeginKeeps ==
    ASSUME IInv, NEW r \in Requests, RefuseName(r) \/ Begin(r) \/ BeginCreate(r)
    PROVE  IInv'
<1> USE DEF Goto, database, chat, locks, history
<1>0. TypeOK /\ Fit(r)
    BY DEF IInv
<1>1. CASE RefuseName(r)
    <2>1. TypeOK'
        BY <1>0, <1>1 DEF RefuseName, TypeOK, Stages
    <2>2. Fit(r)'
        BY <1>0, <1>1 DEF RefuseName, TypeOK, Fit
    <2> QED BY <1>0, <1>1, <2>1, <2>2, Frame DEF RefuseName, TypeOK
<1>2. CASE Begin(r)
    <2> USE <1>2 DEF Begin
    <2>1. target[r] \in Daos /\ dao[target[r]].follows \in Int /\ op[r] # "none"
        BY <1>0 DEF TypeOK, Fit, Dao
    <2>2. TypeOK'
        <3>1. copy' \in [Requests -> Int]
            BY <1>0, <2>1 DEF TypeOK
        <3> QED BY <1>0, <3>1 DEF TypeOK, Stages
    <2>3. Fit(r)'
        <3>1. CASE Get(target[r])
            <4>1. Expects(r, target[r])'
                BY <3>1, <1>0, <2>1 DEF Get, Open, Expects, Delta, Unfollowing, TypeOK
            <4> QED BY <3>1, <4>1, <1>0, <2>1 DEF Fit, TypeOK
        <3>2. CASE ~Get(target[r])
            BY <3>2, <1>0 DEF Fit, TypeOK
        <3> QED BY <3>1, <3>2
    <2> QED BY <1>0, <2>2, <2>3, Frame DEF TypeOK
<1>3. CASE BeginCreate(r)
    <2>1. PICK d \in Daos \ groups :
              /\ dao[d].stage = "unborn"
              /\ holder[d] = None
              /\ target' = [target EXCEPT ![r] = d]
              /\ holder' = [holder EXCEPT ![d] = r]
        BY <1>3 DEF BeginCreate
    <2> USE <1>3 DEF BeginCreate
    <2>2. TypeOK'
        BY <1>0, <2>1 DEF TypeOK, Stages
    <2>3. Fit(r)'
        BY <1>0, <2>1 DEF Fit, TypeOK, Expects, Unfollowing
    <2> QED BY <1>0, <2>1, <2>2, <2>3, Frame DEF TypeOK
<1> QED BY <1>1, <1>2, <1>3

LEMMA WriteKeeps == ASSUME IInv, NEW r \in Requests, Write(r) PROVE IInv'
<1> USE DEF Write, Goto, database, chat, history
<1>0. TypeOK /\ Fit(r)
    BY DEF IInv
<1>1. target[r] \in Daos /\ op[r] \notin {"none", "create"}
    BY <1>0 DEF Fit
<1>2. CASE Conflict(r, target[r]) \/ r \in bookless
    <2>1. TypeOK'
        BY <1>0, <1>2 DEF TypeOK, Stages
    <2>2. Fit(r)'
        BY <1>0, <1>2 DEF Fit, TypeOK
    <2> QED BY <1>0, <1>2, <2>1, <2>2, Frame DEF TypeOK
<1>3. CASE ~(Conflict(r, target[r]) \/ r \in bookless)
    <2>1. /\ holder[target[r]] = None /\ Expects(r, target[r])
          /\ holder' = [holder EXCEPT ![target[r]] = r]
          /\ pc' = [pc EXCEPT ![r] = "chat"] \/ pc' = [pc EXCEPT ![r] = "commit"]
        BY <1>0, <1>3 DEF Conflict, Fit
    <2>2. TypeOK'
        BY <1>0, <1>1, <2>1 DEF TypeOK, Stages
    <2>3. Fit(r)'
        BY <1>0, <1>1, <2>1 DEF Fit, TypeOK, Expects, Unfollowing, Delta
    <2> QED BY <1>0, <2>1, <2>2, <2>3, Frame DEF TypeOK
<1> QED BY <1>2, <1>3

LEMMA ChatKeeps ==
    ASSUME IInv, NEW r \in Requests,
           JoinOrLeaveGroup(r) \/ CreateChatGroup(r) \/ UpdateChatGroup(r)
    PROVE  IInv'
<1> USE DEF Goto, database, chat, locks, history
<1>0. TypeOK /\ Fit(r) /\ pc[r] = "chat" /\ pc' = [pc EXCEPT ![r] = "commit"]
    BY DEF IInv, JoinOrLeaveGroup, CreateChatGroup, UpdateChatGroup
<1>1. target[r] \in Daos /\ Pair(r) \in Users \X Daos
    BY <1>0, FollowAssumption DEF Fit, Pair
<1>2. UNCHANGED <<op, target, copy, todo, dao, book, rows, persons, holder, missed, bookless,
                  lost, uneven, strayed, faults>>
    BY DEF JoinOrLeaveGroup, CreateChatGroup, UpdateChatGroup
<1>3. groups' \subseteq Daos /\ members' \subseteq Users \X Daos
    BY <1>0, <1>1 DEF TypeOK, JoinOrLeaveGroup, CreateChatGroup, UpdateChatGroup
<1>4. TypeOK'
    BY <1>0, <1>2, <1>3 DEF TypeOK, Stages
<1>5. Fit(r)'
    BY <1>0, <1>2 DEF Fit, TypeOK, Expects, Unfollowing, Delta
<1> QED BY <1>0, <1>2, <1>4, <1>5, Frame DEF TypeOK

\* A transaction that is undone.
LEMMA AbortKeeps ==
    ASSUME IInv, NEW r \in Requests, pc[r] # "idle", Abort(r), TypeOK',
           UNCHANGED <<op, target, copy, todo, dao, book, rows, missed, lost, uneven>>
    PROVE  IInv'
<1> USE DEF Abort, Goto
<1>1. Fit(r)'
    BY DEF IInv, TypeOK, Fit
<1> QED BY <1>1, Frame DEF IInv, TypeOK

LEMMA FailsKeep ==
    ASSUME IInv, NEW r \in Requests, ChatFails(r) \/ CommitFails(r) \/ DropFails(r)
    PROVE  IInv'
<1> USE DEF Abort, Goto, database, chat
<1>0. TypeOK /\ Fit(r)
    BY DEF IInv
<1>1. faults' \in 0..MaxTrouble
    BY <1>0, FollowAssumption DEF TypeOK, ChatFails, CommitFails, DropFails
<1>2. strayed' \subseteq Users \X Daos
    BY <1>0, FollowAssumption DEF TypeOK, Fit, Pair, ChatFails, CommitFails, DropFails
<1>3. pc[r] # "idle" /\ Abort(r)
      /\ UNCHANGED <<op, target, copy, todo, dao, book, rows, groups, members,
                     persons, missed, bookless, lost, uneven>>
    BY DEF ChatFails, CommitFails, DropFails
<1>4. TypeOK'
    BY <1>0, <1>1, <1>2, <1>3 DEF TypeOK, Stages
<1> QED BY <1>3, <1>4, AbortKeeps

-----------------------------------------------------------------------------
(* The commits. *)

FollowersOf(d) == {u \in Users : <<u, d>> \in Live}

\* A commit to the DAOs that a request holds leaves every other one where it may be:
\* who is about to write one of them has missed the commit, and nobody else holds it.
LEMMA OthersFit ==
    ASSUME TypeOK, NEW r \in Requests, NEW q \in Requests, q # r, Fit(q),
           NEW ds \in SUBSET Daos, NEW label,
           \A d \in ds : holder[d] = r,
           \A d \in Daos \ ds : dao'[d] = dao[d],
           Committed(r, ds, label)
    PROVE  Fit(q)'
<1> USE DEF Committed, Written, Goto, chat
<1>1. /\ pc'[q] = pc[q] /\ op'[q] = op[q] /\ target'[q] = target[q]
      /\ copy'[q] = copy[q] /\ todo'[q] = todo[q] /\ todo[q] \subseteq Daos
      /\ pc[q] \in {"write", "dropwrite"} => missed'[q] = missed[q] \cup ds
    BY DEF TypeOK
<1>2. \A d \in Daos \ ds : holder'[d] = holder[d] /\ (Expects(q, d) => Expects(q, d)')
    BY <1>1 DEF Expects, Unfollowing, Delta
<1>3. \A d \in Daos : holder[d] = q => d \notin ds
    OBVIOUS
<1>4. pc[q] \in {"chat", "commit"} => Fit(q)'
    BY <1>1, <1>2, <1>3 DEF Fit
<1>5. pc[q] = "dropcommit" => Fit(q)'
    BY <1>1, <1>2, <1>3 DEF Fit
<1>6. pc[q] = "write" => Fit(q)'
    BY <1>1, <1>2 DEF Fit
<1>7. pc[q] = "dropwrite" => Fit(q)'
    BY <1>1, <1>2 DEF Fit
<1>8. pc[q] \notin {"write", "chat", "commit", "dropwrite", "dropcommit"} => Fit(q)'
    BY <1>1 DEF Fit
<1> QED BY <1>4, <1>5, <1>6, <1>7, <1>8

\* After its commit a request holds nothing.
LEMMA CommittedFits ==
    ASSUME TypeOK, \A q \in Requests : Fit(q), NEW r \in Requests,
           NEW ds \in SUBSET Daos, NEW label \in {"done", "next", "purge"},
           \A d \in ds : holder[d] = r,
           \A d \in Daos \ ds : dao'[d] = dao[d],
           pc[r] # "idle", Committed(r, ds, label)
    PROVE  /\ \A q \in Requests : Fit(q)'
           /\ pc' \in [Requests -> Stages]
           /\ holder' \in [Daos -> Requests \cup {None}]
           /\ missed' \in [Requests -> SUBSET Daos]
           /\ UNCHANGED <<op, target, copy, todo, groups, members, persons, bookless,
                          strayed, faults>>
<1>1. Fit(r)'
    BY DEF Committed, Goto, TypeOK, Fit
<1>2. \A q \in Requests \ {r} : Fit(q)'
    BY OthersFit
<1>3. pc' \in [Requests -> Stages]
    BY DEF Committed, Goto, TypeOK, Stages
<1>4. holder' \in [Daos -> Requests \cup {None}] /\ missed' \in [Requests -> SUBSET Daos]
    BY DEF Committed, Written, TypeOK
<1> QED BY <1>1, <1>2, <1>3, <1>4 DEF Committed, chat

\* What a request at its commit knows.
LEMMA AtCommit ==
    ASSUME IInv, NEW r \in Requests, pc[r] = "commit"
    PROVE  /\ target[r] \in Daos /\ Owner[r] \in Users /\ Pair(r) \in Users \X Daos
           /\ holder[target[r]] = r
           /\ Expects(r, target[r])
           /\ copy[r] \in Int
BY FollowAssumption DEF IInv, TypeOK, Fit, Pair

\* One follower more, or less, of one DAO.
LEMMA FollowersAdded ==
    ASSUME TypeOK, NEW u \in Users, NEW d \in Daos,
           book' = [book EXCEPT ![<<u, d>>] = "live"]
    PROVE  /\ Live' = Live \cup {<<u, d>>}
           /\ \A e \in Daos \ {d} : FollowersOf(e)' = FollowersOf(e)
           /\ <<u, d>> \notin Live =>
                 Cardinality(FollowersOf(d)') = Cardinality(FollowersOf(d)) + 1
<1>1. Live' = Live \cup {<<u, d>>}
    BY DEF TypeOK, Live
<1>2. \A e \in Daos \ {d} : FollowersOf(e)' = FollowersOf(e)
    BY <1>1 DEF FollowersOf
<1>3. ASSUME <<u, d>> \notin Live
      PROVE  Cardinality(FollowersOf(d)') = Cardinality(FollowersOf(d)) + 1
    <2>1. FollowersOf(d)' = FollowersOf(d) \cup {u} /\ u \notin FollowersOf(d)
        BY <1>1, <1>3 DEF FollowersOf
    <2>2. IsFiniteSet(FollowersOf(d))
        BY FS_Subset, FollowAssumption DEF FollowersOf
    <2> QED BY <2>1, <2>2, FS_AddElement
<1> QED BY <1>1, <1>2, <1>3

LEMMA FollowersRemoved ==
    ASSUME TypeOK, NEW u \in Users, NEW d \in Daos,
           book' = [book EXCEPT ![<<u, d>>] = "deleted"]
    PROVE  /\ Live' = Live \ {<<u, d>>}
           /\ \A e \in Daos \ {d} : FollowersOf(e)' = FollowersOf(e)
           /\ <<u, d>> \in Live =>
                 Cardinality(FollowersOf(d)') = Cardinality(FollowersOf(d)) - 1
<1>1. Live' = Live \ {<<u, d>>}
    BY DEF TypeOK, Live
<1>2. \A e \in Daos \ {d} : FollowersOf(e)' = FollowersOf(e)
    BY <1>1 DEF FollowersOf
<1>3. ASSUME <<u, d>> \in Live
      PROVE  Cardinality(FollowersOf(d)') = Cardinality(FollowersOf(d)) - 1
    <2>1. FollowersOf(d)' = FollowersOf(d) \ {u} /\ u \in FollowersOf(d)
        BY <1>1, <1>3 DEF FollowersOf
    <2>2. IsFiniteSet(FollowersOf(d))
        BY FS_Subset, FollowAssumption DEF FollowersOf
    <2>3. /\ Cardinality(FollowersOf(d)) \in Nat
          /\ Cardinality(FollowersOf(d)') \in Nat
          /\ Cardinality(FollowersOf(d)') =
                IF u \in FollowersOf(d) THEN Cardinality(FollowersOf(d)) - 1
                                        ELSE Cardinality(FollowersOf(d))
        BY <2>1, <2>2, FS_RemoveElement, FS_CardinalityType, FS_Subset
    <2> QED BY <2>1, <2>3
<1> QED BY <1>1, <1>2, <1>3

LEMMA CommitFollowKeeps ==
    ASSUME IInv, NEW r \in Requests, CommitFollow(r) PROVE IInv'
<1> USE DEF CommitFollow, Update, MakeBookmark, CreateRow
<1>0. TypeOK /\ (\A q \in Requests : Fit(q)) /\ pc[r] = "commit" /\ op[r] = "follow"
    BY DEF IInv
<1>1. PICK d \in Daos :
      /\ d = target[r] /\ Owner[r] \in Users /\ Pair(r) \in Users \X Daos
      /\ Pair(r) = <<Owner[r], d>> /\ holder[d] = r /\ copy[r] \in Int
      /\ dao[d].stage = "open" /\ copy[r] = dao[d].follows + 1
    BY <1>0, AtCommit DEF Expects, Delta, Pair
<1>2. /\ \A q \in Requests : Fit(q)'
      /\ pc' \in [Requests -> Stages]
      /\ holder' \in [Daos -> Requests \cup {None}]
      /\ missed' \in [Requests -> SUBSET Daos]
      /\ UNCHANGED <<op, target, copy, todo, groups, members, persons, bookless,
                     strayed, faults>>
    <2>1. Committed(r, {d}, "done") /\ \A e \in Daos \ {d} : dao'[e] = dao[e]
        BY <1>0, <1>1 DEF TypeOK
    <2> QED BY <1>0, <1>1, <2>1, CommittedFits
<1>3. TypeOK'
    <2>1. dao' \in [Daos -> Dao]
        BY <1>0, <1>1 DEF TypeOK, Dao
    <2>2. book' \in [Users \X Daos -> {"none", "live", "deleted"}] /\ rows' \subseteq Users \X Daos
        BY <1>0, <1>1 DEF TypeOK
    <2> QED BY <1>0, <1>1, <1>2, <2>1, <2>2 DEF TypeOK
<1>4. /\ Live' = Live \cup {Pair(r)} /\ Pair(r) \notin Live
      /\ \A e \in Daos \ {d} : FollowersOf(e)' = FollowersOf(e)
      /\ Cardinality(FollowersOf(d)') = Cardinality(FollowersOf(d)) + 1
    <2>1. Pair(r) \notin Live
        BY <1>1 DEF IInv, RowsAgree, Open
    <2> QED BY <1>0, <1>1, <2>1, FollowersAdded
<1>5. Open' = Open
    BY <1>0, <1>1 DEF TypeOK, Dao, Open
<1>6. FollowersOfOpen'
    BY <1>0, <1>1, <1>4, <1>5 DEF IInv, FollowersOfOpen, Open, TypeOK, Dao
<1>7. RowsAgree'
    BY <1>1, <1>4, <1>5 DEF IInv, RowsAgree
<1>8. FollowsCounted'
    <2>1. \A e \in Open \ (lost \cup uneven) :
              dao[e].follows = Cardinality(FollowersOf(e))
        BY DEF IInv, FollowsCounted, FollowersOf
    <2>2. \A e \in Daos \ {d} : dao'[e] = dao[e]
        BY <1>0, <1>1 DEF TypeOK
    <2>3. dao'[d].follows = copy[r]
        BY <1>0, <1>1 DEF TypeOK, Dao
    <2>4. \A e \in Open \ (lost' \cup uneven') :
              dao'[e].follows = Cardinality(FollowersOf(e)')
        BY <1>1, <1>4, <2>1, <2>2, <2>3 DEF Open
    <2> QED BY <1>5, <2>4 DEF FollowsCounted, FollowersOf
<1> QED BY <1>2, <1>3, <1>6, <1>7, <1>8 DEF IInv

LEMMA CommitUnfollowKeeps ==
    ASSUME IInv, NEW r \in Requests, CommitUnfollow(r) PROVE IInv'
<1> USE DEF CommitUnfollow, Update, DeleteBookmark, DeleteRow
<1>0. /\ TypeOK /\ (\A q \in Requests : Fit(q)) /\ pc[r] = "commit"
      /\ op[r] \in Unfollowing
    BY DEF IInv
<1>1. PICK d \in Daos :
      /\ d = target[r] /\ Owner[r] \in Users /\ Pair(r) \in Users \X Daos
      /\ Pair(r) = <<Owner[r], d>> /\ holder[d] = r /\ copy[r] \in Int
      /\ dao[d].stage = "open" /\ copy[r] = dao[d].follows - 1
    BY <1>0, AtCommit DEF Expects, Delta, Pair, Unfollowing, IInv, TypeOK, Dao
<1>2. /\ \A q \in Requests : Fit(q)'
      /\ pc' \in [Requests -> Stages]
      /\ holder' \in [Daos -> Requests \cup {None}]
      /\ missed' \in [Requests -> SUBSET Daos]
      /\ UNCHANGED <<op, target, copy, todo, groups, members, persons, bookless,
                     strayed, faults>>
    <2>1. PICK label \in {"done", "next"} : Committed(r, {d}, label)
        <3>1. CASE op[r] = "cancel"
            BY <1>1, <3>1
        <3>2. CASE op[r] # "cancel"
            BY <1>1, <3>2
        <3> QED BY <3>1, <3>2
    <2> QED BY <1>0, <1>1, <2>1, CommittedFits DEF TypeOK
<1>3. TypeOK'
    <2>1. dao' \in [Daos -> Dao]
        BY <1>0, <1>1 DEF TypeOK, Dao
    <2>2. book' \in [Users \X Daos -> {"none", "live", "deleted"}] /\ rows' \subseteq Users \X Daos
        BY <1>0, <1>1 DEF TypeOK
    <2> QED BY <1>0, <1>1, <1>2, <2>1, <2>2 DEF TypeOK
<1>4. /\ Live' = Live \ {Pair(r)}
      /\ \A e \in Daos \ {d} : FollowersOf(e)' = FollowersOf(e)
      /\ Pair(r) \in Live => Cardinality(FollowersOf(d)') = Cardinality(FollowersOf(d)) - 1
    BY <1>0, <1>1, FollowersRemoved
<1>5. Open' = Open
    BY <1>0, <1>1 DEF TypeOK, Dao, Open
<1>6. FollowersOfOpen'
    BY <1>0, <1>1, <1>4, <1>5 DEF IInv, FollowersOfOpen, Open, TypeOK, Dao
<1>7. RowsAgree'
    BY <1>1, <1>4, <1>5 DEF IInv, RowsAgree
<1>8. FollowsCounted'
    <2>1. \A e \in Open \ (lost \cup uneven) :
              dao[e].follows = Cardinality(FollowersOf(e))
        BY DEF IInv, FollowsCounted, FollowersOf
    <2>2. \A e \in Daos \ {d} : dao'[e] = dao[e]
        BY <1>0, <1>1 DEF TypeOK
    <2>3. dao'[d].follows = copy[r]
        BY <1>0, <1>1 DEF TypeOK, Dao
    <2>4. \A e \in Open \ (lost' \cup uneven') :
              dao'[e].follows = Cardinality(FollowersOf(e)')
        BY <1>1, <1>4, <2>1, <2>2, <2>3 DEF Open
    <2> QED BY <1>5, <2>4 DEF FollowsCounted, FollowersOf
<1> QED BY <1>2, <1>3, <1>6, <1>7, <1>8 DEF IInv

LEMMA CommitUpdateKeeps ==
    ASSUME IInv, NEW r \in Requests, CommitUpdate(r) PROVE IInv'
<1> USE DEF CommitUpdate, Update
<1>0. TypeOK /\ (\A q \in Requests : Fit(q)) /\ pc[r] = "commit"
    BY DEF IInv
<1>1. PICK d \in Daos : d = target[r] /\ holder[d] = r /\ copy[r] \in Int
    BY <1>0, AtCommit
<1>2. /\ \A q \in Requests : Fit(q)'
      /\ pc' \in [Requests -> Stages]
      /\ holder' \in [Daos -> Requests \cup {None}]
      /\ missed' \in [Requests -> SUBSET Daos]
      /\ UNCHANGED <<op, target, copy, todo, groups, members, persons, bookless,
                     strayed, faults>>
    BY <1>0, <1>1, CommittedFits DEF TypeOK
<1>3. TypeOK'
    BY <1>0, <1>1, <1>2 DEF TypeOK, Dao
<1>4. \A e \in Daos : dao'[e].stage = dao[e].stage
    BY <1>0, <1>1 DEF TypeOK, Dao
<1>5. Live' = Live /\ Open' = Open
    BY <1>4 DEF Live, Open
<1>6. FollowersOfOpen'
    BY <1>0, <1>4, <1>5 DEF IInv, FollowersOfOpen, TypeOK
<1>7. RowsAgree'
    BY <1>5 DEF IInv, RowsAgree
<1>8. FollowsCounted'
    BY <1>0, <1>1, <1>5 DEF IInv, FollowsCounted, TypeOK, Dao
<1> QED BY <1>2, <1>3, <1>6, <1>7, <1>8 DEF IInv

LEMMA CommitCreateKeeps ==
    ASSUME IInv, NEW r \in Requests, CommitCreate(r) PROVE IInv'
<1> USE DEF CommitCreate, MakeBookmark, CreateRow
<1>0. TypeOK /\ (\A q \in Requests : Fit(q)) /\ pc[r] = "commit" /\ op[r] = "create"
    BY DEF IInv
<1>1. PICK d \in Daos :
      /\ d = target[r] /\ Owner[r] \in Users /\ Pair(r) \in Users \X Daos
      /\ Pair(r) = <<Owner[r], d>> /\ holder[d] = r
      /\ dao[d].stage = "unborn"
    BY <1>0, AtCommit DEF Expects, Pair
<1>2. /\ \A q \in Requests : Fit(q)'
      /\ pc' \in [Requests -> Stages]
      /\ holder' \in [Daos -> Requests \cup {None}]
      /\ missed' \in [Requests -> SUBSET Daos]
      /\ UNCHANGED <<op, target, copy, todo, groups, members, persons, bookless,
                     strayed, faults>>
    BY <1>0, <1>1, CommittedFits DEF TypeOK
<1>3. NewDao(Owner[r]) \in Dao /\ TypeOK'
    BY <1>0, <1>1, <1>2 DEF TypeOK, Dao, NewDao
<1>4. FollowersOf(d) = {}
    BY <1>1 DEF IInv, FollowersOfOpen, FollowersOf, Open
<1>5. /\ Live' = Live \cup {Pair(r)} /\ Pair(r) \notin Live
      /\ \A e \in Daos \ {d} : FollowersOf(e)' = FollowersOf(e)
      /\ Cardinality(FollowersOf(d)') = 1
    <2>1. Pair(r) \notin Live
        BY <1>1, <1>4 DEF FollowersOf
    <2>2. Cardinality(FollowersOf(d)) = 0
        BY <1>4, FS_EmptySet
    <2>3. book' = [book EXCEPT ![<<Owner[r], d>>] = "live"]
        BY <1>1
    <2>4. /\ Live' = Live \cup {<<Owner[r], d>>}
          /\ \A e \in Daos \ {d} : FollowersOf(e)' = FollowersOf(e)
          /\ <<Owner[r], d>> \notin Live =>
                Cardinality(FollowersOf(d)') = Cardinality(FollowersOf(d)) + 1
        BY <1>0, <1>1, <2>3, FollowersAdded
    <2> QED BY <1>1, <2>1, <2>2, <2>4
<1>6. Open' = Open \cup {d} /\ dao'[d].follows = 1
    BY <1>0, <1>1 DEF TypeOK, Dao, Open, NewDao
<1>7. FollowersOfOpen'
    BY <1>0, <1>1, <1>5, <1>6 DEF IInv, FollowersOfOpen, Open, TypeOK, Dao, NewDao
<1>8. RowsAgree'
    <2>1. \A u \in Users : <<u, d>> \notin Live /\ <<u, d>> \notin rows
        BY <1>1, <1>4 DEF FollowersOf, IInv, FollowersOfOpen
    <2> QED BY <1>1, <1>5, <1>6, <2>1 DEF IInv, RowsAgree
<1>9. FollowsCounted'
    <2>1. \A e \in Open \ (lost \cup uneven) :
              dao[e].follows = Cardinality(FollowersOf(e))
        BY DEF IInv, FollowsCounted, FollowersOf
    <2>2. \A e \in Daos \ {d} : dao'[e] = dao[e]
        BY <1>0, <1>1 DEF TypeOK
    <2>3. \A e \in (Open \cup {d}) \ (lost \cup uneven) :
              dao'[e].follows = Cardinality(FollowersOf(e)')
        BY <1>1, <1>5, <1>6, <2>1, <2>2 DEF Open
    <2> QED BY <1>6, <2>3 DEF FollowsCounted, FollowersOf
<1> QED BY <1>2, <1>3, <1>7, <1>8, <1>9 DEF IInv

-----------------------------------------------------------------------------
(* The rest of a cancellation. *)

LEMMA LeaveKeeps ==
    ASSUME IInv, NEW r \in Requests, ListBookmarks(r) \/ LeaveNext(r) PROVE IInv'
<1> USE DEF Goto, database, chat, locks, history
<1>0. TypeOK /\ Fit(r)
    BY DEF IInv
<1>1. CASE ListBookmarks(r)
    <2>1. TypeOK'
        BY <1>0, <1>1 DEF ListBookmarks, FindList, TypeOK, Stages
    <2>2. Fit(r)'
        BY <1>0, <1>1 DEF ListBookmarks, TypeOK, Fit
    <2> QED BY <1>0, <1>1, <2>1, <2>2, Frame DEF ListBookmarks, TypeOK
<1>2. CASE pc[r] = "next" /\ \E d \in todo[r] :
               /\ target' = [target EXCEPT ![r] = d]
               /\ todo' = [todo EXCEPT ![r] = @ \ {d}]
               /\ Goto(r, "begin")
               /\ UNCHANGED <<op, copy, database, chat, locks, history>>
    <2>1. PICK d \in todo[r] :
               /\ target' = [target EXCEPT ![r] = d]
               /\ todo' = [todo EXCEPT ![r] = @ \ {d}]
               /\ Goto(r, "begin")
               /\ UNCHANGED <<op, copy, database, chat, locks, history>>
        BY <1>2
    <2>2. d \in Daos /\ op[r] # "none"
        BY <1>0, <1>2 DEF TypeOK, Fit
    <2>3. TypeOK'
        BY <1>0, <2>1, <2>2 DEF TypeOK, Stages
    <2>4. Fit(r)'
        BY <1>0, <2>1, <2>2 DEF TypeOK, Fit
    <2> QED BY <1>0, <2>1, <2>3, <2>4, Frame DEF TypeOK
<1>3. CASE /\ pc[r] = "next" /\ todo[r] = {} /\ Goto(r, "drop") /\ UNCHANGED <<target, todo>>
           /\ UNCHANGED <<op, copy, database, chat, locks, history>>
    <2>1. TypeOK'
        BY <1>0, <1>3 DEF TypeOK, Stages
    <2>2. Fit(r)'
        BY <1>0, <1>3 DEF TypeOK, Fit
    <2> QED BY <1>0, <1>3, <2>1, <2>2, Frame DEF TypeOK
<1> QED BY <1>1, <1>2, <1>3 DEF LeaveNext

LEMMA DropGroupsKeeps == ASSUME IInv, NEW r \in Requests, DropGroups(r) PROVE IInv'
<1> USE DEF DropGroups, Goto, database, history
<1>0. TypeOK /\ Fit(r)
    BY DEF IInv
<1>1. PICK mine : mine = GetListByAddress(Owner[r])
    OBVIOUS
<1>2. mine \subseteq Open
    BY <1>1 DEF GetListByAddress
<1>3. TypeOK'
    BY <1>0, <1>1, <1>2 DEF TypeOK, Stages, Open
<1>4. Fit(r)'
    BY <1>0, <1>1, <1>2 DEF TypeOK, Fit, Open
<1> QED BY <1>0, <1>3, <1>4, Frame DEF TypeOK

LEMMA DropGroupsFailsKeeps ==
    ASSUME IInv, NEW r \in Requests, DropGroupsFails(r) PROVE IInv'
<1> USE DEF DropGroupsFails, Goto, database, locks
<1>0. TypeOK /\ Fit(r) /\ pc[r] = "drop" /\ pc' = [pc EXCEPT ![r] = "done"]
    BY DEF IInv
<1>1. groups' \subseteq Daos /\ members' \subseteq Users \X Daos
    BY <1>0 DEF TypeOK
<1>2. TypeOK'
    BY <1>0, <1>1, FollowAssumption DEF TypeOK, Stages
<1>3. Fit(r)'
    BY <1>0 DEF TypeOK, Fit
<1> QED BY <1>0, <1>2, <1>3, Frame DEF TypeOK

LEMMA DropWriteKeeps == ASSUME IInv, NEW r \in Requests, DropWrite(r) PROVE IInv'
<1> USE DEF DropWrite, Goto, database, chat, history
<1>0. TypeOK /\ Fit(r)
    BY DEF IInv
<1>1. CASE \E d \in todo[r] : Conflict(r, d)
    <2>1. TypeOK'
        BY <1>0, <1>1 DEF TypeOK, Stages
    <2>2. Fit(r)'
        BY <1>0, <1>1 DEF TypeOK, Fit
    <2> QED BY <1>0, <1>1, <2>1, <2>2, Frame DEF TypeOK
<1>2. CASE ~\E d \in todo[r] : Conflict(r, d)
    <2>1. /\ \A d \in todo[r] : holder[d] = None /\ dao[d].stage = "open"
          /\ holder' = [d \in Daos |-> IF d \in todo[r] THEN r ELSE holder[d]]
          /\ pc' = [pc EXCEPT ![r] = "dropcommit"]
        BY <1>0, <1>2 DEF Conflict, Fit
    <2>2. TypeOK'
        BY <1>0, <2>1 DEF TypeOK, Stages
    <2>3. Fit(r)'
        BY <1>0, <2>1 DEF TypeOK, Fit
    <2>4. \A d \in Daos : holder[d] \notin {None, r} => holder'[d] = holder[d]
        BY <2>1
    <2> QED BY <1>0, <2>1, <2>2, <2>3, <2>4, Frame DEF TypeOK
<1> QED BY <1>1, <1>2

LEMMA DropCommitKeeps == ASSUME IInv, NEW r \in Requests, DropCommit(r) PROVE IInv'
<1> USE DEF DropCommit
<1>0. /\ TypeOK /\ (\A q \in Requests : Fit(q)) /\ pc[r] = "dropcommit"
      /\ \A d \in todo[r] : holder[d] = r /\ dao[d].stage = "open"
    BY DEF IInv, Fit
<1>1. PICK ds \in SUBSET Daos : ds = todo[r]
    BY <1>0 DEF TypeOK
<1>2. /\ \A d \in ds : dao'[d] = [dao[d] EXCEPT !.stage = "gone"]
      /\ \A d \in Daos \ ds : dao'[d] = dao[d]
    BY <1>0, <1>1 DEF TypeOK
<1>3. /\ \A q \in Requests : Fit(q)'
      /\ pc' \in [Requests -> Stages]
      /\ holder' \in [Daos -> Requests \cup {None}]
      /\ missed' \in [Requests -> SUBSET Daos]
      /\ UNCHANGED <<op, target, copy, todo, groups, members, persons, bookless,
                     strayed, faults>>
    BY <1>0, <1>1, <1>2, CommittedFits
<1>4. /\ dao' \in [Daos -> Dao]
      /\ book' \in [Users \X Daos -> {"none", "live", "deleted"}]
      /\ rows' \subseteq Users \X Daos
    BY <1>0, <1>1 DEF TypeOK, Dao
<1>5. TypeOK'
    BY <1>0, <1>3, <1>4 DEF TypeOK
<1>6. Live' = {p \in Live : p[2] \notin ds}
    BY <1>0, <1>1 DEF TypeOK, Live
<1>7. Open' = Open \ ds
    BY <1>0, <1>1, <1>2 DEF TypeOK, Dao, Open
<1>8. FollowersOfOpen'
    <2>1. \A p \in Live' : p[2] \in Open'
        BY <1>6, <1>7 DEF IInv, FollowersOfOpen
    <2>2. \A d \in Daos : dao[d].stage # "unborn" => dao'[d].stage # "unborn"
        BY <1>0, <1>2 DEF TypeOK, Dao
    <2>3. \A p \in rows' : p \in rows /\ p[2] \in Daos
        BY <1>0 DEF TypeOK
    <2> QED BY <2>1, <2>2, <2>3 DEF IInv, FollowersOfOpen
<1>9. RowsAgree'
    <2>1. ASSUME NEW p \in Users \X (Open \ ds) PROVE (p \in rows' <=> p \in rows)
        BY <1>1
    <2> QED BY <1>6, <1>7, <2>1 DEF IInv, RowsAgree
<1>10. FollowsCounted'
    <2>1. ASSUME NEW d \in Open \ ds PROVE FollowersOf(d)' = FollowersOf(d)
        BY <1>6 DEF FollowersOf
    <2>2. \A d \in Open \ (lost \cup uneven) :
              dao[d].follows = Cardinality(FollowersOf(d))
        BY DEF IInv, FollowsCounted, FollowersOf
    <2>3. \A d \in (Open \ ds) \ (lost \cup uneven) :
              dao'[d].follows = Cardinality(FollowersOf(d)')
        BY <1>2, <2>1, <2>2 DEF Open
    <2> QED BY <1>7, <2>3 DEF FollowsCounted, FollowersOf
<1> QED BY <1>3, <1>5, <1>8, <1>9, <1>10 DEF IInv

LEMMA PurgeKeeps == ASSUME IInv, NEW r \in Requests, Purge(r) PROVE IInv'
<1> USE DEF Purge, Goto, chat
<1>0. TypeOK /\ Fit(r) /\ pc[r] = "purge" /\ pc' = [pc EXCEPT ![r] = "done"]
    BY DEF IInv
<1>1. CASE \E q \in Requests : Holding(q, Owner[r])
    <2>1. UNCHANGED <<op, target, copy, todo, database, groups, members, persons, holder,
                      missed, bookless, lost, uneven, strayed, faults>>
        BY <1>1
    <2>2. TypeOK'
        BY <1>0, <2>1 DEF TypeOK, Stages, database
    <2>3. Fit(r)'
        BY <1>0 DEF TypeOK, Fit
    <2> QED BY <1>0, <2>1, <2>2, <2>3, Frame DEF TypeOK, database
<1>2. CASE ~\E q \in Requests : Holding(q, Owner[r])
    <2>1. PICK u \in Users : u = Owner[r]
        BY FollowAssumption
    <2>2. /\ book' = [p \in Users \X Daos |-> IF p[1] = u THEN "none" ELSE book[p]]
          /\ rows' = {p \in rows : p[1] # u}
          /\ bookless' = bookless \cup {q \in Requests : Reading(q, u)}
          /\ uneven' = uneven \cup FindList(u)
          /\ UNCHANGED <<dao, op, target, copy, todo, groups, members, persons, holder,
                         missed, lost, strayed, faults>>
        BY <1>2, <2>1
    <2>3. TypeOK'
        <3>1. book' \in [Users \X Daos -> {"none", "live", "deleted"}]
            BY <1>0, <2>2 DEF TypeOK
        <3>2. uneven' \subseteq Daos
            BY <1>0, <2>2 DEF TypeOK, FindList
        <3> QED BY <1>0, <2>2, <3>1, <3>2 DEF TypeOK, Stages
    <2>4. ASSUME NEW q \in Requests PROVE Fit(q)'
        <3>1. pc'[q] = pc[q] \/ (q = r /\ pc'[q] = "done")
            BY <1>0 DEF TypeOK
        <3>2. \A d : Expects(q, d) => Expects(q, d)'
            BY <2>2 DEF Expects, Delta, Unfollowing
        <3> QED BY <2>2, <3>1, <3>2 DEF IInv, Fit
    <2>5. Live' = {p \in Live : p[1] # u} /\ Open' = Open
        BY <1>0, <2>2 DEF TypeOK, Live, Open
    <2>6. FollowersOfOpen'
        BY <2>2, <2>5 DEF IInv, FollowersOfOpen
    <2>7. RowsAgree'
        BY <2>2, <2>5 DEF IInv, RowsAgree
    <2>8. FollowsCounted'
        <3>1. ASSUME NEW d \in Daos, d \notin FindList(u)
              PROVE  {v \in Users : <<v, d>> \in Live'} = {v \in Users : <<v, d>> \in Live}
            BY <2>5, <3>1 DEF FindList
        <3> QED BY <2>2, <2>5, <3>1 DEF IInv, FollowsCounted, Open
    <2> QED BY <2>3, <2>4, <2>6, <2>7, <2>8 DEF IInv
<1> QED BY <1>1, <1>2

-----------------------------------------------------------------------------
(* The theorems. *)

LEMMA InitHolds == Init => IInv
<1> SUFFICES ASSUME Init PROVE IInv
    OBVIOUS
<1>1. PICK there \in SUBSET Daos :
          /\ dao = [d \in Daos |-> IF d \in there THEN NewDao(Founder[d])
                                   ELSE NotYet(Founder[d])]
          /\ book = [p \in Users \X Daos |-> IF p \in Joined(there) THEN "live" ELSE "none"]
          /\ rows = Joined(there)
          /\ groups = there
          /\ members = Joined(there)
    BY DEF Init
<1>2. TypeOK
    <2>1. \A d \in Daos : NewDao(Founder[d]) \in Dao /\ NotYet(Founder[d]) \in Dao
        BY FollowAssumption DEF NewDao, NotYet, Dao
    <2>2. dao \in [Daos -> Dao] /\ book \in [Users \X Daos -> {"none", "live", "deleted"}]
        BY <1>1, <2>1
    <2>3. rows \subseteq Users \X Daos /\ members \subseteq Users \X Daos
        BY <1>1 DEF Joined
    <2>4. faults \in 0..MaxTrouble
        BY FollowAssumption DEF Init
    <2> QED BY <1>1, <2>2, <2>3, <2>4 DEF Init, TypeOK, Stages
<1>3. \A r \in Requests : Fit(r)
    BY DEF Init, Fit
<1>4. Open = there /\ \A d \in there : dao[d].follows = 1
    BY <1>1 DEF Open, NewDao, NotYet
<1>5. Live = Joined(there)
    BY <1>1 DEF Live, Joined
<1>6. FollowersOfOpen /\ RowsAgree
    <2>1. \A p \in Joined(there) : p[2] \in there /\ dao[p[2]].stage # "unborn"
        BY <1>4 DEF Joined, Open
    <2> QED BY <1>1, <1>4, <1>5, <2>1 DEF FollowersOfOpen, RowsAgree
<1>7. FollowsCounted
    <2>1. ASSUME NEW d \in there PROVE Cardinality({u \in Users : <<u, d>> \in Live}) = 1
        <3>1. {u \in Users : <<u, d>> \in Live} = {Founder[d]}
            BY <1>5, FollowAssumption DEF Joined
        <3> QED BY <3>1, FS_Singleton
    <2> QED BY <1>4, <2>1 DEF FollowsCounted
<1> QED BY <1>2, <1>3, <1>6, <1>7 DEF IInv

LEMMA NextKeeps == IInv /\ [Next]_vars => IInv'
<1> SUFFICES ASSUME IInv, [Next]_vars PROVE IInv'
    OBVIOUS
<1>1. CASE UNCHANGED vars
    <2> USE <1>1 DEF vars, database, chat, request, locks, history
    <2>1. TypeOK'
        BY DEF IInv, TypeOK
    <2>2. \A r \in Requests : Fit(r)'
        BY DEF IInv, Fit, Expects, Delta, Unfollowing
    <2>3. FollowersOfOpen' /\ RowsAgree' /\ FollowsCounted'
        BY DEF IInv, FollowersOfOpen, RowsAgree, FollowsCounted, Live, Open
    <2> QED BY <2>1, <2>2, <2>3 DEF IInv
<1>2. ASSUME NEW r \in Requests, Step(r) PROVE IInv'
    BY <1>2, BeginKeeps, WriteKeeps, ChatKeeps, FailsKeep, CommitFollowKeeps,
       CommitUnfollowKeeps, CommitUpdateKeeps, CommitCreateKeeps, LeaveKeeps,
       DropGroupsKeeps, DropGroupsFailsKeeps, DropWriteKeeps, DropCommitKeeps, PurgeKeeps DEF Step
<1> QED BY <1>1, <1>2, CallsKeep, DeleteChatUserKeeps DEF Next

\* IInv holds in every state: counts, rows and bookmarks agree, who is about to write
\* a DAO has read it as it is or will meet a conflict, and nobody else changes a DAO
\* that a transaction has written.
THEOREM Invariant == Spec => []IInv
BY InitHolds, NextKeeps, PTL DEF Spec

\* Every variable has its type.
THEOREM TypeCorrect == Spec => []TypeOK
BY Invariant, PTL DEF IInv

\* FollowCount is the number of followers, with the exceptions FollowsCounted names.
THEOREM CountsAreRight == Spec => []FollowsCounted
BY Invariant, PTL DEF IInv

\* The rows of chat_group are the followers.
THEOREM RowsAreRight == Spec => []RowsAgree
BY Invariant, PTL DEF IInv

-----------------------------------------------------------------------------
(* The refinement. *)

LEMMA InitImplements == Init => Membership!Init
<1> SUFFICES ASSUME Init PROVE Membership!Init
    OBVIOUS
<1>1. IInv
    BY InitHolds
<1>2. [d \in Daos |-> dao[d].stage] \in [Daos -> {"unborn", "open"}]
    BY DEF Init, NewDao, NotYet
<1>3. Live \subseteq Users \X Membership!Open
    BY <1>1 DEF IInv, FollowersOfOpen, Live, Open, Membership!Open
<1> QED BY <1>2, <1>3 DEF Membership!Init

\* What changes neither a stage nor a bookmark is not seen.
LEMMA Stutters ==
    ASSUME UNCHANGED <<[d \in Daos |-> dao[d].stage], Live>>
    PROVE  [Membership!Next]_Membership!membership
BY DEF Membership!membership

LEMMA StepImplements ==
    ASSUME IInv, [Next]_vars PROVE [Membership!Next]_Membership!membership
<1>0. TypeOK
    BY DEF IInv
<1>1. CASE UNCHANGED <<dao, book>>
    BY <1>1, Stutters DEF Live
<1>2. ASSUME NEW r \in Requests, CommitFollow(r)
      PROVE  [Membership!Next]_Membership!membership
    <2>1. pc[r] = "commit" /\ op[r] = "follow"
        BY <1>2 DEF CommitFollow
    <2>2. PICK d \in Daos : d = target[r] /\ Owner[r] \in Users /\ dao[d].stage = "open"
        BY <2>1, AtCommit DEF Expects
    <2>3. Live' = Live \cup {<<Owner[r], d>>}
        BY <1>0, <1>2, <2>2, FollowersAdded DEF CommitFollow, MakeBookmark, Pair
    <2>4. UNCHANGED [e \in Daos |-> dao[e].stage]
        BY <1>0, <1>2, <2>2 DEF CommitFollow, Update, TypeOK, Dao
    <2>5. Membership!Follow(Owner[r], d)
        BY <2>2, <2>3, <2>4 DEF Membership!Follow, Membership!Open
    <2> QED BY <2>2, <2>5 DEF Membership!Next
<1>3. ASSUME NEW r \in Requests, CommitUnfollow(r)
      PROVE  [Membership!Next]_Membership!membership
    <2>1. pc[r] = "commit"
        BY <1>3 DEF CommitUnfollow
    <2>2. PICK d \in Daos : d = target[r] /\ Owner[r] \in Users
        BY <2>1, AtCommit
    <2>3. Live' = Live \ {<<Owner[r], d>>}
        BY <1>0, <1>3, <2>2, FollowersRemoved DEF CommitUnfollow, DeleteBookmark, Pair
    <2>4. UNCHANGED [e \in Daos |-> dao[e].stage]
        BY <1>0, <1>3, <2>2 DEF CommitUnfollow, Update, TypeOK, Dao
    <2>5. Membership!Unfollow(Owner[r], d)
        BY <2>3, <2>4 DEF Membership!Unfollow
    <2> QED BY <2>2, <2>5 DEF Membership!Next
<1>4. ASSUME NEW r \in Requests, CommitUpdate(r)
      PROVE  [Membership!Next]_Membership!membership
    <2>1. UNCHANGED [e \in Daos |-> dao[e].stage]
        BY <1>0, <1>4 DEF CommitUpdate, Update, TypeOK, Dao
    <2> QED BY <1>4, <2>1, Stutters DEF CommitUpdate, Live
<1>5. ASSUME NEW r \in Requests, CommitCreate(r)
      PROVE  [Membership!Next]_Membership!membership
    <2>1. pc[r] = "commit" /\ op[r] = "create"
        BY <1>5 DEF CommitCreate
    <2>2. PICK d \in Daos : d = target[r] /\ Owner[r] \in Users /\ dao[d].stage = "unborn"
        BY <2>1, AtCommit DEF Expects
    <2>3. Live' = Live \cup {<<Owner[r], d>>}
        BY <1>0, <1>5, <2>2, FollowersAdded DEF CommitCreate, MakeBookmark, Pair
    <2>4. [e \in Daos |-> dao[e].stage]' =
              [[e \in Daos |-> dao[e].stage] EXCEPT ![d] = "open"]
        BY <1>0, <1>5, <2>2 DEF CommitCreate, NewDao, TypeOK, Dao
    <2>5. Membership!Found(Owner[r], d)
        BY <2>2, <2>3, <2>4 DEF Membership!Found
    <2> QED BY <2>2, <2>5 DEF Membership!Next
<1>6. ASSUME NEW r \in Requests, DropCommit(r)
      PROVE  [Membership!Next]_Membership!membership
    <2>1. PICK ds \in SUBSET Daos : ds = todo[r] /\ \A d \in ds : dao[d].stage = "open"
        BY <1>0, <1>6 DEF DropCommit, TypeOK, IInv, Fit
    <2>2. Live' = {p \in Live : p[2] \notin ds}
        BY <1>0, <1>6, <2>1 DEF DropCommit, TypeOK, Live
    <2>3. [e \in Daos |-> dao[e].stage]' =
              [e \in Daos |-> IF e \in ds THEN "gone" ELSE [f \in Daos |-> dao[f].stage][e]]
        BY <1>0, <1>6, <2>1 DEF DropCommit, TypeOK, Dao
    <2>4. Membership!Dissolve(ds)
        BY <2>1, <2>2, <2>3 DEF Membership!Dissolve, Membership!Open
    <2> QED BY <2>4 DEF Membership!Next
<1>7. ASSUME NEW r \in Requests, Purge(r)
      PROVE  [Membership!Next]_Membership!membership
    <2>1. CASE UNCHANGED <<dao, book>>
        BY <2>1, Stutters DEF Live
    <2>2. CASE ~UNCHANGED <<dao, book>>
        <3>1. PICK u \in Users : u = Owner[r]
            BY FollowAssumption
        <3>2. /\ book' = [p \in Users \X Daos |-> IF p[1] = u THEN "none" ELSE book[p]]
              /\ dao' = dao
            BY <1>7, <2>2, <3>1 DEF Purge, database
        <3>3. Live' = {p \in Live : p[1] # u}
            BY <1>0, <3>2 DEF TypeOK, Live
        <3>4. Membership!Forget(u)
            BY <3>2, <3>3 DEF Membership!Forget
        <3> QED BY <3>4 DEF Membership!Next
    <2> QED BY <2>1, <2>2
<1>8. ASSUME NEW r \in Requests, Step(r), ~UNCHANGED <<dao, book>>
      PROVE  \/ CommitFollow(r) \/ CommitUnfollow(r) \/ CommitUpdate(r)
             \/ CommitCreate(r) \/ DropCommit(r) \/ Purge(r)
    BY <1>8 DEF Step, RefuseName, Begin, BeginCreate, Write, JoinOrLeaveGroup,
       CreateChatGroup, UpdateChatGroup, ChatFails, CommitFails, ListBookmarks, LeaveNext,
       DropGroups, DropGroupsFails, DropWrite, DropFails, database
<1>9. ASSUME NEW r \in Requests,
             \/ ActionDaoBookmark(r) \/ JoinSubscribed(r) \/ CallUpdate(r)
             \/ CallCreate(r) \/ DeleteChatUser(r)
      PROVE  UNCHANGED <<dao, book>>
    BY <1>9 DEF ActionDaoBookmark, JoinSubscribed, CallUpdate, CallCreate, DeleteChatUser,
       Call, database
<1>10. CASE UNCHANGED vars
    BY <1>1, <1>10 DEF vars, database
<1> QED BY <1>1, <1>2, <1>3, <1>4, <1>5, <1>6, <1>7, <1>8, <1>9, <1>10 DEF Next

\* Bookmarks and DAOs implement DaoMembership: every commit founds a DAO, changes one
\* membership, dissolves DAOs or forgets a user, whatever the other transactions do.
THEOREM Implements == Spec => IsMembership
<1>1. Init => Membership!Init
    BY InitImplements
<1>2. IInv /\ [Next]_vars => [Membership!Next]_Membership!membership
    BY StepImplements
<1> QED BY <1>1, <1>2, Invariant, PTL DEF Spec, IsMembership, Membership!Spec

-----------------------------------------------------------------------------
(* Screens. *)

\* Pairing every DAO with what is shown of it keeps their number.
LEMMA AsManyShown ==
    ASSUME NEW ds \in SUBSET Daos
    PROVE  Cardinality({Shown(d, TRUE) : d \in ds}) = Cardinality(ds)
<1> DEFINE shown == {Shown(d, TRUE) : d \in ds}
           f == [d \in ds |-> Shown(d, TRUE)]
<1>1. f \in Injection(ds, shown)
    BY DEF Injection, IsInjective, Shown
<1>2. f \in Surjection(ds, shown)
    BY DEF Surjection
<1>3. ExistsBijection(ds, shown)
    BY <1>1, <1>2 DEF ExistsBijection, Bijection
<1>4. IsFiniteSet(ds)
    BY FollowAssumption, FS_Subset
<1> QED BY <1>3, <1>4, FS_Bijection

LEMMA ScreensFromInvariant == IInv => ScreensAgree
<1> SUFFICES ASSUME IInv, NEW u \in Users
             PROVE  /\ \A s \in GetDaoBookmarkList(u) \cup GetMyDaoList(u) :
                          s = GetDaoFormatted(u, s.dao)
                    /\ Cardinality(GetDaoBookmarkList(u)) = CountMark(u)
    BY DEF ScreensAgree
<1>1. \A d \in FindList(u) : dao[d].stage = "open" /\ IsJoinedDAO(u, d)
    BY DEF IInv, FollowersOfOpen, FindList, Live, Open, IsJoinedDAO
<1>2. GetDaoBookmarkList(u) = {Shown(d, TRUE) : d \in FindList(u)}
    BY <1>1 DEF GetDaoBookmarkList
<1>3. Cardinality(GetDaoBookmarkList(u)) = CountMark(u)
    BY <1>2, AsManyShown DEF CountMark, FindList
<1>4. \A d \in FindList(u) : Shown(d, TRUE) = GetDaoFormatted(u, d)
    BY <1>1 DEF GetDaoFormatted
<1>5. \A d \in GetListByAddress(u) : Shown(d, TRUE) = GetDaoFormatted(u, d)
    BY DEF GetDaoFormatted, GetListByAddress
<1>6. \A d : Shown(d, TRUE).dao = d
    BY DEF Shown
<1> QED BY <1>2, <1>3, <1>4, <1>5, <1>6 DEF GetMyDaoList

\* Every screen says the same of whether the user has joined a DAO, and the total of
\* the list of followed DAOs is its length.
THEOREM ScreensSayTheSame == Spec => []ScreensAgree
BY Invariant, ScreensFromInvariant, PTL

-----------------------------------------------------------------------------
(* The members of the groups. *)

\* A step that leaves the chat service and the bookmarks alone, and after which whoever
\* was waiting to be committed still is, or has strayed.
LEMMA QuietKeeps ==
    ASSUME IInv, GroupInv, NEW r \in Requests,
           UNCHANGED <<dao, book, groups, members, persons>>,
           \A q \in Requests \ {r} : pc'[q] = pc[q] /\ op'[q] = op[q] /\ target'[q] = target[q],
           Called(r)',
           strayed \subseteq strayed',
           pc[r] = "commit" /\ op[r] \in {"follow", "unfollow"} => Pair(r) \in strayed'
    PROVE  GroupInv'
<1>1. \A q \in Requests : Called(q)'
    BY DEF GroupInv, Called, Pair
<1>2. Joining \subseteq Joining' \cup strayed'
    BY DEF Joining, Pair
<1>3. Open' = Open /\ Live' = Live
    BY DEF Open, Live
<1> QED BY <1>1, <1>2, <1>3 DEF GroupInv

LEMMA QuietSteps ==
    ASSUME IInv, GroupInv, NEW r \in Requests,
           \/ ActionDaoBookmark(r) \/ JoinSubscribed(r) \/ CallUpdate(r) \/ CallCreate(r)
           \/ RefuseName(r) \/ Begin(r) \/ BeginCreate(r) \/ Write(r)
           \/ UpdateChatGroup(r) \/ ChatFails(r) \/ CommitFails(r)
           \/ ListBookmarks(r) \/ LeaveNext(r) \/ DropWrite(r) \/ DropFails(r)
    PROVE  GroupInv'
<1> USE DEF Goto, database, chat, locks, history
<1>0. TypeOK /\ Fit(r) /\ Called(r)
    BY DEF IInv, GroupInv
<1>1. CASE ActionDaoBookmark(r) \/ JoinSubscribed(r) \/ CallUpdate(r) \/ CallCreate(r)
    <2>1. PICK o, d, c : o \in {"follow", "unfollow", "update", "create"} /\ Call(r, o, d, c)
        BY <1>1 DEF ActionDaoBookmark, JoinSubscribed, CallUpdate, CallCreate
    <2>2. Called(r)'
        BY <1>0, <2>1 DEF Call, Called, TypeOK
    <2> QED BY <1>0, <2>1, <2>2, QuietKeeps DEF Call, TypeOK
<1>2. CASE RefuseName(r)
    <2>1. Called(r)'
        BY <1>0, <1>2 DEF RefuseName, Called, TypeOK
    <2> QED BY <1>0, <1>2, <2>1, QuietKeeps DEF RefuseName, TypeOK
<1>3. CASE Begin(r)
    <2>1. Called(r)'
        BY <1>0, <1>3 DEF Begin, Called, TypeOK
    <2> QED BY <1>0, <1>3, <2>1, QuietKeeps DEF Begin, TypeOK
<1>4. CASE BeginCreate(r)
    <2>1. Called(r)'
        BY <1>0, <1>4 DEF BeginCreate, Called, TypeOK
    <2> QED BY <1>0, <1>4, <2>1, QuietKeeps DEF BeginCreate, TypeOK
<1>5. CASE Write(r)
    <2>1. Called(r)'
        BY <1>0, <1>5 DEF Write, Called, TypeOK, Fit
    <2> QED BY <1>0, <1>5, <2>1, QuietKeeps DEF Write, TypeOK
<1>6. CASE UpdateChatGroup(r)
    <2>1. Called(r)'
        BY <1>0, <1>6 DEF UpdateChatGroup, Called, TypeOK
    <2> QED BY <1>0, <1>6, <2>1, QuietKeeps DEF UpdateChatGroup, TypeOK
<1>7. CASE ChatFails(r)
    <2>1. Called(r)'
        BY <1>0, <1>7 DEF ChatFails, Abort, Called, TypeOK
    <2> QED BY <1>0, <1>7, <2>1, QuietKeeps DEF ChatFails, Abort, TypeOK
<1>8. CASE CommitFails(r)
    <2>1. Called(r)'
        BY <1>0, <1>8 DEF CommitFails, Abort, Called, TypeOK
    <2> QED BY <1>0, <1>8, <2>1, QuietKeeps DEF CommitFails, Abort, TypeOK
<1>9. CASE ListBookmarks(r)
    <2>1. Called(r)'
        BY <1>0, <1>9 DEF ListBookmarks, Called, TypeOK
    <2> QED BY <1>0, <1>9, <2>1, QuietKeeps DEF ListBookmarks, TypeOK
<1>10. CASE LeaveNext(r)
    <2>1. Called(r)'
        BY <1>0, <1>10 DEF LeaveNext, Called, TypeOK
    <2> QED BY <1>0, <1>10, <2>1, QuietKeeps DEF LeaveNext, TypeOK
<1>11. CASE DropWrite(r)
    <2>1. Called(r)'
        BY <1>0, <1>11 DEF DropWrite, Called, TypeOK
    <2> QED BY <1>0, <1>11, <2>1, QuietKeeps DEF DropWrite, TypeOK
<1>12. CASE DropFails(r)
    <2>1. Called(r)'
        BY <1>0, <1>12 DEF DropFails, Abort, Called, TypeOK
    <2> QED BY <1>0, <1>12, <2>1, QuietKeeps DEF DropFails, Abort, TypeOK
<1> QED BY <1>1, <1>2, <1>3, <1>4, <1>5, <1>6, <1>7, <1>8, <1>9, <1>10, <1>11, <1>12

\* Nobody else is between the call and the commit with the DAO that a request holds.
LEMMA NobodyElse ==
    ASSUME IInv, NEW r \in Requests, pc[r] \in {"chat", "commit"},
           NEW q \in Requests \ {r}, pc[q] \in {"chat", "commit"}
    PROVE  target[q] # target[r]
BY DEF IInv, Fit

\* The chat service forgets a user, or some of the groups of open DAOs.
LEMMA ForgottenKeeps ==
    ASSUME IInv, GroupInv, NEW r \in Requests,
           NEW us \in SUBSET Users, NEW ds \in SUBSET Open,
           persons' = persons \ us, groups' = groups \ ds,
           members' = {p \in members : p[1] \notin us /\ p[2] \notin ds},
           UNCHANGED <<dao, book, strayed, target>>,
           \A q \in Requests \ {r} : pc'[q] = pc[q] /\ op'[q] = op[q],
           pc[r] # "commit", Called(r)'
    PROVE  GroupInv'
<1>0. TypeOK /\ Open' = Open /\ Live' = Live
    BY DEF IInv, Open, Live
<1>1. ASSUME NEW q \in Requests \ {r} PROVE Called(q)'
    <2>1. Called(q) /\ Fit(q) /\ pc'[q] = pc[q] /\ op'[q] = op[q] /\ Pair(q)' = Pair(q)
        BY DEF GroupInv, IInv, Pair
    <2>2. Pair(q) \in members /\ Pair(q)[1] \notin us /\ Pair(q)[2] \notin ds
             => Pair(q) \in members'
        OBVIOUS
    <2>3. op[q] = "create" /\ pc[q] = "commit" => target[q] \notin ds
        BY <2>1 DEF Fit, Expects, Open
    <2>4. Pair(q)[1] = Owner[q] /\ Pair(q)[2] = target[q] /\ Owner[q] \in Users
        BY FollowAssumption DEF Pair
    <2>5. pc[q] = "commit" /\ op[q] = "create" => Called(q)'
        BY <2>1, <2>2, <2>3, <2>4 DEF Called
    <2>6. pc[q] = "commit" /\ op[q] # "create" => Called(q)'
        BY <2>1, <2>2, <2>4 DEF Called
    <2>7. pc[q] # "commit" => Called(q)'
        BY <2>1 DEF Called
    <2> QED BY <2>5, <2>6, <2>7
<1>2. \A p \in members' : p[2] \in groups'
    BY DEF GroupInv
<1>3. Joining \subseteq Joining'
    BY DEF Joining, Pair
<1>4. \A p \in (persons' \X (Open \cap groups')) \ (strayed' \cup Joining') :
          p \in Live <=> p \in members'
    BY <1>0, <1>3 DEF GroupInv
<1> QED BY <1>0, <1>1, <1>2, <1>4 DEF GroupInv

LEMMA ForgetSteps ==
    ASSUME IInv, GroupInv, NEW r \in Requests,
           DeleteChatUser(r) \/ DropGroups(r) \/ DropGroupsFails(r)
    PROVE  GroupInv'
<1> USE DEF Goto, database, locks, history
<1>0. TypeOK /\ Called(r)
    BY DEF IInv, GroupInv
<1>1. CASE DeleteChatUser(r) /\ pc' = [pc EXCEPT ![r] = "list"]
    <2>1. Called(r)'
        BY <1>0, <1>1 DEF DeleteChatUser, Called, TypeOK
    <2>2. PICK us \in SUBSET Users, ds \in SUBSET Open : us = {Owner[r]} /\ ds = {}
        BY FollowAssumption
    <2>3. /\ persons' = persons \ us /\ groups' = groups \ ds
          /\ members' = {p \in members : p[1] \notin us /\ p[2] \notin ds}
        BY <1>0, <1>1, <2>2 DEF DeleteChatUser, TypeOK
    <2>4. /\ UNCHANGED <<dao, book, strayed, target>>
          /\ \A q \in Requests \ {r} : pc'[q] = pc[q] /\ op'[q] = op[q]
          /\ pc[r] # "commit"
        BY <1>0, <1>1 DEF DeleteChatUser, TypeOK
    <2> QED BY <2>1, <2>3, <2>4, ForgottenKeeps
<1>2. CASE DeleteChatUser(r) /\ pc' # [pc EXCEPT ![r] = "list"]
    <2>1. Called(r)'
        BY <1>0, <1>2 DEF DeleteChatUser, Called, TypeOK
    <2> QED BY <1>0, <1>2, <2>1, QuietKeeps DEF DeleteChatUser, TypeOK
<1>3. CASE DropGroups(r) \/ DropGroupsFails(r)
    <2>1. PICK ds \in SUBSET Open :
              groups' = groups \ ds /\ members' = {p \in members : p[2] \notin ds}
        BY <1>3 DEF DropGroups, DropGroupsFails, GetListByAddress
    <2>2. /\ UNCHANGED <<dao, book, strayed, target, op, persons>>
          /\ \A q \in Requests \ {r} : pc'[q] = pc[q]
          /\ pc[r] # "commit"
        BY <1>0, <1>3 DEF DropGroups, DropGroupsFails, TypeOK
    <2>3. Called(r)'
        <3>1. pc[r] = "drop" /\ pc'[r] \in {"purge", "dropwrite", "done"}
            BY <1>0, <1>3 DEF DropGroups, DropGroupsFails, TypeOK
        <3> QED BY <1>0, <2>2, <3>1 DEF Called
    <2>4. PICK us \in SUBSET Users : us = {}
        OBVIOUS
    <2>5. /\ persons' = persons \ us
          /\ members' = {p \in members : p[1] \notin us /\ p[2] \notin ds}
        BY <2>1, <2>2, <2>4
    <2> QED BY <2>1, <2>2, <2>3, <2>5, ForgottenKeeps
<1> QED BY <1>1, <1>2, <1>3

LEMMA JoinOrLeaveKeeps ==
    ASSUME IInv, GroupInv, NEW r \in Requests, JoinOrLeaveGroup(r) PROVE GroupInv'
<1> USE DEF JoinOrLeaveGroup, Goto, database, locks, history
<1>0. TypeOK /\ Called(r) /\ Open' = Open /\ Live' = Live
    BY DEF IInv, GroupInv, Open, Live
<1>1. /\ UNCHANGED <<op, target, groups, persons, strayed>>
      /\ \A q \in Requests : Pair(q)' = Pair(q)
      /\ pc[r] = "chat" /\ pc'[r] = "commit" /\ \A q \in Requests \ {r} : pc'[q] = pc[q]
      /\ op[r] \in {"follow", "unfollow"} /\ target[r] \in groups
    BY <1>0 DEF TypeOK, Pair
<1>2. \A p : p # Pair(r) => (p \in members' <=> p \in members)
    OBVIOUS
<1>3. ASSUME NEW q \in Requests \ {r} PROVE Called(q)'
    <2>1. pc[q] = "commit" => \A u : <<u, target[q]>> # Pair(r)
        BY <1>1, NobodyElse DEF Pair
    <2> QED BY <1>1, <1>2, <2>1 DEF GroupInv, Called, Pair
<1>4. Called(r)'
    <2>1. CASE op[r] = "follow"
        BY <1>0, <1>1, <2>1 DEF Called
    <2>2. CASE op[r] = "unfollow"
        BY <1>0, <1>1, <2>2 DEF Called
    <2> QED BY <1>1, <2>1, <2>2
<1>5. \A p \in members' : p[2] \in groups'
    BY <1>1 DEF GroupInv, Pair
<1>6. Joining \subseteq Joining' /\ Pair(r) \in Joining'
    BY <1>1 DEF Joining
<1>7. \A p \in (persons' \X (Open' \cap groups')) \ (strayed' \cup Joining') :
          p \in Live' <=> p \in members'
    BY <1>0, <1>1, <1>2, <1>6 DEF GroupInv
<1> QED BY <1>3, <1>4, <1>5, <1>7 DEF GroupInv

LEMMA CreateChatGroupKeeps ==
    ASSUME IInv, GroupInv, NEW r \in Requests, CreateChatGroup(r) PROVE GroupInv'
<1> USE DEF CreateChatGroup, Goto, database, locks, history
<1>0. TypeOK /\ Called(r) /\ Open' = Open /\ Live' = Live
    BY DEF IInv, GroupInv, Open, Live
<1>1. /\ UNCHANGED <<op, target, persons, strayed>> /\ \A q \in Requests : Pair(q)' = Pair(q)
      /\ pc[r] = "chat" /\ pc'[r] = "commit" /\ \A q \in Requests \ {r} : pc'[q] = pc[q]
      /\ op[r] = "create"
    BY <1>0 DEF TypeOK, Pair
<1>2. PICK d \in Daos :
          /\ d = target[r] /\ Pair(r) = <<Owner[r], d>> /\ d \notin Open /\ d \notin groups
          /\ groups' = groups \cup {d} /\ members' = members \cup {<<Owner[r], d>>}
    BY <1>0, <1>1 DEF IInv, Fit, Expects, Open, Called, Pair
<1>3. \A p : p[2] # d => (p \in members' <=> p \in members)
    BY <1>2
<1>4. ASSUME NEW q \in Requests \ {r} PROVE Called(q)'
    <2>1. pc[q] \in {"chat", "commit"} => target[q] # d
        BY <1>1, <1>2, NobodyElse
    <2> QED BY <1>1, <1>2, <1>3, <2>1 DEF GroupInv, Called, Pair
<1>5. Called(r)'
    <2>1. \A u \in Users : <<u, d>> \notin members
        BY <1>2 DEF GroupInv
    <2> QED BY <1>0, <1>1, <1>2, <2>1 DEF Called
<1>6. \A p \in members' : p[2] \in groups'
    BY <1>2 DEF GroupInv
<1>7. Joining \subseteq Joining'
    BY <1>1 DEF Joining
<1>8. \A p \in (persons' \X (Open' \cap groups')) \ (strayed' \cup Joining') :
          p \in Live' <=> p \in members'
    BY <1>0, <1>1, <1>2, <1>3, <1>7 DEF GroupInv
<1> QED BY <1>4, <1>5, <1>6, <1>8 DEF GroupInv

\* A commit tells the chat service nothing; the one who made it waits no longer.
LEMMA CommittedCalled ==
    ASSUME IInv, GroupInv, NEW r \in Requests, NEW ds, NEW label \in {"done", "next", "purge"},
           Committed(r, ds, label), label # "done" => op[r] = "cancel" /\ pc[r] # "done"
    PROVE  /\ \A q \in Requests : Called(q)'
           /\ \A p \in members' : p[2] \in groups'
           /\ Joining \subseteq Joining' \cup {Pair(r)}
           /\ pc[r] # "commit" => Joining \subseteq Joining'
           /\ UNCHANGED <<groups, members, persons, strayed>>
<1> USE DEF Committed, Goto, chat
<1>0. TypeOK
    BY DEF IInv
<1>1. /\ UNCHANGED <<op, target, groups, members, persons, strayed>>
      /\ pc'[r] = label /\ \A q \in Requests \ {r} : pc'[q] = pc[q]
    BY <1>0 DEF TypeOK
<1>2. \A q \in Requests : Called(q)'
    BY <1>1 DEF GroupInv, Called, Pair
<1>3. Joining \subseteq Joining' \cup {Pair(r)} /\ (pc[r] # "commit" => Joining \subseteq Joining')
    BY <1>1 DEF Joining, Pair
<1>4. \A p \in members' : p[2] \in groups'
    BY <1>1 DEF GroupInv
<1> QED BY <1>1, <1>2, <1>3, <1>4

LEMMA CommitsKeep ==
    ASSUME IInv, GroupInv, NEW r \in Requests,
           CommitFollow(r) \/ CommitUnfollow(r) \/ CommitUpdate(r) \/ CommitCreate(r)
    PROVE  GroupInv'
<1>0. TypeOK /\ Called(r) /\ pc[r] = "commit"
    BY DEF IInv, GroupInv, CommitFollow, CommitUnfollow, CommitUpdate, CommitCreate
<1>1. PICK d \in Daos :
      /\ d = target[r] /\ Owner[r] \in Users /\ Pair(r) \in Users \X Daos
      /\ Pair(r) = <<Owner[r], d>> /\ Expects(r, d)
    BY <1>0, AtCommit DEF Pair
<1>2. /\ \A q \in Requests : Called(q)'
      /\ \A p \in members' : p[2] \in groups'
      /\ Joining \subseteq Joining' \cup {Pair(r)}
      /\ UNCHANGED <<groups, members, persons, strayed>>
    <2>1. PICK label \in {"done", "next"} :
              Committed(r, {target[r]}, label) /\ (label # "done" => op[r] = "cancel")
        BY DEF CommitFollow, CommitUnfollow, CommitUpdate, CommitCreate
    <2> QED BY <1>0, <2>1, CommittedCalled
\* What is left to show of each: whose bookmark changed is, or is not, in the group.
<1>3. SUFFICES ASSUME NEW p \in persons \X (Open' \cap groups), p \notin strayed \cup Joining'
               PROVE  p \in Live' <=> p \in members
    BY <1>2 DEF GroupInv
<1>4. p \in Users \X Daos /\ (p # Pair(r) /\ p[2] \in Open => (p \in Live <=> p \in members))
    BY <1>0, <1>2, <1>3 DEF GroupInv, TypeOK, Open
<1>5. CASE CommitFollow(r)
    <2>1. Live' = Live \cup {Pair(r)} /\ Open' = Open /\ op[r] = "follow"
        <3>1. Live' = Live \cup {Pair(r)} /\ op[r] = "follow"
            BY <1>0, <1>1, <1>5, FollowersAdded DEF CommitFollow, MakeBookmark
        <3>2. Open' = Open
            BY <1>0, <1>1, <1>5 DEF CommitFollow, Update, Open, TypeOK, Dao
        <3> QED BY <3>1, <3>2
    <2> QED BY <1>0, <1>1, <1>3, <1>4, <2>1 DEF Called
<1>6. CASE CommitUnfollow(r)
    <2>1. Live' = Live \ {Pair(r)} /\ Open' = Open /\ op[r] \in Unfollowing
        <3>1. Live' = Live \ {Pair(r)} /\ op[r] \in Unfollowing
            BY <1>0, <1>1, <1>6, FollowersRemoved DEF CommitUnfollow, DeleteBookmark
        <3>2. Open' = Open
            BY <1>0, <1>1, <1>6 DEF CommitUnfollow, Update, Open, TypeOK, Dao
        <3> QED BY <3>1, <3>2
    <2> QED BY <1>0, <1>1, <1>3, <1>4, <2>1 DEF Called, Unfollowing
<1>7. CASE CommitUpdate(r)
    <2>1. Live' = Live /\ Open' = Open /\ op[r] = "update" /\ UNCHANGED <<op, target>>
        BY <1>0, <1>1, <1>7 DEF CommitUpdate, Committed, Update, Live, Open, TypeOK, Dao
    <2>2. Joining \subseteq Joining'
        <3>1. \A q \in Requests \ {r} : pc'[q] = pc[q]
            BY <1>0, <1>7 DEF CommitUpdate, Committed, Goto, TypeOK
        <3> QED BY <2>1, <3>1 DEF Joining, Pair
    <2> QED BY <1>3, <2>1, <2>2 DEF GroupInv
<1>8. CASE CommitCreate(r)
    <2>1. Live' = Live \cup {Pair(r)} /\ op[r] = "create"
        BY <1>0, <1>1, <1>8, FollowersAdded DEF CommitCreate, MakeBookmark
    <2>2. Open' = Open \cup {d}
        BY <1>0, <1>1, <1>8 DEF CommitCreate, NewDao, Open, TypeOK, Dao
    <2>3. CASE p[2] # d
        BY <1>1, <1>3, <1>4, <2>1, <2>2, <2>3
    <2>4. CASE p[2] = d /\ p # Pair(r)
        <3>1. p \notin Live
            BY <1>1, <2>1, <2>4 DEF IInv, FollowersOfOpen, Expects, Open
        <3>2. p = <<p[1], d>> /\ p[1] \in Users \ {Owner[r]}
            BY <1>1, <1>4, <2>4
        <3>3. p \notin members
            BY <1>0, <1>1, <2>1, <3>2 DEF Called
        <3> QED BY <2>1, <2>4, <3>1, <3>3
    <2>5. CASE p = Pair(r)
        BY <1>0, <1>1, <1>3, <2>1, <2>5 DEF Called
    <2> QED BY <2>3, <2>4, <2>5
<1> QED BY <1>5, <1>6, <1>7, <1>8

LEMMA DropCommitAgrees ==
    ASSUME IInv, GroupInv, NEW r \in Requests, DropCommit(r) PROVE GroupInv'
<1>0. TypeOK /\ pc[r] = "dropcommit" /\ op[r] = "cancel"
    BY DEF IInv, GroupInv, Called, DropCommit
<1>1. /\ \A q \in Requests : Called(q)'
      /\ \A p \in members' : p[2] \in groups'
      /\ Joining \subseteq Joining'
      /\ UNCHANGED <<groups, members, persons, strayed>>
    BY <1>0, CommittedCalled DEF DropCommit
<1>2. PICK ds \in SUBSET Daos : ds = todo[r]
    BY <1>0 DEF TypeOK
<1>3. Live' = {p \in Live : p[2] \notin ds} /\ Open' = Open \ ds
    BY <1>0, <1>2 DEF DropCommit, TypeOK, Dao, Live, Open
<1> QED BY <1>1, <1>3 DEF GroupInv

LEMMA PurgeAgrees == ASSUME IInv, GroupInv, NEW r \in Requests, Purge(r) PROVE GroupInv'
<1> USE DEF Purge, Goto, chat
<1>0. TypeOK /\ Owner[r] \notin persons
    BY DEF IInv, GroupInv, Called
<1>1. /\ UNCHANGED <<dao, op, target, groups, members, persons, strayed>>
      /\ pc'[r] = "done" /\ \A q \in Requests \ {r} : pc'[q] = pc[q]
    BY <1>0 DEF TypeOK, database
<1>2. \A q \in Requests : Called(q)'
    BY <1>1 DEF GroupInv, Called, Pair
<1>3. Joining \subseteq Joining' /\ Open' = Open
    BY <1>1 DEF Joining, Pair, Open
<1>4. \A p \in Users \X Daos : p[1] # Owner[r] => (p \in Live' <=> p \in Live)
    BY <1>0 DEF TypeOK, Live, database
<1>5. \A p \in (persons \X (Open \cap groups)) \ (strayed \cup Joining') :
          p \in Live' <=> p \in members
    BY <1>0, <1>3, <1>4 DEF GroupInv, TypeOK, Open
<1> QED BY <1>1, <1>2, <1>3, <1>5 DEF GroupInv

LEMMA GroupInitHolds == Init => GroupInv
<1> SUFFICES ASSUME Init PROVE GroupInv
    OBVIOUS
<1>1. PICK there \in SUBSET Daos :
          /\ dao = [d \in Daos |-> IF d \in there THEN NewDao(Founder[d])
                                   ELSE NotYet(Founder[d])]
          /\ book = [p \in Users \X Daos |-> IF p \in Joined(there) THEN "live" ELSE "none"]
          /\ groups = there
          /\ members = Joined(there)
    BY DEF Init
<1>2. Live = members /\ \A p \in members : p[2] \in groups
    BY <1>1 DEF Live, Joined
<1>3. \A r \in Requests : Called(r)
    BY DEF Init, Called
<1> QED BY <1>2, <1>3 DEF GroupInv

LEMMA GroupNextKeeps == IInv /\ GroupInv /\ [Next]_vars => GroupInv'
<1> SUFFICES ASSUME IInv, GroupInv, [Next]_vars PROVE GroupInv'
    OBVIOUS
<1>1. CASE UNCHANGED vars
    BY <1>1 DEF vars, database, chat, request, locks, history, GroupInv, Called, Joining,
       Pair, Live, Open
<1>2. ASSUME NEW r \in Requests, Step(r) PROVE GroupInv'
    BY <1>2, QuietSteps, ForgetSteps, JoinOrLeaveKeeps, CreateChatGroupKeeps, CommitsKeep,
       DropCommitAgrees, PurgeAgrees DEF Step
<1> QED BY <1>1, <1>2, QuietSteps, ForgetSteps DEF Next

\* Between the call of the chat service and the commit nobody else joins or leaves, the
\* group of a new DAO has its owner alone, and outside of that the members of a group
\* are the followers.
THEOREM GroupInvariant == Spec => []GroupInv
BY Invariant, GroupInitHolds, GroupNextKeeps, PTL DEF Spec

\* Followers are in the group of their DAO and nobody else is, except during a commit
\* and for those whose commit was undone after the chat service had done its part.
THEOREM GroupsAreRight == Spec => []MembersAgree
<1>1. IInv /\ GroupInv => MembersAgree
    <2> SUFFICES ASSUME IInv, GroupInv PROVE MembersAgree
        OBVIOUS
    <2>1. Joining \subseteq Committing
        BY FollowAssumption DEF Joining, Committing, IInv, Fit
    <2> QED BY <2>1 DEF GroupInv, MembersAgree
<1> QED BY <1>1, Invariant, GroupInvariant, PTL
=============================================================================
