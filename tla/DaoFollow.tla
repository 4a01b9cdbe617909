----------------------------- MODULE DaoFollow -----------------------------
(***************************************************************************)
(* DAOs, their followers and the chat group each DAO has: creating and     *)
(* editing a DAO, following it, and the cancellation of an account         *)
(* (internal/routers/api/dao.go, internal/service/dao.go, user.go, chat.go,*)
(* internal/dao/monogo/dao.go, internal/model/dao.go, dao_bookmark.go).    *)
(*                                                                         *)
(* A follower is a bookmark that is not deleted, a row of chat_group and a *)
(* member of the DAO's group at the chat service, and counts in            *)
(* FollowCount, which is read and written with the whole DAO.  The writes  *)
(* are made in transactions that see the database as it was when they began*)
(* and fail when a document they write was written since, or is held by a  *)
(* transaction that has not ended.  Nothing is retried.                    *)
(*                                                                         *)
(* Names are left out: that one is taken is a refusal that may happen.  So *)
(* is the search index, which SearchBridge models.                         *)
(***************************************************************************)
EXTENDS Integers, FiniteSets

CONSTANTS
    Requests,   \* calls of the API, and runs of the cancellation task
    Users,      \* addresses
    Daos,       \* identifiers, one for each DAO there is or will be
    Owner,      \* Owner[r] is the caller of r, or whose account r cancels
    Founder,    \* Founder[d] is the owner of a DAO that is there initially
    None,       \* no request, no DAO
    MaxTrouble  \* bound: calls of the chat service or commits that fail

ASSUME FollowAssumption ==
    /\ IsFiniteSet(Users) /\ IsFiniteSet(Daos)
    /\ Owner \in [Requests -> Users]
    /\ Founder \in [Daos -> Users]
    /\ None \notin Requests \cup Daos
    /\ MaxTrouble \in Nat

VARIABLES
    dao,     \* the documents of dao
    book,    \* the documents of dao_bookmark, by user and DAO
    rows,    \* the documents of chat_group
    groups,  \* chat service: the groups there are, by their DAO
    members, \* chat service: who is in them
    persons, \* chat service: its users
    op,      \* what each request does
    pc,      \* where it is
    target,  \* the DAO it is about
    copy,    \* FollowCount in the DAO it has read
    todo,    \* the DAOs a cancellation has yet to leave, or is deleting
    bookless,\* requests whose bookmark was removed for good after they read it
    holder,  \* the transaction that has written the DAO and has not ended
    missed,  \* DAOs that were written since the request's transaction began
    lost,    \* DAOs whose FollowCount an edit put back
    uneven,  \* DAOs whose FollowCount and bookmarks were not changed together
    strayed, \* followers for whom the chat service did what was then undone here
    faults   \* calls and commits that failed

database == <<dao, book, rows>>
chat     == <<groups, members, persons>>
request  == <<op, pc, target, copy, todo>>
locks    == <<holder, missed, bookless>>
history  == <<lost, uneven, strayed, faults>>
vars     == <<database, chat, request, locks, history>>

-----------------------------------------------------------------------------
Dao == [stage : {"unborn", "open", "gone"}, owner : Users, follows : Int]

Stages == {"idle", "begin", "write", "chat", "commit", "list", "next", "drop",
           "dropwrite", "dropcommit", "purge", "done"}

\* What CreateDao stores: the owner has joined.
NewDao(u) == [stage |-> "open", owner |-> u, follows |-> 1]

\* Some DAOs are there, each as it was created, with its owner for a follower.
NotYet(u) == [stage |-> "unborn", owner |-> u, follows |-> 0]
Joined(there) == {p \in Users \X Daos : p[2] \in there /\ p[1] = Founder[p[2]]}

Init ==
    /\ \E there \in SUBSET Daos :
          /\ dao = [d \in Daos |-> IF d \in there THEN NewDao(Founder[d]) ELSE NotYet(Founder[d])]
          /\ book = [p \in Users \X Daos |-> IF p \in Joined(there) THEN "live" ELSE "none"]
          /\ rows = Joined(there)
          /\ groups = there
          /\ members = Joined(there)
    /\ persons = Users
    /\ op = [r \in Requests |-> "none"]
    /\ pc = [r \in Requests |-> "idle"]
    /\ target = [r \in Requests |-> None]
    /\ copy = [r \in Requests |-> 0]
    /\ todo = [r \in Requests |-> {}]
    /\ holder = [d \in Daos |-> None]
    /\ missed = [r \in Requests |-> {}]
    /\ bookless = {}
    /\ lost = {} /\ uneven = {} /\ strayed = {} /\ faults = 0

Goto(r, label) == pc' = [pc EXCEPT ![r] = label]

Open == {d \in Daos : dao[d].stage = "open"}
Live == {p \in Users \X Daos : book[p] = "live"}
Pair(r) == <<Owner[r], target[r]>>

-----------------------------------------------------------------------------
(* What is read. *)

Get(d) == d \in Open
GetListByAddress(u) == {d \in Open : dao[d].owner = u}

\* Bookmarks that are not deleted: one of them, and a user's.
GetByAddress(u, d) == <<u, d>> \in Live
FindList(u) == {d \in Daos : <<u, d>> \in Live}

IsJoinedDAO(u, d) == <<u, d>> \in Live

\* What a user is shown of DAOs and whether one has joined them: the list of those
\* one follows, which joins the bookmarks with their DAOs, the total shown with it,
\* which counts the bookmarks, the list of one's own, and one DAO.
Shown(d, joined) == [dao |-> d, joined |-> joined]
GetDaoBookmarkList(u) == {Shown(d, TRUE) : d \in {e \in FindList(u) : dao[e].stage = "open"}}
CountMark(u) == Cardinality(FindList(u))
GetMyDaoList(u) == {Shown(d, TRUE) : d \in GetListByAddress(u)}

\* MUTANT: the owner is no exception.
GetDaoFormattedFromBookmark(u, d) == Shown(d, IsJoinedDAO(u, d))

GetDaoFormatted(u, d) == Shown(d, dao[d].owner = u \/ IsJoinedDAO(u, d))

-----------------------------------------------------------------------------
(* The calls, up to the first access to the database. *)

Call(r, o, d, c) ==
    /\ pc[r] = "idle"
    /\ op' = [op EXCEPT ![r] = o]
    /\ target' = [target EXCEPT ![r] = d]
    /\ copy' = [copy EXCEPT ![r] = c]
    /\ Goto(r, "begin")
    /\ UNCHANGED <<todo, database, chat, locks, history>>

\* One handler follows and unfollows: it looks for a bookmark first.
ActionDaoBookmark(r) ==
    \E d \in Daos :
        IF GetByAddress(Owner[r], d) THEN Call(r, "unfollow", d, 0) ELSE Call(r, "follow", d, 0)

\* A subscriber that does not follow the DAO is made to.
JoinSubscribed(r) ==
    \E d \in Open : ~GetByAddress(Owner[r], d) /\ Call(r, "follow", d, 0)

\* UpdateDao reads the DAO before its transaction and changes its copy.
CallUpdate(r) == \E d \in GetListByAddress(Owner[r]) : Call(r, "update", d, dao[d].follows)

CallCreate(r) == Call(r, "create", None, 1)

\* Cancellation removes the user from the chat service, which removes it from all
\* groups, or fails.
DeleteChatUser(r) ==
    /\ pc[r] = "idle"
    /\ op' = [op EXCEPT ![r] = "cancel"]
    /\ \/ /\ Goto(r, "list")
          /\ persons' = persons \ {Owner[r]}
          /\ members' = {p \in members : p[1] # Owner[r]}
          /\ UNCHANGED faults
       \/ /\ faults < MaxTrouble
          /\ faults' = faults + 1
          /\ Goto(r, "done")
          /\ UNCHANGED <<persons, members>>
    /\ UNCHANGED <<target, copy, todo, database, groups, locks, lost, uneven, strayed>>

-----------------------------------------------------------------------------
(* The transactions on one DAO. *)

Unfollowing == {"unfollow", "cancel"}

\* UpdateDao and CreateDao: the name is another DAO's.
RefuseName(r) ==
    /\ pc[r] = "begin"
    /\ op[r] \in {"update", "create"}
    /\ Goto(r, "done")
    /\ UNCHANGED <<op, target, copy, todo, database, chat, locks, history>>

\* The transaction begins with reading the DAO, which the edit has done before.
Begin(r) ==
    /\ pc[r] = "begin"
    /\ op[r] # "create"
    /\ missed' = [missed EXCEPT ![r] = {}]
    /\ bookless' = IF op[r] \in Unfollowing THEN bookless ELSE bookless \ {r}
    /\ IF Get(target[r])
       THEN LET f == dao[target[r]].follows
            IN  /\ copy' = [copy EXCEPT ![r] = CASE op[r] = "follow" -> f + 1
                                                 [] op[r] = "update" -> copy[r]
                                                 [] OTHER -> f - 1]
                /\ Goto(r, "write")
       ELSE Goto(r, "done") /\ UNCHANGED copy
    /\ UNCHANGED <<op, target, todo, database, chat, holder, history>>

\* A new DAO is inserted under an identifier of its own.
BeginCreate(r) ==
    /\ pc[r] = "begin"
    /\ op[r] = "create"
    /\ \E d \in Daos \ groups :
          /\ dao[d].stage = "unborn"
          /\ holder[d] = None
          /\ target' = [target EXCEPT ![r] = d]
          /\ holder' = [holder EXCEPT ![d] = r]
    /\ Goto(r, "chat")
    /\ UNCHANGED <<op, copy, todo, database, chat, missed, bookless, history>>

\* MUTANT: only what is held is a conflict, not what was written since.
ConflictHeld(r, d) == holder[d] # None

\* What a write to the DAO meets.
Conflict(r, d) == holder[d] # None \/ d \in missed[r]

\* dao.Update, and the write to the bookmark.  The bookmark is found by its
\* identifier.  An edit calls the chat service when name, avatar or introduction
\* change; a cancellation does not.
Write(r) ==
    /\ pc[r] = "write"
    /\ missed' = [missed EXCEPT ![r] = {}]
    /\ IF Conflict(r, target[r]) \/ r \in bookless
       THEN Goto(r, "done") /\ UNCHANGED holder
       ELSE /\ holder' = [holder EXCEPT ![target[r]] = r]
            /\ \/ op[r] # "cancel" /\ Goto(r, "chat")
               \/ op[r] \in {"update", "cancel"} /\ Goto(r, "commit")
    /\ UNCHANGED <<op, target, copy, todo, database, chat, bookless, history>>

Abort(r) ==
    /\ holder' = [d \in Daos |-> IF holder[d] = r THEN None ELSE holder[d]]
    /\ Goto(r, "done")

\* MUTANT: a follower who leaves joins again.
JoinGroup(r) ==
    /\ pc[r] = "chat"
    /\ op[r] \in {"follow", "unfollow"}
    /\ Owner[r] \in persons
    /\ target[r] \in groups
    /\ members' = members \cup {Pair(r)}
    /\ Goto(r, "commit")
    /\ UNCHANGED <<op, target, copy, todo, database, groups, persons, locks, history>>

\* The calls of the chat service.  Joining a group one is in, and leaving one that
\* one is not in, succeed.
JoinOrLeaveGroup(r) ==
    /\ pc[r] = "chat"
    /\ op[r] \in {"follow", "unfollow"}
    /\ Owner[r] \in persons
    /\ target[r] \in groups
    /\ members' = IF op[r] = "follow" THEN members \cup {Pair(r)} ELSE members \ {Pair(r)}
    /\ Goto(r, "commit")
    /\ UNCHANGED <<op, target, copy, todo, database, groups, persons, locks, history>>

CreateChatGroup(r) ==
    /\ pc[r] = "chat"
    /\ op[r] = "create"
    /\ Owner[r] \in persons
    /\ groups' = groups \cup {target[r]}
    /\ members' = members \cup {Pair(r)}
    /\ Goto(r, "commit")
    /\ UNCHANGED <<op, target, copy, todo, database, persons, locks, history>>

UpdateChatGroup(r) ==
    /\ pc[r] = "chat"
    /\ op[r] = "update"
    /\ Owner[r] \in persons
    /\ target[r] \in groups
    /\ Goto(r, "commit")
    /\ UNCHANGED <<op, target, copy, todo, database, chat, locks, history>>

\* The call fails: the group or the user is not there, or something went wrong.
ChatFails(r) ==
    /\ pc[r] = "chat"
    /\ \/ /\ Owner[r] \notin persons \/ (op[r] # "create" /\ target[r] \notin groups)
          /\ UNCHANGED faults
       \/ /\ faults < MaxTrouble
          /\ faults' = faults + 1
    /\ Abort(r)
    /\ UNCHANGED <<op, target, copy, todo, database, chat, missed, bookless,
                   lost, uneven, strayed>>

\* The others that began before and write after this meet a conflict.
Written(ds) ==
    missed' = [q \in Requests |-> IF pc[q] \in {"write", "dropwrite"} THEN missed[q] \cup ds
                                  ELSE missed[q]]

\* What is left of the transaction once it has written DAOs ds.
Committed(r, ds, label) ==
    /\ holder' = [d \in Daos |-> IF d \in ds THEN None ELSE holder[d]]
    /\ Written(ds)
    /\ Goto(r, label)
    /\ UNCHANGED <<op, target, copy, todo, chat, bookless, strayed, faults>>

\* The DAO is replaced by the copy.
Update(r) == dao' = [dao EXCEPT ![target[r]].follows = copy[r]]

\* A bookmark is made, or the one that is there revived.
MakeBookmark(r) == book' = [book EXCEPT ![Pair(r)] = "live"]

\* A bookmark is marked as deleted, whatever it was.
DeleteBookmark(r) == book' = [book EXCEPT ![Pair(r)] = "deleted"]

\* MUTANT: all rows of the DAO are deleted.
DeleteRowsOfDao(r) == rows' = {p \in rows : p[2] # target[r]}

\* A row bears the follower in its identifier, so that there is one at most; none
\* need be there to be deleted.
CreateRow(r) == Pair(r) \notin rows /\ rows' = rows \cup {Pair(r)}
DeleteRow(r) == rows' = rows \ {Pair(r)}

CommitFollow(r) ==
    /\ pc[r] = "commit"
    /\ op[r] = "follow"
    /\ Update(r)
    /\ MakeBookmark(r)
    /\ CreateRow(r)
    /\ Committed(r, {target[r]}, "done")
    /\ UNCHANGED <<lost, uneven>>

CommitUnfollow(r) ==
    /\ pc[r] = "commit"
    /\ op[r] \in Unfollowing
    /\ Update(r)
    /\ DeleteBookmark(r)
    /\ DeleteRow(r)
    /\ uneven' = IF Pair(r) \in Live THEN uneven ELSE uneven \cup {target[r]}
    /\ Committed(r, {target[r]}, IF op[r] = "cancel" THEN "next" ELSE "done")
    /\ UNCHANGED lost

CommitUpdate(r) ==
    /\ pc[r] = "commit"
    /\ op[r] = "update"
    /\ Update(r)
    /\ lost' = IF copy[r] = dao[target[r]].follows THEN lost ELSE lost \cup {target[r]}
    /\ Committed(r, {target[r]}, "done")
    /\ UNCHANGED <<book, rows, uneven>>

CommitCreate(r) ==
    /\ pc[r] = "commit"
    /\ op[r] = "create"
    /\ dao' = [dao EXCEPT ![target[r]] = NewDao(Owner[r])]
    /\ MakeBookmark(r)
    /\ CreateRow(r)
    /\ Committed(r, {target[r]}, "done")
    /\ UNCHANGED <<lost, uneven>>

\* A row that is there, or anything else, undoes the transaction, and not what the
\* chat service did.
CommitFails(r) ==
    /\ pc[r] = "commit"
    /\ \/ op[r] = "follow" /\ Pair(r) \in rows /\ UNCHANGED faults
       \/ faults < MaxTrouble /\ faults' = faults + 1
    /\ strayed' = IF op[r] \in {"follow", "unfollow"} THEN strayed \cup {Pair(r)} ELSE strayed
    /\ Abort(r)
    /\ UNCHANGED <<op, target, copy, todo, database, chat, missed, bookless, lost, uneven>>

-----------------------------------------------------------------------------
(* The rest of a cancellation. *)

ListBookmarks(r) ==
    /\ pc[r] = "list"
    /\ todo' = [todo EXCEPT ![r] = FindList(Owner[r])]
    /\ Goto(r, "next")
    /\ UNCHANGED <<op, target, copy, database, chat, locks, history>>

LeaveNext(r) ==
    /\ pc[r] = "next"
    /\ \/ \E d \in todo[r] :
             /\ target' = [target EXCEPT ![r] = d]
             /\ todo' = [todo EXCEPT ![r] = @ \ {d}]
             /\ Goto(r, "begin")
       \/ todo[r] = {} /\ Goto(r, "drop") /\ UNCHANGED <<target, todo>>
    /\ UNCHANGED <<op, copy, database, chat, locks, history>>

\* RealDeleteDAO: the groups of the user's own DAOs are deleted at the chat service.
DropGroups(r) ==
    /\ pc[r] = "drop"
    /\ LET mine == GetListByAddress(Owner[r])
       IN  /\ todo' = [todo EXCEPT ![r] = mine]
           /\ groups' = groups \ mine
           /\ members' = {p \in members : p[2] \notin mine}
           /\ Goto(r, IF mine = {} THEN "purge" ELSE "dropwrite")
    /\ missed' = [missed EXCEPT ![r] = {}]
    /\ UNCHANGED <<op, target, copy, database, persons, holder, bookless, history>>

\* The chat service refuses one of them: the groups deleted before it stay deleted.
DropGroupsFails(r) ==
    /\ pc[r] = "drop"
    /\ faults < MaxTrouble
    /\ faults' = faults + 1
    /\ \E ds \in SUBSET GetListByAddress(Owner[r]) :
          /\ ds # GetListByAddress(Owner[r])
          /\ groups' = groups \ ds
          /\ members' = {p \in members : p[2] \notin ds}
    /\ Goto(r, "done")
    /\ UNCHANGED <<op, target, copy, todo, database, persons, locks, lost, uneven, strayed>>

\* MUTANT: the DAOs are deleted outside the transaction.
DropWriteAnyway(r) ==
    /\ pc[r] = "dropwrite"
    /\ missed' = [missed EXCEPT ![r] = {}]
    /\ Goto(r, "dropcommit")
    /\ UNCHANGED <<op, target, copy, todo, database, chat, holder, bookless, history>>

DropWrite(r) ==
    /\ pc[r] = "dropwrite"
    /\ missed' = [missed EXCEPT ![r] = {}]
    /\ IF \E d \in todo[r] : Conflict(r, d)
       THEN Goto(r, "done") /\ UNCHANGED holder
       ELSE /\ holder' = [d \in Daos |-> IF d \in todo[r] THEN r ELSE holder[d]]
            /\ Goto(r, "dropcommit")
    /\ UNCHANGED <<op, target, copy, todo, database, chat, bookless, history>>

\* All bookmarks of the DAOs go; of the rows only the owner's own.
DropCommit(r) ==
    /\ pc[r] = "dropcommit"
    /\ dao' = [d \in Daos |-> IF d \in todo[r] THEN [dao[d] EXCEPT !.stage = "gone"] ELSE dao[d]]
    /\ book' = [p \in Users \X Daos |-> IF p[2] \in todo[r] THEN "none" ELSE book[p]]
    /\ rows' = {p \in rows : ~(p[1] = Owner[r] /\ p[2] \in todo[r])}
    /\ Committed(r, todo[r], "purge")
    /\ UNCHANGED <<lost, uneven>>

DropFails(r) ==
    /\ pc[r] = "dropcommit"
    /\ faults < MaxTrouble
    /\ faults' = faults + 1
    /\ Abort(r)
    /\ UNCHANGED <<op, target, copy, todo, database, chat, missed, bookless,
                   lost, uneven, strayed>>

\* Requests that have read, or hold, a bookmark of the user.
Reading(q, u) ==
    /\ Owner[q] = u
    /\ pc[q] \in {"begin", "write", "next"}
    /\ \E d \in (todo[q] \cup {target[q]}) \ {None} : book[<<u, d>>] # "none"
Holding(q, u) ==
    /\ Owner[q] = u
    /\ pc[q] \in {"chat", "commit"}
    /\ op[q] \in Unfollowing \cup {"follow"}
    /\ book[Pair(q)] # "none"

\* ds.Cancellation deletes what is left of the user, unless one of the bookmarks is
\* held.  FollowCount is not counted down.
Purge(r) ==
    LET u == Owner[r]
    IN  /\ pc[r] = "purge"
        /\ Goto(r, "done")
        /\ IF \E q \in Requests : Holding(q, u)
           THEN UNCHANGED <<database, bookless, uneven>>
           ELSE /\ book' = [p \in Users \X Daos |-> IF p[1] = u THEN "none" ELSE book[p]]
                /\ rows' = {p \in rows : p[1] # u}
                /\ bookless' = bookless \cup {q \in Requests : Reading(q, u)}
                /\ uneven' = uneven \cup FindList(u)
                /\ UNCHANGED dao
        /\ UNCHANGED <<op, target, copy, todo, chat, holder, missed, lost, strayed, faults>>

-----------------------------------------------------------------------------
Step(r) ==
    \/ RefuseName(r) \/ Begin(r) \/ BeginCreate(r) \/ Write(r)
    \/ JoinOrLeaveGroup(r) \/ CreateChatGroup(r) \/ UpdateChatGroup(r) \/ ChatFails(r)
    \/ CommitFollow(r) \/ CommitUnfollow(r) \/ CommitUpdate(r) \/ CommitCreate(r)
    \/ CommitFails(r)
    \/ ListBookmarks(r) \/ LeaveNext(r) \/ DropGroups(r) \/ DropGroupsFails(r)
    \/ DropWrite(r) \/ DropCommit(r) \/ DropFails(r) \/ Purge(r)

Next ==
    \E r \in Requests :
        \/ ActionDaoBookmark(r) \/ JoinSubscribed(r) \/ CallUpdate(r) \/ CallCreate(r) \/ DeleteChatUser(r)
        \/ Step(r)

Spec == Init /\ [][Next]_vars

-----------------------------------------------------------------------------
TypeOK ==
    /\ dao \in [Daos -> Dao]
    /\ book \in [Users \X Daos -> {"none", "live", "deleted"}]
    /\ rows \subseteq Users \X Daos
    /\ groups \subseteq Daos
    /\ members \subseteq Users \X Daos
    /\ persons \subseteq Users
    /\ op \in [Requests -> {"none", "follow", "unfollow", "update", "create", "cancel"}]
    /\ pc \in [Requests -> Stages]
    /\ target \in [Requests -> Daos \cup {None}]
    /\ copy \in [Requests -> Int]
    /\ todo \in [Requests -> SUBSET Daos]
    /\ holder \in [Daos -> Requests \cup {None}]
    /\ missed \in [Requests -> SUBSET Daos]
    /\ bookless \subseteq Requests
    /\ lost \subseteq Daos /\ uneven \subseteq Daos
    /\ strayed \subseteq Users \X Daos
    /\ faults \in 0..MaxTrouble

\* FollowCount is the number of followers of an open DAO, unless an edit has put an
\* older count back, two requests removed the same bookmark, or a cancellation removed
\* one without counting it down: following twice, from two devices, counts once.
FollowsCounted ==
    \A d \in Open \ (lost \cup uneven) :
        dao[d].follows = Cardinality({u \in Users : <<u, d>> \in Live})

\* A follower of an open DAO has a row of chat_group, and nobody else has.
RowsAgree == \A p \in Users \X Open : p \in Live <=> p \in rows

\* As long as the DAO has its group and the user is known to the chat service, a
\* follower is in the group and nobody else is, except while a transaction is being
\* committed and after one that was undone.
Committing == {Pair(r) : r \in {q \in Requests : pc[q] = "commit" /\ target[q] # None}}
MembersAgree ==
    \A p \in (persons \X (Open \cap groups)) \ (strayed \cup Committing) :
        p \in Live <=> p \in members

\* Whatever screen a DAO is on, it says the same about whether the user has joined;
\* and the total of the list of followed DAOs is its length, although the one counts
\* bookmarks and the other looks up their DAOs.
ScreensAgree ==
    \A u \in Users :
        /\ \A s \in GetDaoBookmarkList(u) \cup GetMyDaoList(u) : s = GetDaoFormatted(u, s.dao)
        /\ Cardinality(GetDaoBookmarkList(u)) = CountMark(u)

\* What the transactions make of bookmarks and DAOs is what DaoMembership promises.
Membership == INSTANCE DaoMembership WITH
    stage <- [d \in Daos |-> dao[d].stage],
    followers <- Live
IsMembership == Membership!Spec
-----------------------------------------------------------------------------
(* The invariant that the proofs use. *)

\* Where a request can be, by what it does: on its way to a write the DAO it has read
\* is as it was, or was written since, and the request will meet a conflict; from its
\* write to its commit it holds the DAO, and nobody else changes it.
Delta(o) == IF o = "follow" THEN 1 ELSE -1

Expects(r, d) ==
    /\ dao[d].stage = IF op[r] = "create" THEN "unborn" ELSE "open"
    /\ op[r] \in Unfollowing \cup {"follow"} => copy[r] = dao[d].follows + Delta(op[r])

Fit(r) ==
    /\ pc[r] # "idle" => op[r] # "none"
    /\ pc[r] = "begin" /\ op[r] # "create" => target[r] \in Daos
    /\ pc[r] = "write" =>
          /\ target[r] \in Daos
          /\ op[r] # "create"
          /\ target[r] \in missed[r] \/ Expects(r, target[r])
    /\ pc[r] \in {"chat", "commit"} =>
          /\ target[r] \in Daos
          /\ holder[target[r]] = r
          /\ Expects(r, target[r])
    /\ pc[r] = "dropwrite" => \A d \in todo[r] : d \in missed[r] \/ dao[d].stage = "open"
    /\ pc[r] = "dropcommit" => \A d \in todo[r] : holder[d] = r /\ dao[d].stage = "open"

\* Nobody follows a DAO that is not open, and an unborn one has no rows.
FollowersOfOpen ==
    /\ \A p \in Live : p[2] \in Open
    /\ \A p \in rows : dao[p[2]].stage # "unborn"

IInv ==
    /\ TypeOK
    /\ \A r \in Requests : Fit(r)
    /\ FollowersOfOpen
    /\ RowsAgree
    /\ FollowsCounted

\* The chat service, between its call and the commit.  Who has joined or left waits to
\* be committed, and nobody else does so meanwhile; the group of a new DAO is new, and
\* its owner alone is in it; a cancellation begins with forgetting the user.
Joining == {Pair(r) : r \in {q \in Requests : pc[q] = "commit" /\ op[q] \in {"follow", "unfollow"}}}

Called(r) ==
    /\ pc[r] \in {"list", "next", "drop", "dropwrite", "dropcommit", "purge"} => op[r] = "cancel"
    /\ op[r] = "cancel" => pc[r] = "done" \/ Owner[r] \notin persons
    /\ pc[r] = "chat" /\ op[r] = "create" => target[r] \notin groups
    /\ pc[r] = "commit" =>
          /\ op[r] = "unfollow" => Pair(r) \notin members
          /\ op[r] = "follow" /\ target[r] \in groups /\ Owner[r] \in persons => Pair(r) \in members
          /\ op[r] = "create" =>
                /\ Owner[r] \in persons => Pair(r) \in members
                /\ \A u \in Users \ {Owner[r]} : <<u, target[r]>> \notin members

GroupInv ==
    /\ \A r \in Requests : Called(r)
    /\ \A p \in members : p[2] \in groups
    /\ \A p \in (persons \X (Open \cap groups)) \ (strayed \cup Joining) :
          p \in Live <=> p \in members
=============================================================================
