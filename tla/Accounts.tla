------------------------------ MODULE Accounts ------------------------------
(***************************************************************************)
(* Accounts: logging in, sessions, changing one's profile, asking for the  *)
(* account to be deleted, and the task that cancels the accounts that asked*)
(* (internal/service/user.go, chat.go, internal/routers/api/user.go,       *)
(* internal/middleware/session.go, internal/dao/monogo/user.go,            *)
(* internal/model/user.go).                                                *)
(*                                                                         *)
(* A user's document is read once, by the middleware or at the beginning of*)
(* a login, and later replaced as a whole by the changed copy; that the    *)
(* account is to be deleted is a field of it.  A session is a key of Redis *)
(* that names a token of the chat service.  What users make is left out but*)
(* for there being some of each kind: DaoFollow and PostCounters have more *)
(* of it.  So are nicknames: that one is taken is a refusal that may happen*)
(* to every update.                                                        *)
(***************************************************************************)
EXTENDS Integers, FiniteSets

CONSTANTS
    Requests,         \* calls of the API
    Users,            \* addresses
    Owner,            \* Owner[r] is the caller of r
    Calls,            \* Calls[r] are the operations r may be
    Devices,          \* what a user's device can be notified by
    None,             \* no request, no device
    MaxLoginErrTimes, \* MAX_LOGIN_ERR_TIMES
    MaxIds,           \* bound: registrations of one address
    MaxTokens,        \* bound: tokens of the chat service for one address
    MaxTrouble        \* bound: calls of other services that fail

Operations == {"login", "change", "make", "delete"}

ASSUME AccountsAssumption ==
    /\ Owner \in [Requests -> Users]
    /\ Calls \in [Requests -> SUBSET Operations]
    /\ None \notin Requests \cup Devices \cup Users
    /\ MaxLoginErrTimes \in Nat
    /\ MaxIds \in Nat \ {0}
    /\ MaxTokens \in Nat \ {0}
    /\ MaxTrouble \in Nat

VARIABLES
    user,     \* the documents of d_user, by address
    things,   \* pairs of an address and a kind of document that it has some of
    holder,   \* the request whose transaction has written the user
    session,  \* Redis: the tokens that are sessions
    tries,    \* Redis: logins with a bad signature
    auth,     \* chat service: the tokens it knows
    persons,  \* chat service: its users
    issued,   \* how many tokens it has issued
    pc,       \* where each request is
    local,    \* what it does and has read, until it is done
    at,       \* where the task is
    list,     \* the addresses it has yet to cancel
    whose,    \* the one it is cancelling
    told,     \* users who were answered that the account is going to be deleted
    undone,   \* of them, those whose wish was overwritten by an older copy
    slipped,  \* sessions that a deletion of the account could not know of, or lost
    late,     \* things made after a cancellation of the address had removed their kind
    born,     \* registrations of each address
    faults    \* calls that failed

documents == <<user, things, holder>>
redis     == <<session, tries>>
chat      == <<auth, persons, issued>>
request   == <<pc, local>>
task      == <<at, list, whose>>
history   == <<told, undone, slipped, late, born, faults>>
vars      == <<documents, redis, chat, request, task, history>>

-----------------------------------------------------------------------------
\* id tells one registration of an address from the next; 0 is none.
User == [id : 0..MaxIds, wish : {0, 1}, token : Devices \cup {None}]

NoUser == [id |-> 0, wish |-> 0, token |-> None]

Kinds == {"bookmark", "post", "dao", "comment"}

Tokens == Users \X (1..MaxTokens)

\* What a request has read: the account, another user of the device with its account,
\* and the token a login got, or those a deletion has listed.
Local == [op : Operations \cup {"none"}, copy : User,
          who : Users \cup {None}, doc : User, tokens : SUBSET Tokens]

Nothing == [op |-> "none", copy |-> NoUser, who |-> None, doc |-> NoUser, tokens |-> {}]

Labels == {"idle", "device", "verify", "sign", "create", "clear", "clearcommit", "store",
           "commit", "uncount", "token", "session", "make", "look", "tokens", "untoken",
           "unsession", "wish", "done"}

\* Everybody has registered, logged in and made some of everything.
Init ==
    /\ user \in [Users -> {[NoUser EXCEPT !.id = 1, !.token = t] : t \in Devices \cup {None}}]
    /\ \A a, b \in Users : a # b => user[a].token # user[b].token \/ user[a].token = None
    /\ things = Users \X Kinds
    /\ holder = [a \in Users |-> None]
    /\ session = {<<a, 1>> : a \in Users}
    /\ tries = [a \in Users |-> 0]
    /\ auth = {<<a, 1>> : a \in Users}
    /\ persons = Users
    /\ issued = [a \in Users |-> 1]
    /\ pc = [r \in Requests |-> "idle"]
    /\ local = [r \in Requests |-> Nothing]
    /\ at = "idle" /\ list = {} /\ whose = None
    /\ told = {} /\ undone = {} /\ slipped = {} /\ late = {}
    /\ born = [a \in Users |-> 1] /\ faults = 0

Move(r, label, l) ==
    /\ pc' = [pc EXCEPT ![r] = label]
    /\ local' = [local EXCEPT ![r] = IF label = "done" THEN Nothing ELSE l]
Goto(r, label) == Move(r, label, local[r])
Trouble == faults < MaxTrouble /\ faults' = faults + 1

GetUserByAddress(a) == user[a]

\* A user of the device.
GetUserByToken(t) == {b \in Users : user[b].id # 0 /\ user[b].token = t}

-----------------------------------------------------------------------------
(* Logging in. *)

\* DoLoginWallet reads the account, if there is one, and puts the device in its copy.
\* An account that is to be deleted is not logged in to.
CallLogin(r) ==
    LET u == GetUserByAddress(Owner[r])
    IN  /\ pc[r] = "idle"
        /\ "login" \in Calls[r]
        /\ \E t \in Devices \cup {None} :
              Move(r, IF u.wish = 1 THEN "done" ELSE IF t = None THEN "verify" ELSE "device",
                   [Nothing EXCEPT !.op = "login", !.copy = [u EXCEPT !.token = t]])
        /\ UNCHANGED <<documents, redis, chat, task, history>>

\* The device is taken from whoever else has it, before the signature is looked at.
FindDevice(r) ==
    LET them == {b \in GetUserByToken(local[r].copy.token) : user[b].id # local[r].copy.id \/ b # Owner[r]}
    IN  /\ pc[r] = "device"
        /\ \/ them = {} /\ Goto(r, "verify")
           \/ \E b \in them :
                 Move(r, "clear", [local[r] EXCEPT !.who = b,
                                                   !.doc = [user[b] EXCEPT !.token = None]])
        /\ UNCHANGED <<documents, redis, chat, task, history>>

\* Too many bad signatures refuse a login, also a good one.
CheckTries(r) ==
    /\ pc[r] = "verify"
    /\ Goto(r, IF tries[Owner[r]] >= MaxLoginErrTimes THEN "done" ELSE "sign")
    /\ UNCHANGED <<documents, redis, chat, task, history>>

GoodSignature(r) ==
    /\ pc[r] = "sign"
    /\ Goto(r, IF local[r].copy.id = 0 THEN "create" ELSE "store")
    /\ UNCHANGED <<documents, redis, chat, task, history>>

BadSignature(r) ==
    /\ pc[r] = "sign"
    /\ tries' = [tries EXCEPT ![Owner[r]] = @ + 1]
    /\ Goto(r, "done")
    /\ UNCHANGED <<documents, session, chat, task, history>>

\* A login that succeeds forgets the tries.
ClearTries(r) ==
    /\ pc[r] = "uncount"
    /\ tries' = [tries EXCEPT ![Owner[r]] = 0]
    /\ Goto(r, "token")
    /\ UNCHANGED <<documents, session, chat, task, history>>

\* A token the chat service has for the user, or a new one.
GetAuthToken(r) ==
    LET a == Owner[r]
        mine == {t \in auth : t[1] = a}
    IN  /\ pc[r] = "token"
        /\ \/ \E t \in mine :
                 /\ Move(r, "session", [local[r] EXCEPT !.tokens = {t}])
                 /\ UNCHANGED <<auth, issued, faults>>
           \/ /\ mine = {} /\ a \in persons /\ issued[a] < MaxTokens
              /\ issued' = [issued EXCEPT ![a] = @ + 1]
              /\ auth' = auth \cup {<<a, issued[a] + 1>>}
              /\ Move(r, "session", [local[r] EXCEPT !.tokens = {<<a, issued[a] + 1>>}])
              /\ UNCHANGED faults
           \/ /\ Goto(r, "done")
              /\ a \in persons => Trouble
              /\ a \notin persons => UNCHANGED faults
              /\ UNCHANGED <<auth, issued>>
        /\ UNCHANGED <<documents, redis, persons, task,
                       told, undone, slipped, late, born>>

\* Requests that delete the account and have listed its tokens.
Deleting(a) == {q \in Requests : Owner[q] = a /\ pc[q] \in {"untoken", "unsession", "wish"}}

\* The session is made: too late for a deletion of the account that is under way.
SetSession(r) ==
    /\ pc[r] = "session"
    /\ session' = session \cup local[r].tokens
    /\ slipped' = IF local[r].tokens \subseteq auth /\ Deleting(Owner[r]) = {} /\ Owner[r] \notin told
                  THEN slipped ELSE slipped \cup local[r].tokens
    /\ Goto(r, "done")
    /\ UNCHANGED <<documents, tries, chat, task,
                   told, undone, late, born, faults>>

-----------------------------------------------------------------------------
(* The other calls, which need a session. *)

\* The middleware reads the account that the session belongs to.  That it is to be
\* deleted is no matter.
Login(r, o, label) ==
    LET a == Owner[r]
    IN  /\ pc[r] = "idle"
        /\ o \in Calls[r]
        /\ \E t \in session : t[1] = a
        /\ GetUserByAddress(a).id # 0
        /\ Move(r, label, [Nothing EXCEPT !.op = o, !.copy = GetUserByAddress(a)])
        /\ UNCHANGED <<documents, redis, chat, task, history>>

\* ChangeNickname and ChangeAvatar write the middleware's copy, and UpdateLoginAt the
\* one that the login read.
ChangeUser(r) == Login(r, "change", "store")
CallMake(r) == Login(r, "make", "make")
CallDelete(r) == Login(r, "delete", "look")

\* Kinds that the cancellation of an address has done with, by where it is.
Passed == [chat |-> {}, bookmark |-> {}, post |-> {}, dao |-> {"post"},
           rest |-> {"post", "dao"}, idle |-> {}, next |-> {}]
Cancelling(a, k) == whose = a /\ k \in Passed[at]

\* A post, a comment, a DAO or a bookmark is made.
Make(r) ==
    LET a == Owner[r]
    IN  /\ pc[r] = "make"
        /\ \E k \in Kinds :
              /\ things' = things \cup {<<a, k>>}
              /\ late' = IF user[a].id = 0 \/ Cancelling(a, k) THEN late \cup {<<a, k>>} ELSE late
        /\ Goto(r, "done")
        /\ UNCHANGED <<user, holder, redis, chat, task,
                       told, undone, slipped, born, faults>>

-----------------------------------------------------------------------------
(* The transactions that write an account. *)

\* The account is found by identifier or address; the identifier of a document cannot
\* be changed.
Matches(a, doc) == user[a].id = doc.id /\ doc.id # 0

\* UpdateUser, up to the commit: of the copy, or of another user's document.
BeginUpdate(r, a, doc, label) ==
    /\ Matches(a, doc)
    /\ holder[a] = None
    /\ holder' = [holder EXCEPT ![a] = r]
    /\ Goto(r, label)
    /\ UNCHANGED <<user, things, redis, chat, task, history>>

StoreUser(r) == pc[r] = "store" /\ BeginUpdate(r, Owner[r], local[r].copy, "commit")
ClearDevice(r) == pc[r] = "clear" /\ BeginUpdate(r, local[r].who, local[r].doc, "clearcommit")

\* CreateUser: addresses are unique.
BeginCreate(r) ==
    LET a == Owner[r]
    IN  /\ pc[r] = "create"
        /\ user[a].id = 0
        /\ holder[a] = None
        /\ born[a] < MaxIds
        /\ holder' = [holder EXCEPT ![a] = r]
        /\ Goto(r, "commit")
        /\ UNCHANGED <<user, things, redis, chat, task, history>>

Abort(r) ==
    /\ holder' = [a \in Users |-> IF holder[a] = r THEN None ELSE holder[a]]
    /\ Goto(r, "done")

\* The nickname is taken, the account is not there, is another or is held, or the chat
\* service refuses.
TransactionFails(r) ==
    /\ pc[r] \in {"store", "clear", "create", "commit", "clearcommit"}
    /\ Abort(r)
    /\ UNCHANGED <<user, things, redis, chat, task, history>>

\* MUTANT: the field is left out of what is written.
ReplaceAllBut(r, a, doc) ==
    /\ user' = [user EXCEPT ![a] = [doc EXCEPT !.wish = 0]]
    /\ holder' = [holder EXCEPT ![a] = None]
    /\ undone' = IF user[a].wish = 1 /\ doc.wish = 0 THEN undone \cup {a} ELSE undone

\* Whoever writes an older copy than the wish takes it back.
Replace(r, a, doc) ==
    /\ user' = [user EXCEPT ![a] = doc]
    /\ holder' = [holder EXCEPT ![a] = None]
    /\ undone' = IF user[a].wish = 1 /\ doc.wish = 0 THEN undone \cup {a} ELSE undone

\* A changed profile goes to the chat service, a login's time does not.
CommitUser(r) ==
    LET a == Owner[r]
    IN  /\ pc[r] = "commit"
        /\ local[r].copy.id # 0
        /\ local[r].op = "change" => a \in persons
        /\ Replace(r, a, local[r].copy)
        /\ Goto(r, IF local[r].op = "login" THEN "uncount" ELSE "done")
        /\ UNCHANGED <<things, redis, chat, task,
                       told, slipped, late, born, faults>>

CommitClear(r) ==
    /\ pc[r] = "clearcommit"
    /\ local[r].who \in persons
    /\ Replace(r, local[r].who, local[r].doc)
    /\ Goto(r, "verify")
    /\ UNCHANGED <<things, redis, chat, task,
                   told, slipped, late, born, faults>>

\* CreateChatUser leaves a user that is there alone.
CommitCreate(r) ==
    LET a == Owner[r]
    IN  /\ pc[r] = "commit"
        /\ local[r].copy.id = 0
        /\ user' = [user EXCEPT ![a] = [local[r].copy EXCEPT !.id = born[a] + 1]]
        /\ born' = [born EXCEPT ![a] = @ + 1]
        /\ holder' = [holder EXCEPT ![a] = None]
        /\ persons' = persons \cup {a}
        /\ Goto(r, "uncount")
        /\ UNCHANGED <<things, redis, auth, issued, task,
                       told, undone, slipped, late, faults>>

-----------------------------------------------------------------------------
(* Asking for the account to be deleted. *)

\* DeleteUser reads the account again and looks at the signature.
Look(r) ==
    LET u == GetUserByAddress(Owner[r])
    IN  /\ pc[r] = "look"
        /\ \/ u.id # 0 /\ Move(r, "tokens", [local[r] EXCEPT !.copy = u])
           \/ Goto(r, "done")
        /\ UNCHANGED <<documents, redis, chat, task, history>>

ListTokens(r) ==
    /\ pc[r] = "tokens"
    /\ Move(r, "untoken", [local[r] EXCEPT !.tokens = {t \in auth : t[1] = Owner[r]}])
    /\ UNCHANGED <<documents, redis, chat, task, history>>

\* The token that is next, in the order the chat service lists them.
First(ts) == CHOOSE t \in ts : \A u \in ts : t[2] <= u[2]

\* Each token is deleted at the chat service, unless it is not there any more.
DeleteToken(r) ==
    /\ pc[r] = "untoken"
    /\ local[r].tokens # {}
    /\ LET t == First(local[r].tokens)
       IN  \/ /\ t \in auth
              /\ auth' = auth \ {t}
              /\ Goto(r, "unsession")
              /\ UNCHANGED faults
           \/ /\ Goto(r, "done")
              /\ IF t \in auth THEN Trouble ELSE UNCHANGED faults
              /\ UNCHANGED auth
    /\ UNCHANGED <<documents, redis, persons, issued, task,
                   told, undone, slipped, late, born>>

\* MUTANT: another key is deleted.
DeleteOtherKey(r) ==
    /\ pc[r] = "unsession"
    /\ Move(r, "untoken", [local[r] EXCEPT !.tokens = @ \ {First(local[r].tokens)}])
    /\ UNCHANGED <<documents, redis, chat, task, history>>

\* Then its session.  When that fails, no later call knows of the token.
DeleteSession(r) ==
    /\ pc[r] = "unsession"
    /\ LET t == First(local[r].tokens)
       IN  \/ /\ session' = session \ {t}
              /\ Move(r, "untoken", [local[r] EXCEPT !.tokens = @ \ {t}])
              /\ UNCHANGED <<slipped, faults>>
           \/ /\ Trouble
              /\ slipped' = slipped \cup {t}
              /\ Goto(r, "done")
              /\ UNCHANGED session
    /\ UNCHANGED <<documents, tries, chat, task,
                   told, undone, late, born>>

NoMoreTokens(r) ==
    /\ pc[r] = "untoken"
    /\ local[r].tokens = {}
    /\ Goto(r, "wish")
    /\ UNCHANGED <<documents, redis, chat, task, history>>

\* The wish is stored with the copy, outside a transaction: the write waits for one.
StoreWish(r) ==
    LET a == Owner[r]
    IN  /\ pc[r] = "wish"
        /\ holder[a] = None
        /\ IF Matches(a, local[r].copy)
           THEN /\ user' = [user EXCEPT ![a] = [local[r].copy EXCEPT !.wish = 1]]
                /\ told' = told \cup {a}
                /\ undone' = undone \ {a}
           ELSE UNCHANGED <<user, told, undone>>
        /\ Goto(r, "done")
        /\ UNCHANGED <<things, holder, redis, chat, task,
                       slipped, late, born, faults>>

-----------------------------------------------------------------------------
(* The cancellation. *)

Then(label) == at' = label

\* Who has asked.
GetCancellationUsers == {a \in Users : user[a].wish = 1}

\* The task's ticker.
Tick ==
    /\ at = "idle"
    /\ list' = GetCancellationUsers
    /\ Then("next")
    /\ UNCHANGED <<whose, documents, redis, chat, request, history>>

NextAddress ==
    /\ at = "next"
    /\ \/ \E a \in list :
             /\ list' = list \ {a}
             /\ whose' = a
             /\ Then("chat")
       \/ /\ list = {}
          /\ Then("idle")
          /\ UNCHANGED <<list, whose>>
    /\ UNCHANGED <<documents, redis, chat, request, history>>

\* MUTANT: that the chat service does not know the user is a failure.
DeleteKnownChatUser ==
    /\ at = "chat"
    /\ whose \in persons
    /\ persons' = persons \ {whose}
    /\ auth' = {t \in auth : t[1] # whose}
    /\ slipped' = slipped \cup {t \in session : t[1] = whose}
    /\ Then("bookmark")
    /\ UNCHANGED <<issued, list, whose, documents, redis, request,
                   told, undone, late, born, faults>>

\* The chat service forgets the user and the tokens, so that no deletion of the account
\* learns of the sessions any more.
DeleteChatUser ==
    /\ at = "chat"
    /\ persons' = persons \ {whose}
    /\ auth' = {t \in auth : t[1] # whose}
    /\ slipped' = slipped \cup {t \in session : t[1] = whose}
    /\ Then("bookmark")
    /\ UNCHANGED <<issued, list, whose, documents, redis, request,
                   told, undone, late, born, faults>>

\* What the address has of some kinds is deleted.
Remove(ks) ==
    /\ things' = {t \in things : ~(t[1] = whose /\ t[2] \in ks)}
    /\ late' = {t \in late : ~(t[1] = whose /\ t[2] \in ks)}

DeleteThings(from, k, label) ==
    /\ at = from
    /\ Remove({k})
    /\ Then(label)
    /\ UNCHANGED <<user, holder, list, whose, redis, chat, request,
                   told, undone, slipped, born, faults>>

DeleteDaoBookmarks == DeleteThings("bookmark", "bookmark", "post")
RealDeletePosts == DeleteThings("post", "post", "dao")
RealDeleteDAO == DeleteThings("dao", "dao", "rest")

\* MUTANT: a table is missing.
CancellationButComments ==
    /\ at = "rest"
    /\ holder[whose] = None
    /\ user' = [user EXCEPT ![whose] = NoUser]
    /\ Remove({"bookmark"})
    /\ Then("next")
    /\ told' = told \ {whose}
    /\ undone' = undone \ {whose}
    /\ UNCHANGED <<holder, list, whose, redis, chat, request, slipped, born, faults>>

\* ds.Cancellation deletes, by address, the user and all the rest in one transaction.
Cancellation ==
    /\ at = "rest"
    /\ holder[whose] = None
    /\ user' = [user EXCEPT ![whose] = NoUser]
    /\ Remove({"bookmark", "comment"})
    /\ Then("next")
    /\ told' = told \ {whose}
    /\ undone' = undone \ {whose}
    /\ UNCHANGED <<holder, list, whose, redis, chat, request, slipped, born, faults>>

\* Any step fails, the last when the user is being written: the next tick begins anew.
CancellationFails ==
    /\ at \in {"chat", "bookmark", "post", "dao", "rest"}
    /\ \/ Trouble
       \/ at = "rest" /\ holder[whose] # None /\ UNCHANGED faults
    /\ Then("next")
    /\ UNCHANGED <<list, whose, documents, redis, chat, request,
                   told, undone, slipped, late, born>>

-----------------------------------------------------------------------------
CallStep(r) ==
    \/ FindDevice(r) \/ CheckTries(r) \/ GoodSignature(r) \/ BadSignature(r)
    \/ ClearTries(r) \/ GetAuthToken(r) \/ SetSession(r) \/ Make(r)
    \/ StoreUser(r) \/ ClearDevice(r) \/ BeginCreate(r) \/ TransactionFails(r)
    \/ CommitUser(r) \/ CommitClear(r) \/ CommitCreate(r)
    \/ Look(r) \/ ListTokens(r) \/ DeleteToken(r) \/ DeleteSession(r) \/ NoMoreTokens(r)
    \/ StoreWish(r)

TaskStep ==
    \/ NextAddress \/ DeleteChatUser \/ DeleteDaoBookmarks \/ RealDeletePosts
    \/ RealDeleteDAO \/ Cancellation \/ CancellationFails

Next ==
    \/ \E r \in Requests :
          CallLogin(r) \/ ChangeUser(r) \/ CallMake(r) \/ CallDelete(r) \/ CallStep(r)
    \/ Tick \/ TaskStep

Spec == Init /\ [][Next]_vars

\* The ticker ticks, and whatever has begun goes on.
FairSpec ==
    /\ Spec
    /\ WF_vars(Tick) /\ WF_vars(TaskStep)
    /\ \A r \in Requests : WF_vars(CallStep(r))

-----------------------------------------------------------------------------
TypeOK ==
    /\ user \in [Users -> User]
    /\ things \subseteq Users \X Kinds
    /\ holder \in [Users -> Requests \cup {None}]
    /\ session \subseteq Tokens /\ auth \subseteq Tokens /\ slipped \subseteq Tokens
    /\ tries \in [Users -> Nat]
    /\ persons \subseteq Users
    /\ issued \in [Users -> 0..MaxTokens]
    /\ pc \in [Requests -> Labels]
    /\ local \in [Requests -> Local]
    /\ at \in DOMAIN Passed
    /\ list \subseteq Users
    /\ whose \in Users \cup {None}
    /\ told \subseteq Users /\ undone \subseteq told
    /\ late \subseteq things
    /\ born \in [Users -> 0..MaxIds]
    /\ faults \in 0..MaxTrouble

\* The wish of a user who was told that the account is going to be deleted stays stored
\* until then, unless a copy that was read before is written over it.
WishKept == \A a \in told \ undone : user[a].wish = 1

\* Who was told so has no session left, unless it was made while the deletion was under
\* way, its removal failed after that of the token it belongs to, or another deletion
\* is about to remove it.
Removing == {First(local[r].tokens) : r \in {q \in Requests : pc[q] = "unsession"}}
SessionsEnd == \A t \in session \ (slipped \cup Removing) : t[1] \notin told

\* Of an account that is cancelled nothing is left, but what a request of the same user
\* made behind the cancellation's back.
NothingLeft == \A t \in things \ late : user[t[1]].id # 0

\* An account that is to be deleted is, in the end: a failed step is tried again.
DeletionHappens == \A a \in Users : a \in told ~> (a \notin told \/ a \in undone)

-----------------------------------------------------------------------------
(* The invariant that the proofs use. *)

\* Whoever has written an account and not committed holds it as it was when it was
\* matched: there is one registration per address, and it is the one of the copy.
Writing(r) ==
    /\ pc[r] = "create" => local[r].copy.id = 0
    /\ pc[r] = "commit" =>
          /\ holder[Owner[r]] = r
          /\ user[Owner[r]].id = local[r].copy.id
          /\ local[r].copy.id = 0 => born[Owner[r]] < MaxIds
    /\ pc[r] \in {"clear", "clearcommit"} => local[r].who \in Users
    /\ pc[r] = "clearcommit" =>
          /\ holder[local[r].who] = r
          /\ Matches(local[r].who, local[r].doc)

\* A copy with the wish in it was read from a user who was told, unless that
\* registration is gone.
Copied(a, doc) ==
    /\ doc.id <= born[a]
    /\ doc.id = 0 => doc.wish = 0
    /\ doc.wish = 1 /\ doc.id = user[a].id => a \in told
Copies(r) ==
    /\ Copied(Owner[r], local[r].copy)
    /\ local[r].who \in Users => Copied(local[r].who, local[r].doc)

Listed(r) ==
    /\ pc[r] \in {"session", "untoken", "unsession", "wish"} =>
          \A t \in local[r].tokens : t[1] = Owner[r]
    /\ pc[r] = "unsession" => First(local[r].tokens) \in Tokens
    /\ pc[r] = "wish" => local[r].tokens = {}

\* A session that nothing has slipped past has its token at the chat service, and is
\* on the list of everybody who is deleting the account.
Known(t) ==
    /\ t \in auth
    /\ t[1] \notin told
    /\ \A r \in Deleting(t[1]) : t \in local[r].tokens

IInv ==
    /\ TypeOK
    /\ \A a \in Users : Copied(a, user[a])
    /\ \A r \in Requests : Writing(r) /\ Copies(r) /\ Listed(r)
    /\ WishKept
    /\ \A t \in session \ (slipped \cup Removing) : Known(t)
    /\ NothingLeft
    /\ at \in {"chat", "bookmark", "post", "dao", "rest"} => whose \in Users
    /\ at \in {"dao", "rest"} => \A t \in things \ late : t[1] = whose => t[2] \notin Passed[at]
=============================================================================
