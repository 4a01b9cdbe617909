--------------------------- MODULE AccountsProofs ---------------------------
(***************************************************************************)
(* TLAPS proofs about Accounts, for any number of requests, users, devices *)
(* and failures: the invariant IInv is inductive, a stored wish stays, who *)
(* was told has no session left, and a cancellation leaves nothing.        *)
(***************************************************************************)
EXTENDS Accounts, TLAPS

Sessions == \A t \in session \ (slipped \cup Removing) : Known(t)

\* The other requests stand still.
Alone(r) == \A q \in Requests \ {r} : pc'[q] = pc[q] /\ local'[q] = local[q]

-----------------------------------------------------------------------------
(* What does not touch the accounts. *)

LEMMA Moves ==
    ASSUME TypeOK, NEW r \in Requests, NEW label \in Labels, NEW l \in Local, Move(r, label, l)
    PROVE  /\ pc' \in [Requests -> Labels] /\ local' \in [Requests -> Local]
           /\ pc'[r] = label
           /\ local'[r] = IF label = "done" THEN Nothing ELSE l
           /\ Alone(r)
<1>1. Nothing \in Local
    BY AccountsAssumption DEF Nothing, Local, NoUser, User
<1> QED BY <1>1 DEF Move, TypeOK, Alone

\* Of the other requests: a step that leaves the accounts alone.
LEMMA Others ==
    ASSUME IInv, NEW r \in Requests, Alone(r), UNCHANGED <<user, told, born>>,
           \A a \in Users : holder[a] \notin {None, r} => holder'[a] = holder[a]
    PROVE  /\ \A q \in Requests \ {r} : Writing(q)' /\ Copies(q)' /\ Listed(q)'
           /\ \A a \in Users : Copied(a, user[a])'
<1>1. ASSUME NEW q \in Requests, q # r PROVE Writing(q)' /\ Copies(q)' /\ Listed(q)'
    <2> USE <1>1
    <2>1. pc'[q] = pc[q] /\ local'[q] = local[q] /\ Owner[q] \in Users /\ q # None
        BY AccountsAssumption DEF Alone
    <2>2. \A a \in Users : holder[a] = q => holder'[a] = q
        BY <2>1
    <2>3. Writing(q) /\ Copies(q) /\ Listed(q)
        BY DEF IInv
    <2>4. Writing(q)'
        BY <2>1, <2>2, <2>3 DEF Writing, Matches
    <2>5. Copies(q)' /\ Listed(q)'
        BY <2>1, <2>3 DEF Copies, Copied, Listed
    <2> QED BY <2>4, <2>5
<1>2. \A a \in Users : Copied(a, user[a])'
    BY DEF IInv, Copied
<1> QED BY <1>1, <1>2

\* Of everything: a step that leaves what the users made and the task alone, too.
LEMMA Frame ==
    ASSUME IInv, NEW r \in Requests, TypeOK', Alone(r), Sessions',
           Writing(r)', Copies(r)', Listed(r)',
           UNCHANGED <<user, things, told, undone, late, born, at, whose>>,
           \A a \in Users : holder[a] \notin {None, r} => holder'[a] = holder[a]
    PROVE  IInv'
<1>1. /\ \A q \in Requests : Writing(q)' /\ Copies(q)' /\ Listed(q)'
      /\ \A a \in Users : Copied(a, user[a])'
    BY Others
<1>2. WishKept' /\ NothingLeft'
    BY DEF IInv, WishKept, NothingLeft
<1>3. /\ at' \in {"chat", "bookmark", "post", "dao", "rest"} => whose' \in Users
      /\ at' \in {"dao", "rest"} =>
            \A t \in things' \ late' : t[1] = whose' => t[2] \notin Passed[at']
    BY DEF IInv
<1> QED BY <1>1, <1>2, <1>3 DEF IInv, Sessions

\* A step that neither begins nor ends a deletion, nor takes a token away.
LEMMA SessionsFrame ==
    ASSUME IInv, NEW r \in Requests, Alone(r), pc[r] # "unsession",
           UNCHANGED <<session, slipped, told>>, auth \subseteq auth',
           pc'[r] \in {"untoken", "unsession", "wish"} =>
               pc[r] \in {"untoken", "wish"} /\ local'[r].tokens = local[r].tokens
    PROVE  Sessions'
<1>1. Removing \subseteq Removing'
    BY DEF Removing, Alone
<1>2. ASSUME NEW t \in session, t \notin slipped \cup Removing PROVE Known(t)'
    <2>1. Known(t)
        BY <1>2 DEF IInv
    <2>2. ASSUME NEW q \in Deleting(t[1])' PROVE t \in local'[q].tokens
        <3>1. q \in Requests /\ Owner[q] = t[1]
            BY DEF Deleting
        <3>2. CASE q = r
            BY <2>1, <3>1, <3>2 DEF Known, Deleting
        <3>3. CASE q # r
            BY <2>1, <3>1, <3>3 DEF Known, Deleting, Alone
        <3> QED BY <3>2, <3>3
    <2> QED BY <2>1, <2>2 DEF Known
<1> QED BY <1>1, <1>2 DEF Sessions

\* What a request has read of an account, or changed in its copy.
LEMMA CopyRead ==
    ASSUME IInv, NEW a \in Users, NEW t \in Devices \cup {None}
    PROVE  /\ user[a] \in User /\ [user[a] EXCEPT !.token = t] \in User
           /\ Copied(a, user[a]) /\ Copied(a, [user[a] EXCEPT !.token = t])
    BY DEF IInv, TypeOK, User, Copied

LEMMA NothingCopied ==
    ASSUME IInv, NEW a \in Users PROVE Copied(a, NoUser) /\ NoUser \in User
    BY AccountsAssumption DEF IInv, TypeOK, Copied, NoUser, User

\* Steps that only move a request on, with what it has read.
LEMMA MoveKeeps ==
    ASSUME IInv, NEW r \in Requests, NEW label \in Labels, NEW l \in Local, Move(r, label, l),
           UNCHANGED <<documents, session, chat, task, history>>,
           tries' \in [Users -> Nat],
           pc[r] # "unsession", label \notin {"commit", "clearcommit", "unsession", "session"},
           label = "clear" => l.who \in Users, label = "create" => l.copy.id = 0,
           label \in {"untoken", "wish"} =>
               pc[r] = "untoken" /\ l = local[r] /\ (label = "wish" => l.tokens = {}),
           Copied(Owner[r], l.copy), l.who \in Users => Copied(l.who, l.doc)
    PROVE  IInv'
<1> USE DEF documents, chat, task, history
<1>1. /\ pc' \in [Requests -> Labels] /\ local' \in [Requests -> Local]
      /\ pc'[r] = label
      /\ local'[r] = IF label = "done" THEN Nothing ELSE l
      /\ Alone(r) /\ Owner[r] \in Users
    BY Moves, AccountsAssumption DEF IInv
<1>2. TypeOK'
    BY <1>1 DEF IInv, TypeOK
<1>3. Writing(r)'
    BY <1>1 DEF Writing
<1>4. Copies(r)'
    <2>1. CASE label = "done"
        BY <1>1, <2>1, NothingCopied, AccountsAssumption DEF Copies, Copied, Nothing
    <2>2. CASE label # "done"
        BY <1>1, <2>2 DEF Copies, Copied
    <2> QED BY <2>1, <2>2
<1>5. Listed(r)'
    BY <1>1 DEF IInv, Listed
<1>6. Sessions'
    <2>1. pc'[r] \in {"untoken", "unsession", "wish"} =>
              pc[r] \in {"untoken", "wish"} /\ local'[r].tokens = local[r].tokens
        BY <1>1
    <2> QED BY <1>1, <2>1, SessionsFrame
<1> QED BY <1>1, <1>2, <1>3, <1>4, <1>5, <1>6, Frame

-----------------------------------------------------------------------------
(* Logging in. *)

LEMMA CallLoginKeeps ==
    ASSUME IInv, NEW r \in Requests, CallLogin(r) PROVE IInv'
<1>1. Owner[r] \in Users /\ None \notin Users
    BY AccountsAssumption
<1>2. PICK t \in Devices \cup {None} :
          Move(r, IF user[Owner[r]].wish = 1 THEN "done" ELSE IF t = None THEN "verify" ELSE "device",
               [Nothing EXCEPT !.op = "login", !.copy = [user[Owner[r]] EXCEPT !.token = t]])
    BY DEF CallLogin, GetUserByAddress
<1>3. PICK l : l = [Nothing EXCEPT !.op = "login", !.copy = [user[Owner[r]] EXCEPT !.token = t]]
    OBVIOUS
<1>4. PICK label : label = IF user[Owner[r]].wish = 1 THEN "done" ELSE IF t = None THEN "verify" ELSE "device"
    OBVIOUS
<1>5. /\ [user[Owner[r]] EXCEPT !.token = t] \in User
      /\ Copied(Owner[r], [user[Owner[r]] EXCEPT !.token = t])
    BY <1>1, CopyRead
<1>6. NoUser \in User
    BY <1>1, NothingCopied
<1>7. /\ l \in Local /\ l.who = None
      /\ l.copy = [user[Owner[r]] EXCEPT !.token = t]
    BY <1>3, <1>5, <1>6 DEF Nothing, Local, Operations
<1>8. label \in Labels /\ label \in {"done", "verify", "device"}
    BY <1>4 DEF Labels
<1>9. /\ pc[r] = "idle" /\ Move(r, label, l)
      /\ UNCHANGED <<documents, session, chat, task, history>>
      /\ tries' \in [Users -> Nat]
    BY <1>2, <1>3, <1>4 DEF CallLogin, redis, IInv, TypeOK
<1> QED BY <1>1, <1>5, <1>7, <1>8, <1>9, MoveKeeps

LEMMA LocalKept ==
    ASSUME IInv, NEW r \in Requests
    PROVE  /\ local[r] \in Local /\ Owner[r] \in Users
           /\ Copied(Owner[r], local[r].copy)
           /\ local[r].who \in Users => Copied(local[r].who, local[r].doc)
    BY AccountsAssumption DEF IInv, TypeOK, Copies

LEMMA FindDeviceKeeps ==
    ASSUME IInv, NEW r \in Requests, FindDevice(r) PROVE IInv'
<1>1. /\ pc[r] = "device" /\ UNCHANGED <<documents, session, chat, task, history>>
      /\ tries' \in [Users -> Nat]
    BY DEF FindDevice, redis, IInv, TypeOK
<1>2. "verify" \in Labels /\ "clear" \in Labels
    BY DEF Labels
<1>3. CASE Goto(r, "verify")
    <2>1. Move(r, "verify", local[r])
        BY <1>3 DEF Goto
    <2> QED BY <1>1, <1>2, <2>1, LocalKept, MoveKeeps
<1>4. CASE ~Goto(r, "verify")
    <2>1. PICK b \in Users : Move(r, "clear", [local[r] EXCEPT !.who = b,
                                               !.doc = [user[b] EXCEPT !.token = None]])
        BY <1>4 DEF FindDevice, GetUserByToken
    <2>2. PICK l : l = [local[r] EXCEPT !.who = b, !.doc = [user[b] EXCEPT !.token = None]]
        OBVIOUS
    <2>3. [user[b] EXCEPT !.token = None] \in User /\ Copied(b, [user[b] EXCEPT !.token = None])
        BY CopyRead
    <2>4. /\ l \in Local /\ l.who = b /\ l.doc = [user[b] EXCEPT !.token = None]
          /\ l.copy = local[r].copy
        BY <2>2, <2>3, LocalKept DEF Local
    <2>5. Move(r, "clear", l)
        BY <2>1, <2>2
    <2> QED BY <1>1, <1>2, <2>3, <2>4, <2>5, LocalKept, MoveKeeps
<1> QED BY <1>3, <1>4

\* What a request has read stays with it.
LEMMA GotoKeeps ==
    ASSUME IInv, NEW r \in Requests, NEW label \in Labels, Goto(r, label),
           UNCHANGED <<documents, session, chat, task, history>>,
           tries' \in [Users -> Nat], pc[r] # "unsession",
           label \notin {"clear", "commit", "clearcommit", "untoken", "unsession", "session"},
           label = "create" => local[r].copy.id = 0,
           label = "wish" => pc[r] = "untoken" /\ local[r].tokens = {}
    PROVE  IInv'
    BY LocalKept, MoveKeeps DEF Goto

LEMMA LoginStepsKeep ==
    ASSUME IInv, NEW r \in Requests,
           CheckTries(r) \/ GoodSignature(r) \/ BadSignature(r) \/ ClearTries(r) \/ NoMoreTokens(r)
    PROVE  IInv'
<1> USE GotoKeeps DEF Labels, redis
<1>1. Owner[r] \in Users /\ tries \in [Users -> Nat]
    BY AccountsAssumption DEF IInv, TypeOK
<1>2. CASE CheckTries(r)
    BY <1>1, <1>2 DEF CheckTries
<1>3. CASE GoodSignature(r)
    BY <1>1, <1>3 DEF GoodSignature
<1>4. CASE BadSignature(r)
    BY <1>1, <1>4 DEF BadSignature
<1>5. CASE ClearTries(r)
    BY <1>1, <1>5 DEF ClearTries
<1>6. CASE NoMoreTokens(r)
    BY <1>1, <1>6 DEF NoMoreTokens
<1> QED BY <1>2, <1>3, <1>4, <1>5, <1>6

LEMMA CallsKeep ==
    ASSUME IInv, NEW r \in Requests, ChangeUser(r) \/ CallMake(r) \/ CallDelete(r)
    PROVE  IInv'
<1>1. PICK o \in {"change", "make", "delete"}, label \in {"store", "make", "look"} : Login(r, o, label)
    BY DEF ChangeUser, CallMake, CallDelete
<1>2. Owner[r] \in Users /\ None \notin Users /\ label \in Labels
    BY AccountsAssumption DEF Labels
<1>3. PICK l : l = [Nothing EXCEPT !.op = o, !.copy = user[Owner[r]]]
    OBVIOUS
<1>4. user[Owner[r]] \in User /\ Copied(Owner[r], user[Owner[r]]) /\ NoUser \in User
    BY <1>2, CopyRead, NothingCopied
<1>5. l \in Local /\ l.who = None /\ l.copy = user[Owner[r]]
    BY <1>3, <1>4 DEF Nothing, Local, Operations
<1>6. /\ pc[r] = "idle" /\ Move(r, label, l)
      /\ UNCHANGED <<documents, session, chat, task, history>>
      /\ tries' \in [Users -> Nat]
    BY <1>1, <1>3 DEF Login, GetUserByAddress, redis, IInv, TypeOK
<1> QED BY <1>2, <1>4, <1>5, <1>6, MoveKeeps

LEMMA LookKeeps ==
    ASSUME IInv, NEW r \in Requests, Look(r) PROVE IInv'
<1>1. /\ pc[r] = "look" /\ UNCHANGED <<documents, session, chat, task, history>>
      /\ tries' \in [Users -> Nat]
    BY DEF Look, redis, IInv, TypeOK
<1>2. "tokens" \in Labels /\ "done" \in Labels
    BY DEF Labels
<1>3. CASE Goto(r, "done")
    BY <1>1, <1>2, <1>3, GotoKeeps
<1>4. CASE ~Goto(r, "done")
    <2>1. PICK l : l = [local[r] EXCEPT !.copy = user[Owner[r]]]
        OBVIOUS
    <2>2. Move(r, "tokens", l)
        BY <1>4, <2>1 DEF Look, GetUserByAddress
    <2>3. user[Owner[r]] \in User /\ Copied(Owner[r], user[Owner[r]])
        BY LocalKept, CopyRead
    <2>4. /\ l \in Local /\ l.copy = user[Owner[r]]
          /\ l.who = local[r].who /\ l.doc = local[r].doc
        BY <2>1, <2>3, LocalKept DEF Local
    <2> QED BY <1>1, <1>2, <2>2, <2>3, <2>4, LocalKept, MoveKeeps
<1> QED BY <1>3, <1>4

\* A request that is over holds nothing and has read nothing.
LEMMA Ended ==
    ASSUME IInv, NEW r \in Requests, Goto(r, "done"), born' \in [Users -> 0..MaxIds]
    PROVE  /\ pc' \in [Requests -> Labels] /\ local' \in [Requests -> Local]
           /\ pc'[r] = "done" /\ Alone(r)
           /\ Writing(r)' /\ Copies(r)' /\ Listed(r)'
<1>1. Move(r, "done", local[r]) /\ "done" \in Labels
    BY DEF Goto, Labels
<1>2. /\ pc' \in [Requests -> Labels] /\ local' \in [Requests -> Local]
      /\ pc'[r] = "done" /\ local'[r] = Nothing /\ Alone(r)
    BY <1>1, Moves, LocalKept DEF IInv
<1>3. Owner[r] \in Users /\ None \notin Users
    BY AccountsAssumption
<1>4. Copies(r)'
    BY <1>2, <1>3, AccountsAssumption DEF Copies, Copied, Nothing, NoUser
<1> QED BY <1>2, <1>4 DEF Writing, Listed

\* A request goes on, with other tokens: its copies stay.
LEMMA TokensMove ==
    ASSUME IInv, NEW r \in Requests, NEW label \in Labels \ {"done", "commit", "clear", "clearcommit"},
           NEW ts \in SUBSET Tokens, label # "create",
           Move(r, label, [local[r] EXCEPT !.tokens = ts]),
           UNCHANGED <<born, user, told>>
    PROVE  /\ pc' \in [Requests -> Labels] /\ local' \in [Requests -> Local]
           /\ pc'[r] = label /\ local'[r].tokens = ts /\ Alone(r)
           /\ Writing(r)' /\ Copies(r)'
<1>1. PICK l : l = [local[r] EXCEPT !.tokens = ts]
    OBVIOUS
<1>2. /\ l \in Local /\ l.tokens = ts /\ l.copy = local[r].copy
      /\ l.who = local[r].who /\ l.doc = local[r].doc
    BY <1>1, LocalKept DEF Local
<1>3. /\ pc' \in [Requests -> Labels] /\ local' \in [Requests -> Local]
      /\ pc'[r] = label /\ local'[r] = l /\ Alone(r)
    BY <1>1, <1>2, Moves DEF IInv
<1>4. Copies(r)'
    BY <1>2, <1>3, LocalKept DEF Copies, Copied
<1> QED BY <1>2, <1>3, <1>4 DEF Writing

LEMMA GetAuthTokenKeeps ==
    ASSUME IInv, NEW r \in Requests, GetAuthToken(r) PROVE IInv'
<1>1. /\ pc[r] = "token" /\ Owner[r] \in Users /\ TypeOK
      /\ UNCHANGED <<documents, redis, persons, task, told, undone, slipped, late, born>>
    BY AccountsAssumption DEF GetAuthToken, IInv
<1> USE DEF documents, redis, task
<1>2. CASE Goto(r, "done") /\ UNCHANGED <<auth, issued>> /\ faults' \in 0..MaxTrouble
    <2>1. /\ pc' \in [Requests -> Labels] /\ local' \in [Requests -> Local]
          /\ pc'[r] = "done" /\ Alone(r)
          /\ Writing(r)' /\ Copies(r)' /\ Listed(r)'
        BY <1>1, <1>2, Ended DEF TypeOK
    <2>2. TypeOK'
        BY <1>1, <1>2, <2>1 DEF TypeOK
    <2>3. Sessions'
        BY <1>1, <1>2, <2>1, SessionsFrame
    <2> QED BY <1>1, <2>1, <2>2, <2>3, Frame
<1>3. ASSUME NEW t \in Tokens, t[1] = Owner[r], auth' = auth \cup {t},
             Move(r, "session", [local[r] EXCEPT !.tokens = {t}]),
             issued' \in [Users -> 0..MaxTokens], faults' \in 0..MaxTrouble
      PROVE  IInv'
    <2>1. "session" \in Labels \ {"done", "commit", "clear", "clearcommit"} /\ {t} \in SUBSET Tokens
        BY DEF Labels
    <2>2. /\ pc' \in [Requests -> Labels] /\ local' \in [Requests -> Local]
          /\ pc'[r] = "session" /\ local'[r].tokens = {t} /\ Alone(r)
          /\ Writing(r)' /\ Copies(r)'
        BY <1>1, <1>3, <2>1, TokensMove
    <2>3. TypeOK'
        BY <1>1, <1>3, <2>2 DEF TypeOK
    <2>4. Sessions'
        BY <1>1, <1>3, <2>2, SessionsFrame
    <2>5. Listed(r)'
        BY <1>3, <2>2 DEF Listed
    <2> QED BY <1>1, <2>2, <2>3, <2>4, <2>5, Frame
<1>4. faults \in 0..MaxTrouble /\ MaxTrouble \in Nat /\ MaxTokens \in Nat /\ issued[Owner[r]] \in 0..MaxTokens
    BY <1>1, AccountsAssumption DEF TypeOK
<1>5. ASSUME NEW t \in auth, t[1] = Owner[r], auth' = auth, issued' = issued, faults' = faults,
             Move(r, "session", [local[r] EXCEPT !.tokens = {t}])
      PROVE  IInv'
    <2>1. t \in Tokens /\ auth' = auth \cup {t} /\ issued' \in [Users -> 0..MaxTokens]
        BY <1>1, <1>5 DEF TypeOK
    <2> QED BY <1>3, <1>4, <1>5, <2>1
<1>6. ASSUME issued[Owner[r]] < MaxTokens, issued' = [issued EXCEPT ![Owner[r]] = @ + 1],
             auth' = auth \cup {<<Owner[r], issued[Owner[r]] + 1>>}, faults' = faults,
             Move(r, "session", [local[r] EXCEPT !.tokens = {<<Owner[r], issued[Owner[r]] + 1>>}])
      PROVE  IInv'
    <2>1. PICK t : t = <<Owner[r], issued[Owner[r]] + 1>>
        OBVIOUS
    <2>2. t \in Tokens /\ t[1] = Owner[r]
        BY <1>1, <1>4, <1>6, <2>1 DEF Tokens
    <2>3. issued' \in [Users -> 0..MaxTokens]
        BY <1>1, <1>4, <1>6 DEF TypeOK
    <2> QED BY <1>3, <1>4, <1>6, <2>1, <2>2, <2>3
<1>7. \/ Goto(r, "done") /\ UNCHANGED <<auth, issued>> /\ faults' \in 0..MaxTrouble
      \/ \E t \in auth : /\ t[1] = Owner[r] /\ auth' = auth /\ issued' = issued /\ faults' = faults
                         /\ Move(r, "session", [local[r] EXCEPT !.tokens = {t}])
      \/ /\ issued[Owner[r]] < MaxTokens /\ issued' = [issued EXCEPT ![Owner[r]] = @ + 1]
         /\ auth' = auth \cup {<<Owner[r], issued[Owner[r]] + 1>>} /\ faults' = faults
         /\ Move(r, "session", [local[r] EXCEPT !.tokens = {<<Owner[r], issued[Owner[r]] + 1>>}])
    <2>1. CASE \E t \in {u \in auth : u[1] = Owner[r]} :
                  /\ Move(r, "session", [local[r] EXCEPT !.tokens = {t}])
                  /\ UNCHANGED <<auth, issued, faults>>
        BY <2>1
    <2>2. CASE /\ issued[Owner[r]] < MaxTokens
               /\ issued' = [issued EXCEPT ![Owner[r]] = @ + 1]
               /\ auth' = auth \cup {<<Owner[r], issued[Owner[r]] + 1>>}
               /\ Move(r, "session", [local[r] EXCEPT !.tokens = {<<Owner[r], issued[Owner[r]] + 1>>}])
               /\ UNCHANGED faults
        BY <2>2
    <2>3. CASE /\ Goto(r, "done")
               /\ Owner[r] \in persons => Trouble
               /\ Owner[r] \notin persons => UNCHANGED faults
               /\ UNCHANGED <<auth, issued>>
        BY <1>4, <2>3 DEF Trouble
    <2> QED BY <2>1, <2>2, <2>3, Zenon DEF GetAuthToken
<1> QED BY <1>2, <1>5, <1>6, <1>7

LEMMA ListTokensKeeps ==
    ASSUME IInv, NEW r \in Requests, ListTokens(r) PROVE IInv'
<1>1. PICK ts : ts = {t \in auth : t[1] = Owner[r]}
    OBVIOUS
<1>2. /\ pc[r] = "tokens" /\ Move(r, "untoken", [local[r] EXCEPT !.tokens = ts]) /\ TypeOK
      /\ UNCHANGED <<documents, redis, chat, task, history>>
    BY <1>1 DEF ListTokens, IInv
<1> USE DEF documents, redis, chat, task, history
<1>3. "untoken" \in Labels \ {"done", "commit", "clear", "clearcommit"} /\ ts \in SUBSET Tokens
    BY <1>1, <1>2 DEF Labels, TypeOK
<1>4. /\ pc' \in [Requests -> Labels] /\ local' \in [Requests -> Local]
      /\ pc'[r] = "untoken" /\ local'[r].tokens = ts /\ Alone(r)
      /\ Writing(r)' /\ Copies(r)'
    BY <1>2, <1>3, TokensMove
<1>5. TypeOK'
    BY <1>2, <1>4 DEF TypeOK
<1>6. Listed(r)'
    BY <1>1, <1>4 DEF Listed
<1>7. Sessions'
    <2>1. Removing \subseteq Removing'
        BY <1>2, <1>4 DEF Removing, Alone
    <2>2. ASSUME NEW t \in session, t \notin slipped \cup Removing PROVE Known(t)'
        <3>1. Known(t)
            BY <2>2 DEF IInv
        <3>2. ASSUME NEW q \in Deleting(t[1])' PROVE t \in local'[q].tokens
            <4>1. q \in Requests /\ Owner[q] = t[1]
                BY DEF Deleting
            <4>2. CASE q = r
                BY <1>1, <1>4, <3>1, <4>1, <4>2 DEF Known
            <4>3. CASE q # r
                BY <1>4, <3>1, <4>1, <4>3 DEF Known, Deleting, Alone
            <4> QED BY <4>2, <4>3
        <3> QED BY <1>2, <3>1, <3>2 DEF Known
    <2> QED BY <1>2, <2>1, <2>2 DEF Sessions
<1> QED BY <1>2, <1>4, <1>5, <1>6, <1>7, Frame

\* A request goes on with what it has read.
LEMMA GotoMoves ==
    ASSUME IInv, NEW r \in Requests, NEW label \in Labels \ {"done"}, Goto(r, label),
           UNCHANGED <<born, user, told>>
    PROVE  /\ pc' \in [Requests -> Labels] /\ local' \in [Requests -> Local]
           /\ pc'[r] = label /\ local'[r] = local[r] /\ Alone(r) /\ Copies(r)'
<1>1. Move(r, label, local[r])
    BY DEF Goto
<1>2. /\ pc' \in [Requests -> Labels] /\ local' \in [Requests -> Local]
      /\ pc'[r] = label /\ local'[r] = local[r] /\ Alone(r)
    BY <1>1, LocalKept, Moves DEF IInv
<1>3. Copies(r)'
    BY <1>2, LocalKept DEF Copies, Copied
<1> QED BY <1>2, <1>3

LEMMA SetSessionKeeps ==
    ASSUME IInv, NEW r \in Requests, SetSession(r) PROVE IInv'
<1> USE DEF documents, chat, task
<1>1. /\ pc[r] = "session" /\ session' = session \cup local[r].tokens /\ Goto(r, "done") /\ TypeOK
      /\ slipped' = IF local[r].tokens \subseteq auth /\ Deleting(Owner[r]) = {} /\ Owner[r] \notin told
                    THEN slipped ELSE slipped \cup local[r].tokens
      /\ UNCHANGED <<documents, tries, chat, task, told, undone, late, born, faults>>
    BY DEF SetSession, IInv
<1>2. /\ pc' \in [Requests -> Labels] /\ local' \in [Requests -> Local]
      /\ pc'[r] = "done" /\ Alone(r) /\ Writing(r)' /\ Copies(r)' /\ Listed(r)'
    BY <1>1, Ended DEF TypeOK
<1>3. local[r].tokens \subseteq Tokens /\ \A t \in local[r].tokens : t[1] = Owner[r]
    BY <1>1, LocalKept DEF Local, IInv, Listed
<1>4. TypeOK'
    BY <1>1, <1>2, <1>3 DEF TypeOK
<1>5. ASSUME NEW a PROVE \A q \in Deleting(a)' : q \in Deleting(a) /\ local'[q] = local[q]
    BY <1>2 DEF Deleting, Alone
<1>6. Removing \subseteq Removing'
    BY <1>1, <1>2 DEF Removing, Alone
<1>7. ASSUME NEW t \in session', t \notin slipped' \cup Removing' PROVE Known(t)'
    <2>1. CASE t \in session
        <3>1. t \notin slipped \cup Removing
            BY <1>1, <1>6, <1>7
        <3>2. Known(t)
            BY <2>1, <3>1 DEF IInv
        <3> QED BY <1>1, <1>5, <3>2 DEF Known
    <2>2. CASE t \in local[r].tokens
        <3>1. t \in auth /\ Deleting(Owner[r]) = {} /\ Owner[r] \notin told /\ t[1] = Owner[r]
            BY <1>1, <1>3, <1>7, <2>2
        <3> QED BY <1>1, <1>5, <3>1 DEF Known
    <2> QED BY <1>1, <1>7, <2>1, <2>2
<1>8. Sessions'
    BY <1>7 DEF Sessions
<1> QED BY <1>1, <1>2, <1>4, <1>8, Frame

LEMMA MakeKeeps ==
    ASSUME IInv, NEW r \in Requests, Make(r) PROVE IInv'
<1> USE DEF redis, chat, task
<1>1. /\ pc[r] = "make" /\ Goto(r, "done") /\ TypeOK /\ Owner[r] \in Users
      /\ UNCHANGED <<user, holder, redis, chat, task, told, undone, slipped, born, faults>>
    BY AccountsAssumption DEF Make, IInv
<1>2. PICK k \in Kinds :
          /\ things' = things \cup {<<Owner[r], k>>}
          /\ late' = IF user[Owner[r]].id = 0 \/ Cancelling(Owner[r], k)
                     THEN late \cup {<<Owner[r], k>>} ELSE late
    BY DEF Make
<1>3. /\ pc' \in [Requests -> Labels] /\ local' \in [Requests -> Local]
      /\ pc'[r] = "done" /\ Alone(r) /\ Writing(r)' /\ Copies(r)' /\ Listed(r)'
    BY <1>1, Ended DEF TypeOK
<1>4. TypeOK'
    BY <1>1, <1>2, <1>3 DEF TypeOK
<1>5. Sessions'
    BY <1>1, <1>3, SessionsFrame
<1>6. /\ \A q \in Requests : Writing(q)' /\ Copies(q)' /\ Listed(q)'
      /\ \A a \in Users : Copied(a, user[a])'
    BY <1>1, <1>3, Others
<1>7. WishKept' /\ (at' \in {"chat", "bookmark", "post", "dao", "rest"} => whose' \in Users)
    BY <1>1 DEF IInv, WishKept
<1>8. NothingLeft'
    BY <1>1, <1>2 DEF IInv, NothingLeft
<1>9. at' \in {"dao", "rest"} => \A t \in things' \ late' : t[1] = whose' => t[2] \notin Passed[at']
    <2>1. ASSUME at \in {"dao", "rest"}, NEW t \in things' \ late', t[1] = whose
          PROVE  t[2] \notin Passed[at]
        <3>1. CASE t \in things
            BY <1>2, <2>1, <3>1 DEF IInv
        <3>2. CASE t = <<Owner[r], k>>
            <4>1. t[1] = Owner[r] /\ t[2] = k
                BY <3>2
            <4> QED BY <1>2, <2>1, <3>2, <4>1 DEF Cancelling
        <3> QED BY <1>2, <2>1, <3>1, <3>2
    <2> QED BY <1>1, <2>1
<1> QED BY <1>4, <1>5, <1>6, <1>7, <1>8, <1>9 DEF IInv, Sessions

\* An account's document is held by who writes it.
LEMMA BeginKeeps ==
    ASSUME IInv, NEW r \in Requests, NEW a \in Users, NEW label \in {"commit", "clearcommit"},
           holder[a] = None, holder' = [holder EXCEPT ![a] = r], Goto(r, label),
           pc[r] # "unsession", UNCHANGED <<user, things, redis, chat, task, history>>,
           label = "commit" =>
               /\ a = Owner[r] /\ user[a].id = local[r].copy.id
               /\ local[r].copy.id = 0 => born[a] < MaxIds,
           label = "clearcommit" => a = local[r].who /\ Matches(a, local[r].doc)
    PROVE  IInv'
<1> USE DEF redis, chat, task, history
<1>1. label \in Labels \ {"done"} /\ TypeOK
    BY DEF Labels, IInv
<1>2. /\ pc' \in [Requests -> Labels] /\ local' \in [Requests -> Local]
      /\ pc'[r] = label /\ local'[r] = local[r] /\ Alone(r) /\ Copies(r)'
    BY <1>1, GotoMoves
<1>3. TypeOK'
    BY <1>1, <1>2 DEF TypeOK
<1>4. Writing(r)' /\ Listed(r)'
    BY <1>1, <1>2 DEF Writing, Listed, Matches, TypeOK
<1>5. Sessions'
    BY <1>2, SessionsFrame
<1>6. \A b \in Users : holder[b] \notin {None, r} => holder'[b] = holder[b]
    BY <1>1 DEF TypeOK
<1> QED BY <1>2, <1>3, <1>4, <1>5, <1>6, Frame

LEMMA BeginsKeep ==
    ASSUME IInv, NEW r \in Requests, StoreUser(r) \/ ClearDevice(r) \/ BeginCreate(r)
    PROVE  IInv'
<1>1. Owner[r] \in Users
    BY AccountsAssumption
<1>2. CASE StoreUser(r)
    BY <1>1, <1>2, BeginKeeps DEF StoreUser, BeginUpdate, Matches
<1>3. CASE ClearDevice(r)
    <2>1. local[r].who \in Users
        BY <1>3 DEF ClearDevice, IInv, Writing
    <2> QED BY <1>3, <2>1, BeginKeeps DEF ClearDevice, BeginUpdate
<1>4. CASE BeginCreate(r)
    <2>1. local[r].copy.id = 0
        BY <1>4 DEF BeginCreate, IInv, Writing
    <2> QED BY <1>1, <1>4, <2>1, BeginKeeps DEF BeginCreate
<1> QED BY <1>2, <1>3, <1>4

LEMMA TransactionFailsKeeps ==
    ASSUME IInv, NEW r \in Requests, TransactionFails(r) PROVE IInv'
<1> USE DEF redis, chat, task, history
<1>1. /\ Goto(r, "done") /\ TypeOK /\ pc[r] # "unsession"
      /\ holder' = [a \in Users |-> IF holder[a] = r THEN None ELSE holder[a]]
      /\ UNCHANGED <<user, things, redis, chat, task, history>>
    BY DEF TransactionFails, Abort, IInv
<1>2. /\ pc' \in [Requests -> Labels] /\ local' \in [Requests -> Local]
      /\ pc'[r] = "done" /\ Alone(r) /\ Writing(r)' /\ Copies(r)' /\ Listed(r)'
    BY <1>1, Ended DEF TypeOK
<1>3. TypeOK'
    BY <1>1, <1>2 DEF TypeOK
<1>4. Sessions'
    BY <1>1, <1>2, SessionsFrame
<1>5. \A b \in Users : holder[b] \notin {None, r} => holder'[b] = holder[b]
    BY <1>1
<1> QED BY <1>1, <1>2, <1>3, <1>4, <1>5, Frame

-----------------------------------------------------------------------------
(* What writes an account. *)

LEMMA GotoOn ==
    ASSUME IInv, NEW r \in Requests, NEW label \in {"uncount", "verify", "done"}, Goto(r, label)
    PROVE  /\ pc' \in [Requests -> Labels] /\ local' \in [Requests -> Local]
           /\ pc'[r] = label /\ local'[r] \in {local[r], Nothing} /\ Alone(r)
<1>1. Move(r, label, local[r]) /\ label \in Labels
    BY DEF Goto, Labels
<1> QED BY <1>1, LocalKept, Moves DEF IInv

\* The document is replaced by one of the same registration, or by that of a new one,
\* and nobody else holds it.
LEMMA Replaced ==
    ASSUME IInv, NEW r \in Requests, NEW a \in Users, NEW doc \in User,
           NEW label \in {"uncount", "verify", "done"}, Goto(r, label), pc[r] # "unsession",
           user' = [user EXCEPT ![a] = doc],
           holder[a] \in {None, r}, holder' \in [Users -> Requests \cup {None}],
           \A b \in Users \ {a} : holder'[b] = holder[b],
           born' \in [Users -> 0..MaxIds],
           \A b \in Users \ {a} : born'[b] = born[b],
           born[a] <= born'[a],
           told \subseteq told', told' \subseteq Users, undone' \subseteq told', persons' \subseteq Users,
           doc.id = user[a].id \/ doc.id > born[a], doc.id <= born'[a],
           doc.id = 0 => doc.wish = 0, doc.wish = 1 => a \in told',
           WishKept', Sessions',
           UNCHANGED <<things, session, tries, auth, issued, task, slipped, late, faults>>
    PROVE  IInv'
<1> USE DEF task
<1>1. /\ pc' \in [Requests -> Labels] /\ local' \in [Requests -> Local]
      /\ pc'[r] = label /\ local'[r] \in {local[r], Nothing} /\ Alone(r)
    BY GotoOn
<1>2. TypeOK
    BY DEF IInv
<1>3. TypeOK'
    BY <1>1, <1>2 DEF TypeOK
<1>4. /\ user'[a] = doc /\ \A b \in Users \ {a} : user'[b] = user[b]
      /\ \A b \in Users : born[b] \in Nat /\ born'[b] \in Nat /\ born[b] <= born'[b]
      /\ MaxIds \in Nat
    BY <1>2, AccountsAssumption DEF TypeOK
<1>5. ASSUME NEW b \in Users, NEW d \in User, Copied(b, d) PROVE Copied(b, d)'
    <2>1. d.id \in Nat /\ d.id <= born[b] /\ (d.id = 0 => d.wish = 0)
        BY <1>4, <1>5 DEF Copied, User
    <2>2. d.id <= born'[b]
        BY <1>4, <2>1
    <2>3. d.wish = 1 /\ d.id = user'[b].id => b \in told'
        <3>1. CASE b = a
            <4>1. doc.id \in Nat
                BY <1>4 DEF User
            <4>2. doc.id > born[a] => d.id # doc.id
                BY <1>4, <2>1, <3>1, <4>1
            <4> QED BY <1>4, <1>5, <3>1, <4>2 DEF Copied
        <3>2. CASE b # a
            BY <1>4, <1>5, <3>2 DEF Copied
        <3> QED BY <3>1, <3>2
    <2> QED BY <2>1, <2>2, <2>3 DEF Copied
<1>6. ASSUME NEW b \in Users PROVE Copied(b, user[b])'
    <2>1. CASE b = a
        BY <1>4, <2>1 DEF Copied
    <2>2. CASE b # a
        <3>1. user[b] \in User /\ Copied(b, user[b]) /\ user'[b] = user[b]
            BY <1>2, <1>4, <2>2 DEF IInv, TypeOK
        <3>2. Copied(b, user[b]) /\ born[b] <= born'[b] /\ told \subseteq told'
            BY <1>4, <3>1
        <3> QED BY <1>4, <3>1, <3>2 DEF Copied, User
    <2> QED BY <2>1, <2>2
<1>7. ASSUME NEW q \in Requests, q # r PROVE Writing(q)' /\ Copies(q)' /\ Listed(q)'
    <2>1. /\ pc'[q] = pc[q] /\ local'[q] = local[q] /\ Owner[q] \in Users /\ q # None
          /\ local[q] \in Local
        BY <1>1, <1>2, <1>7, AccountsAssumption DEF Alone, TypeOK
    <2>2. Writing(q) /\ Copies(q) /\ Listed(q)
        BY DEF IInv
    <2>3. \A b \in Users : holder[b] = q => b # a /\ holder'[b] = q /\ user'[b] = user[b] /\ born'[b] = born[b]
        BY <1>4, <1>7, <2>1
    <2>4. Writing(q)'
        BY <2>1, <2>2, <2>3 DEF Writing, Matches
    <2>5. local[q].copy \in User /\ local[q].doc \in User
        BY <2>1 DEF Local
    <2>6. Copied(Owner[q], local[q].copy)' /\ (local[q].who \in Users => Copied(local[q].who, local[q].doc)')
        BY <1>5, <2>1, <2>2, <2>5 DEF Copies
    <2>7. Copies(q)'
        BY <1>1, <1>7, <2>1, <2>6 DEF Copies, Copied
    <2>8. Listed(q)'
        BY <2>1, <2>2 DEF Listed
    <2> QED BY <2>4, <2>7, <2>8
<1>8. Writing(r)' /\ Listed(r)'
    BY <1>1 DEF Writing, Listed
<1>9. Copies(r)'
    <2>1. Owner[r] \in Users /\ None \notin Users /\ local[r].copy \in User /\ local[r].doc \in User
        BY LocalKept, AccountsAssumption DEF Local
    <2>2. CASE local'[r] = Nothing
        BY <1>4, <2>1, <2>2 DEF Copies, Copied, Nothing, NoUser
    <2>3. CASE local'[r] = local[r]
        <3>1. Copied(Owner[r], local[r].copy)' /\ (local[r].who \in Users => Copied(local[r].who, local[r].doc)')
            BY <1>5, <2>1, <2>3, LocalKept
        <3> QED BY <2>3, <3>1 DEF Copies, Copied
    <2> QED BY <1>1, <2>2, <2>3
<1>10. NothingLeft'
    <2>1. user[a].id # 0 => doc.id # 0
        BY <1>4 DEF User
    <2>2. ASSUME NEW t \in things' \ late' PROVE user'[t[1]].id # 0
        BY <1>2, <1>4, <2>1, <2>2 DEF IInv, NothingLeft, TypeOK
    <2> QED BY <2>2 DEF NothingLeft
<1>11. /\ at' \in {"chat", "bookmark", "post", "dao", "rest"} => whose' \in Users
       /\ at' \in {"dao", "rest"} =>
             \A t \in things' \ late' : t[1] = whose' => t[2] \notin Passed[at']
    BY DEF IInv
<1> QED BY <1>3, <1>6, <1>7, <1>8, <1>9, <1>10, <1>11 DEF IInv, Sessions

\* A copy of the same registration: undone knows of a wish that it takes back.
LEMMA ReplaceKeeps ==
    ASSUME IInv, NEW r \in Requests, NEW a \in Users, NEW doc \in User,
           NEW label \in {"uncount", "verify", "done"}, Goto(r, label), pc[r] # "unsession",
           holder[a] = r, Matches(a, doc), Copied(a, doc), Replace(r, a, doc),
           UNCHANGED <<things, redis, chat, task, told, slipped, late, born, faults>>
    PROVE  IInv'
<1> USE DEF redis, chat
<1>1. /\ user' = [user EXCEPT ![a] = doc] /\ holder' = [holder EXCEPT ![a] = None]
      /\ undone' = IF user[a].wish = 1 /\ doc.wish = 0 THEN undone \cup {a} ELSE undone
    BY DEF Replace
<1>2. TypeOK /\ user[a].id = doc.id /\ doc.id # 0
    BY DEF IInv, Matches
<1>3. holder' \in [Users -> Requests \cup {None}] /\ \A b \in Users \ {a} : holder'[b] = holder[b]
    BY <1>1, <1>2 DEF TypeOK
<1>4. /\ born' \in [Users -> 0..MaxIds] /\ born[a] <= born'[a] /\ doc.id <= born'[a]
      /\ \A b \in Users \ {a} : born'[b] = born[b]
    BY <1>2 DEF TypeOK, Copied
<1>5. /\ doc.wish = 1 => a \in told'
      /\ doc.wish \in {0, 1} /\ user[a].wish \in {0, 1}
    BY <1>2 DEF Copied, User, TypeOK
<1>6. WishKept'
    <2>1. ASSUME NEW b \in told \ undone' PROVE user'[b].wish = 1
        <3>1. b \in told \ undone /\ b \in Users /\ user[b].wish = 1
            BY <1>1, <1>2, <2>1 DEF IInv, WishKept, TypeOK
        <3>2. CASE b = a
            BY <1>1, <1>2, <1>5, <2>1, <3>1, <3>2 DEF TypeOK
        <3>3. CASE b # a
            BY <1>1, <1>2, <3>1, <3>3 DEF TypeOK
        <3> QED BY <3>2, <3>3
    <2> QED BY <2>1 DEF WishKept
<1>7. Sessions'
    <2>1. Alone(r) /\ pc'[r] = label
        BY GotoOn
    <2> QED BY <2>1, SessionsFrame
<1>8. /\ told \subseteq told' /\ told' \subseteq Users /\ persons' \subseteq Users
    BY <1>2 DEF TypeOK
<1>9. undone' \subseteq told'
    <2>1. user[a].wish = 1 => a \in told
        BY <1>2 DEF IInv, Copied
    <2> QED BY <1>1, <1>2, <2>1 DEF TypeOK
<1>10. UNCHANGED <<things, session, tries, auth, issued, task, slipped, late, faults>>
    OBVIOUS
<1>11. holder[a] \in {None, r} /\ (doc.id = user[a].id \/ doc.id > born[a]) /\ (doc.id = 0 => doc.wish = 0)
    BY <1>2
<1> HIDE DEF redis, chat
<1> QED BY <1>1, <1>3, <1>4, <1>5, <1>6, <1>7, <1>8, <1>9, <1>10, <1>11, Replaced, ZenonT(40)

LEMMA CommitUserKeeps ==
    ASSUME IInv, NEW r \in Requests, CommitUser(r) PROVE IInv'
<1>1. PICK label \in {"uncount", "done"} : Goto(r, label)
    BY DEF CommitUser
<1>2. /\ Owner[r] \in Users /\ local[r].copy \in User /\ Copied(Owner[r], local[r].copy)
    BY LocalKept DEF Local
<1>3. holder[Owner[r]] = r /\ Matches(Owner[r], local[r].copy)
    BY DEF CommitUser, IInv, Writing, Matches
<1>4. /\ pc[r] # "unsession" /\ Replace(r, Owner[r], local[r].copy)
      /\ UNCHANGED <<things, redis, chat, task, told, slipped, late, born, faults>>
    BY DEF CommitUser
<1> QED BY <1>1, <1>2, <1>3, <1>4, ReplaceKeeps

LEMMA CommitClearKeeps ==
    ASSUME IInv, NEW r \in Requests, CommitClear(r) PROVE IInv'
<1>1. /\ pc[r] = "clearcommit" /\ Goto(r, "verify") /\ Replace(r, local[r].who, local[r].doc)
      /\ UNCHANGED <<things, redis, chat, task, told, slipped, late, born, faults>>
    BY DEF CommitClear
<1>2. /\ local[r].who \in Users /\ holder[local[r].who] = r
      /\ Matches(local[r].who, local[r].doc)
    BY <1>1 DEF IInv, Writing
<1>3. local[r].doc \in User /\ Copied(local[r].who, local[r].doc)
    BY <1>2, LocalKept DEF Local
<1> QED BY <1>1, <1>2, <1>3, ReplaceKeeps

LEMMA CommitCreateKeeps ==
    ASSUME IInv, NEW r \in Requests, CommitCreate(r) PROVE IInv'
<1> USE DEF redis
<1>1. PICK a \in Users : a = Owner[r]
    BY AccountsAssumption
<1>2. PICK doc : doc = [local[r].copy EXCEPT !.id = born[a] + 1]
    OBVIOUS
<1>3. /\ pc[r] = "commit" /\ local[r].copy.id = 0 /\ Goto(r, "uncount")
      /\ user' = [user EXCEPT ![a] = doc] /\ born' = [born EXCEPT ![a] = @ + 1]
      /\ holder' = [holder EXCEPT ![a] = None] /\ persons' = persons \cup {a}
      /\ UNCHANGED <<things, redis, auth, issued, task, told, undone, slipped, late, faults>>
    BY <1>1, <1>2 DEF CommitCreate
<1>4. /\ TypeOK /\ holder[a] = r /\ user[a].id = 0 /\ born[a] < MaxIds
    BY <1>1, <1>3 DEF IInv, Writing
<1>5. born[a] \in 0..MaxIds /\ MaxIds \in Nat
    BY <1>4, AccountsAssumption DEF TypeOK
<1>6. local[r].copy \in User /\ local[r].copy.wish = 0
    BY <1>1, <1>3, LocalKept DEF Local, Copied
<1>7. /\ doc \in User /\ doc.id = born[a] + 1 /\ doc.wish = 0
      /\ doc.id = user[a].id \/ doc.id > born[a]
    BY <1>2, <1>4, <1>5, <1>6 DEF User
<1>8. /\ born' \in [Users -> 0..MaxIds] /\ born[a] <= born'[a] /\ doc.id <= born'[a]
      /\ \A b \in Users \ {a} : born'[b] = born[b]
    BY <1>3, <1>4, <1>5, <1>7 DEF TypeOK
<1>9. /\ holder' \in [Users -> Requests \cup {None}] /\ \A b \in Users \ {a} : holder'[b] = holder[b]
      /\ holder[a] \in {None, r}
    BY <1>3, <1>4 DEF TypeOK
<1>10. /\ told \subseteq told' /\ told' \subseteq Users /\ undone' \subseteq told' /\ persons' \subseteq Users
    BY <1>3, <1>4 DEF TypeOK
<1>11. /\ doc.id = 0 => doc.wish = 0
       /\ doc.wish = 1 => a \in told'
    BY <1>7
<1>12. WishKept'
    <2>1. user[a].wish = 0
        BY <1>4 DEF IInv, Copied, TypeOK, User
    <2> QED BY <1>3, <1>4, <2>1 DEF IInv, WishKept, TypeOK
<1>13. Sessions'
    <2>1. Alone(r) /\ pc'[r] = "uncount"
        BY <1>3, GotoOn
    <2> QED BY <1>3, <2>1, SessionsFrame
<1>14. /\ pc[r] # "unsession" /\ Goto(r, "uncount") /\ user' = [user EXCEPT ![a] = doc]
       /\ UNCHANGED <<things, session, tries, auth, issued, task, slipped, late, faults>>
    BY <1>3
<1> QED BY <1>7, <1>8, <1>9, <1>10, <1>11, <1>12, <1>13, <1>14, Replaced, ZenonT(40)

LEMMA StoreWishKeeps ==
    ASSUME IInv, NEW r \in Requests, StoreWish(r) PROVE IInv'
<1> USE DEF redis, chat
<1>1. PICK a \in Users : a = Owner[r]
    BY AccountsAssumption
<1>2. /\ pc[r] = "wish" /\ holder[a] = None /\ Goto(r, "done") /\ TypeOK
      /\ UNCHANGED <<things, holder, redis, chat, task, slipped, late, born, faults>>
      /\ Matches(a, local[r].copy) =>
             /\ user' = [user EXCEPT ![a] = [local[r].copy EXCEPT !.wish = 1]]
             /\ told' = told \cup {a} /\ undone' = undone \ {a}
      /\ ~Matches(a, local[r].copy) => UNCHANGED <<user, told, undone>>
    BY <1>1 DEF StoreWish, IInv
<1>3. CASE ~Matches(a, local[r].copy)
    <2> USE DEF task
    <2>1. /\ pc' \in [Requests -> Labels] /\ local' \in [Requests -> Local]
          /\ pc'[r] = "done" /\ Alone(r) /\ Writing(r)' /\ Copies(r)' /\ Listed(r)'
        BY <1>2, Ended DEF TypeOK
    <2>2. TypeOK'
        BY <1>2, <1>3, <2>1 DEF TypeOK
    <2>3. Sessions'
        BY <1>2, <1>3, <2>1, SessionsFrame
    <2> QED BY <1>2, <1>3, <2>1, <2>2, <2>3, Frame
<1>4. CASE Matches(a, local[r].copy)
    <2>1. PICK doc : doc = [local[r].copy EXCEPT !.wish = 1]
        OBVIOUS
    <2>2. /\ user' = [user EXCEPT ![a] = doc] /\ told' = told \cup {a} /\ undone' = undone \ {a}
        BY <1>2, <1>4, <2>1
    <2>3. local[r].copy \in User /\ local[r].copy.id <= born[a]
        BY <1>1, LocalKept DEF Local, Copied
    <2>4. /\ doc \in User /\ doc.id = user[a].id /\ doc.id # 0 /\ doc.wish = 1 /\ doc.id <= born[a]
        BY <1>4, <2>1, <2>3 DEF User, Matches
    <2>5. /\ born' \in [Users -> 0..MaxIds] /\ born[a] <= born'[a] /\ doc.id <= born'[a]
          /\ \A b \in Users \ {a} : born'[b] = born[b]
        BY <1>2, <2>4 DEF TypeOK
    <2>6. /\ holder' \in [Users -> Requests \cup {None}] /\ \A b \in Users \ {a} : holder'[b] = holder[b]
          /\ holder[a] \in {None, r}
        BY <1>2 DEF TypeOK
    <2>7. /\ told \subseteq told' /\ told' \subseteq Users /\ undone' \subseteq told' /\ persons' \subseteq Users
        BY <1>2, <2>2 DEF TypeOK
    <2>8. /\ doc.id = 0 => doc.wish = 0
          /\ doc.wish = 1 => a \in told'
          /\ doc.id = user[a].id \/ doc.id > born[a]
        BY <2>2, <2>4
    <2>9. WishKept'
        <3>1. ASSUME NEW b \in told' \ undone' PROVE user'[b].wish = 1
            <4>1. CASE b = a
                BY <1>2, <2>2, <2>4, <4>1 DEF TypeOK
            <4>2. CASE b # a
                BY <1>2, <2>2, <3>1, <4>2 DEF IInv, WishKept, TypeOK
            <4> QED BY <4>1, <4>2
        <3> QED BY <3>1 DEF WishKept
    <2>10. Sessions'
        <3>1. Alone(r) /\ pc'[r] = "done"
            BY <1>2, GotoOn
        <3>2. Removing \subseteq Removing'
            BY <1>2, <3>1 DEF Removing, Alone
        <3>3. ASSUME NEW t \in session, t \notin slipped \cup Removing PROVE Known(t)'
            <4>1. Known(t)
                BY <3>3 DEF IInv
            <4>2. t[1] # a
                BY <1>1, <1>2, <4>1 DEF Known, Deleting, IInv, Listed
            <4>3. \A q \in Deleting(t[1])' : q \in Deleting(t[1]) /\ local'[q] = local[q]
                BY <3>1 DEF Deleting, Alone
            <4> QED BY <1>2, <2>2, <4>1, <4>2, <4>3 DEF Known
        <3> QED BY <1>2, <3>2, <3>3 DEF Sessions
    <2>11. /\ pc[r] # "unsession" /\ Goto(r, "done") /\ user' = [user EXCEPT ![a] = doc]
           /\ UNCHANGED <<things, session, tries, auth, issued, task, slipped, late, faults>>
        BY <1>2, <2>2
    <2> QED BY <2>4, <2>5, <2>6, <2>7, <2>8, <2>9, <2>10, <2>11, Replaced, ZenonT(40)
<1> QED BY <1>3, <1>4

-----------------------------------------------------------------------------
(* Asking for the account to be deleted. *)

LEMMA DeleteTokenKeeps ==
    ASSUME IInv, NEW r \in Requests, DeleteToken(r) PROVE IInv'
<1> USE DEF documents, redis, task
<1>1. PICK t : t = First(local[r].tokens)
    OBVIOUS
<1>2. /\ pc[r] = "untoken" /\ TypeOK
      /\ \/ t \in auth /\ auth' = auth \ {t} /\ Goto(r, "unsession") /\ UNCHANGED faults
         \/ /\ Goto(r, "done") /\ UNCHANGED auth
            /\ IF t \in auth THEN Trouble ELSE UNCHANGED faults
      /\ UNCHANGED <<documents, redis, persons, issued, task, told, undone, slipped, late, born>>
    BY <1>1 DEF DeleteToken, IInv
<1>3. CASE t \in auth /\ auth' = auth \ {t} /\ Goto(r, "unsession") /\ UNCHANGED faults
    <2>1. "unsession" \in Labels \ {"done"} /\ t \in Tokens
        BY <1>2, <1>3 DEF Labels, TypeOK
    <2>2. /\ pc' \in [Requests -> Labels] /\ local' \in [Requests -> Local]
          /\ pc'[r] = "unsession" /\ local'[r] = local[r] /\ Alone(r) /\ Copies(r)'
        BY <1>2, <1>3, <2>1, GotoMoves
    <2>3. TypeOK'
        BY <1>2, <1>3, <2>2 DEF TypeOK
    <2>4. Writing(r)' /\ Listed(r)'
        BY <1>1, <1>2, <2>1, <2>2 DEF Writing, Listed, IInv
    <2>5. Sessions'
        <3>1. Removing \subseteq Removing' /\ t \in Removing'
            BY <1>1, <1>2, <2>2 DEF Removing, Alone
        <3>2. ASSUME NEW u \in session, u \notin slipped \cup Removing'
              PROVE  Known(u)'
            <4>1. Known(u) /\ u # t
                BY <3>1, <3>2 DEF IInv
            <4>2. \A q \in Deleting(u[1])' : q \in Deleting(u[1]) /\ local'[q] = local[q]
                BY <1>2, <2>2 DEF Deleting, Alone
            <4> QED BY <1>2, <1>3, <4>1, <4>2 DEF Known
        <3> QED BY <1>2, <3>2 DEF Sessions
    <2> QED BY <1>2, <2>2, <2>3, <2>4, <2>5, Frame
<1>4. CASE Goto(r, "done") /\ UNCHANGED auth /\ (IF t \in auth THEN Trouble ELSE UNCHANGED faults)
    <2>1. faults' \in 0..MaxTrouble
        BY <1>2, <1>4, AccountsAssumption DEF TypeOK, Trouble
    <2>2. /\ pc' \in [Requests -> Labels] /\ local' \in [Requests -> Local]
          /\ pc'[r] = "done" /\ Alone(r)
          /\ Writing(r)' /\ Copies(r)' /\ Listed(r)'
        BY <1>2, <1>4, Ended DEF TypeOK
    <2>3. TypeOK'
        BY <1>2, <1>4, <2>1, <2>2 DEF TypeOK
    <2>4. Sessions'
        BY <1>2, <1>4, <2>2, SessionsFrame
    <2> QED BY <1>2, <2>2, <2>3, <2>4, Frame
<1> QED BY <1>2, <1>3, <1>4

LEMMA DeleteSessionKeeps ==
    ASSUME IInv, NEW r \in Requests, DeleteSession(r) PROVE IInv'
<1> USE DEF documents, chat, task
<1>1. PICK t : t = First(local[r].tokens)
    OBVIOUS
<1>2. /\ pc[r] = "unsession" /\ TypeOK
      /\ UNCHANGED <<documents, tries, chat, task, told, undone, late, born>>
      /\ \/ /\ session' = session \ {t}
            /\ Move(r, "untoken", [local[r] EXCEPT !.tokens = @ \ {t}])
            /\ UNCHANGED <<slipped, faults>>
         \/ /\ Trouble /\ slipped' = slipped \cup {t} /\ Goto(r, "done") /\ UNCHANGED session
    BY <1>1 DEF DeleteSession, IInv
<1>3. /\ t \in Tokens /\ local[r].tokens \in SUBSET Tokens
      /\ \A u \in local[r].tokens : u[1] = Owner[r]
    BY <1>1, <1>2, LocalKept DEF IInv, Listed, Local
<1>4. ASSUME Alone(r), pc'[r] # "unsession"
      PROVE  Removing \ {t} \subseteq Removing'
    BY <1>1, <1>4 DEF Removing, Alone
<1>5. CASE /\ session' = session \ {t}
           /\ Move(r, "untoken", [local[r] EXCEPT !.tokens = @ \ {t}])
           /\ UNCHANGED <<slipped, faults>>
    <2>1. PICK ts : ts = local[r].tokens \ {t}
        OBVIOUS
    <2>2. /\ "untoken" \in Labels \ {"done", "commit", "clear", "clearcommit"}
          /\ ts \in SUBSET Tokens /\ Move(r, "untoken", [local[r] EXCEPT !.tokens = ts])
        BY <1>3, <1>5, <2>1 DEF Labels
    <2>3. /\ pc' \in [Requests -> Labels] /\ local' \in [Requests -> Local]
          /\ pc'[r] = "untoken" /\ local'[r].tokens = ts /\ Alone(r)
          /\ Writing(r)' /\ Copies(r)'
        BY <1>2, <2>2, TokensMove
    <2>4. TypeOK'
        BY <1>2, <1>5, <2>3 DEF TypeOK
    <2>5. Listed(r)'
        BY <1>3, <2>1, <2>3 DEF Listed
    <2>6. Sessions'
        <3>1. ASSUME NEW u \in session', u \notin slipped' \cup Removing'
              PROVE  Known(u)'
            <4>1. Known(u) /\ u # t
                BY <1>4, <1>5, <2>3, <3>1 DEF IInv
            <4>2. \A q \in Deleting(u[1])' : u \in local'[q].tokens
                <5>1. ASSUME NEW q \in Deleting(u[1])' PROVE u \in local'[q].tokens
                    <6>1. q \in Requests /\ Owner[q] = u[1]
                        BY DEF Deleting
                    <6>2. CASE q = r
                        BY <1>2, <2>1, <2>3, <4>1, <6>1, <6>2 DEF Known, Deleting
                    <6>3. CASE q # r
                        BY <2>3, <4>1, <6>1, <6>3 DEF Known, Deleting, Alone
                    <6> QED BY <6>2, <6>3
                <5> QED BY <5>1
            <4> QED BY <1>2, <4>1, <4>2 DEF Known
        <3> QED BY <3>1 DEF Sessions
    <2> QED BY <1>2, <2>3, <2>4, <2>5, <2>6, Frame
<1>6. CASE Trouble /\ slipped' = slipped \cup {t} /\ Goto(r, "done") /\ UNCHANGED session
    <2>1. faults' \in 0..MaxTrouble
        BY <1>2, <1>6, AccountsAssumption DEF TypeOK, Trouble
    <2>2. /\ pc' \in [Requests -> Labels] /\ local' \in [Requests -> Local]
          /\ pc'[r] = "done" /\ Alone(r)
          /\ Writing(r)' /\ Copies(r)' /\ Listed(r)'
        BY <1>2, <1>6, Ended DEF TypeOK
    <2>3. TypeOK'
        BY <1>2, <1>3, <1>6, <2>1, <2>2 DEF TypeOK
    <2>4. Sessions'
        <3>1. ASSUME NEW u \in session', u \notin slipped' \cup Removing'
              PROVE  Known(u)'
            <4>1. Known(u)
                BY <1>4, <1>6, <2>2, <3>1 DEF IInv
            <4>2. \A q \in Deleting(u[1])' : q \in Deleting(u[1]) /\ local'[q] = local[q]
                BY <2>2 DEF Deleting, Alone
            <4> QED BY <1>2, <4>1, <4>2 DEF Known
        <3> QED BY <3>1 DEF Sessions
    <2> QED BY <1>2, <2>2, <2>3, <2>4, Frame
<1> QED BY <1>2, <1>5, <1>6

-----------------------------------------------------------------------------
(* The cancellation. *)

\* A step of the task that leaves the accounts alone.
LEMMA TaskFrame ==
    ASSUME IInv, TypeOK', Sessions', NothingLeft',
           UNCHANGED <<user, holder, request, told, undone, born>>,
           at' \in {"chat", "bookmark", "post", "dao", "rest"} => whose' \in Users,
           at' \in {"dao", "rest"} =>
               \A t \in things' \ late' : t[1] = whose' => t[2] \notin Passed[at']
    PROVE  IInv'
<1> USE DEF request
<1>1. \A a \in Users : Copied(a, user[a])'
    BY DEF IInv, Copied
<1>2. ASSUME NEW q \in Requests PROVE Writing(q)' /\ Copies(q)' /\ Listed(q)'
    BY DEF IInv, Writing, Matches, Copies, Copied, Listed
<1>3. WishKept'
    BY DEF IInv, WishKept
<1> QED BY <1>1, <1>2, <1>3 DEF IInv, Sessions

\* Sessions stay known when no token goes that is not slipped, and nobody is told.
LEMMA TaskSessions ==
    ASSUME IInv, UNCHANGED <<session, request>>, told' \subseteq told, slipped \subseteq slipped',
           \A t \in session \ slipped' : t \in auth => t \in auth'
    PROVE  Sessions'
<1> USE DEF request
<1>1. Removing' = Removing
    BY DEF Removing
<1>2. ASSUME NEW t \in session', t \notin slipped' \cup Removing' PROVE Known(t)'
    <2>1. Known(t) /\ Deleting(t[1])' = Deleting(t[1])
        BY <1>1, <1>2 DEF IInv, Deleting
    <2> QED BY <1>2, <2>1 DEF Known
<1> QED BY <1>2 DEF Sessions

LEMMA TickKeeps ==
    ASSUME IInv, Tick \/ NextAddress PROVE IInv'
<1> USE DEF documents, redis, chat, request, history, Then
<1>1. /\ TypeOK /\ UNCHANGED <<documents, redis, chat, request, history>>
      /\ \/ at' \in {"next", "idle"} /\ list' \subseteq Users /\ whose' = whose
         \/ at' = "chat" /\ list' \subseteq Users /\ whose' \in Users
    BY DEF Tick, NextAddress, GetCancellationUsers, IInv, TypeOK
<1>2. TypeOK'
    BY <1>1 DEF TypeOK, Passed
<1>3. Sessions'
    BY <1>1, TaskSessions
<1>4. NothingLeft'
    BY <1>1 DEF IInv, NothingLeft
<1> QED BY <1>1, <1>2, <1>3, <1>4, TaskFrame

LEMMA DeleteChatUserKeeps ==
    ASSUME IInv, DeleteChatUser PROVE IInv'
<1> USE DEF documents, redis, Then
<1>1. /\ TypeOK /\ whose \in Users /\ at' = "bookmark"
      /\ persons' = persons \ {whose} /\ auth' = {t \in auth : t[1] # whose}
      /\ slipped' = slipped \cup {t \in session : t[1] = whose}
      /\ UNCHANGED <<issued, list, whose, documents, redis, request,
                     told, undone, late, born, faults>>
    BY DEF DeleteChatUser, IInv
<1>2. TypeOK'
    BY <1>1 DEF TypeOK, Passed, request
<1>3. Sessions'
    BY <1>1, TaskSessions
<1>4. NothingLeft'
    BY <1>1 DEF IInv, NothingLeft
<1> QED BY <1>1, <1>2, <1>3, <1>4, TaskFrame

LEMMA DeleteThingsKeep ==
    ASSUME IInv, DeleteDaoBookmarks \/ RealDeletePosts \/ RealDeleteDAO PROVE IInv'
<1> USE DEF redis, chat, Then
<1>1. PICK from \in {"bookmark", "post", "dao"}, k \in Kinds, label \in {"post", "dao", "rest"} :
          /\ DeleteThings(from, k, label)
          /\ label = "dao" => k = "post"
          /\ label = "rest" => k = "dao" /\ from = "dao"
    BY DEF DeleteDaoBookmarks, RealDeletePosts, RealDeleteDAO, Kinds
<1>2. /\ TypeOK /\ whose \in Users /\ at = from /\ at' = label
      /\ things' = {t \in things : ~(t[1] = whose /\ t[2] \in {k})}
      /\ late' = {t \in late : ~(t[1] = whose /\ t[2] \in {k})}
      /\ UNCHANGED <<user, holder, list, whose, redis, chat, request,
                     told, undone, slipped, born, faults>>
    BY <1>1 DEF DeleteThings, Remove, IInv
<1>3. TypeOK'
    BY <1>2 DEF TypeOK, Passed, request
<1>4. Sessions'
    BY <1>2, TaskSessions
<1>5. NothingLeft'
    BY <1>2 DEF IInv, NothingLeft
<1>6. ASSUME at' \in {"dao", "rest"}, NEW t \in things' \ late', t[1] = whose'
      PROVE  t[2] \notin Passed[at']
    <2>1. t \in things \ late /\ t[2] # k /\ t[1] = whose
        BY <1>2, <1>6
    <2>2. CASE at' = "dao"
        BY <1>1, <1>2, <2>1, <2>2 DEF Passed
    <2>3. CASE at' = "rest"
        <3>1. t[2] \notin Passed["dao"]
            BY <1>1, <1>2, <2>1, <2>3 DEF IInv
        <3> QED BY <1>1, <1>2, <2>1, <2>3, <3>1 DEF Passed
    <2> QED BY <1>6, <2>2, <2>3
<1> QED BY <1>2, <1>3, <1>4, <1>5, <1>6, TaskFrame

LEMMA CancellationFailsKeeps ==
    ASSUME IInv, CancellationFails PROVE IInv'
<1> USE DEF documents, redis, chat, Then
<1>1. /\ TypeOK /\ at' = "next" /\ faults' \in 0..MaxTrouble
      /\ UNCHANGED <<list, whose, documents, redis, chat, request,
                     told, undone, slipped, late, born>>
    BY AccountsAssumption DEF CancellationFails, Trouble, IInv, TypeOK
<1>2. TypeOK'
    BY <1>1 DEF TypeOK, Passed, request
<1>3. Sessions'
    BY <1>1, TaskSessions
<1>4. NothingLeft'
    BY <1>1 DEF IInv, NothingLeft
<1> QED BY <1>1, <1>2, <1>3, <1>4, TaskFrame

LEMMA CancellationKeeps ==
    ASSUME IInv, Cancellation PROVE IInv'
<1> USE DEF redis, chat, Then
<1>1. /\ TypeOK /\ at = "rest" /\ whose \in Users /\ holder[whose] = None /\ at' = "next"
      /\ user' = [user EXCEPT ![whose] = NoUser]
      /\ things' = {t \in things : ~(t[1] = whose /\ t[2] \in {"bookmark", "comment"})}
      /\ late' = {t \in late : ~(t[1] = whose /\ t[2] \in {"bookmark", "comment"})}
      /\ told' = told \ {whose} /\ undone' = undone \ {whose}
      /\ UNCHANGED <<holder, list, whose, redis, chat, request, slipped, born, faults>>
    BY DEF Cancellation, Remove, IInv
<1>2. NoUser \in User /\ NoUser.id = 0 /\ NoUser.wish = 0
    BY <1>1, NothingCopied DEF NoUser
<1>3. /\ user'[whose] = NoUser
      /\ \A b \in Users \ {whose} : user'[b] = user[b]
    BY <1>1 DEF TypeOK
<1>4. TypeOK'
    BY <1>1, <1>2 DEF TypeOK, Passed, request
<1>5. Sessions'
    BY <1>1, TaskSessions
<1>6. NothingLeft'
    <2>1. ASSUME NEW t \in things' \ late' PROVE user'[t[1]].id # 0
        <3>1. t \in things \ late /\ t[1] \in Users /\ t[2] \in Kinds
            BY <1>1, <2>1 DEF TypeOK
        <3>2. t[1] # whose
            <4>1. ASSUME t[1] = whose PROVE FALSE
                <5>1. t[2] \notin {"post", "dao"}
                    BY <1>1, <3>1, <4>1 DEF IInv, Passed
                <5>2. t[2] \notin {"bookmark", "comment"}
                    BY <1>1, <2>1, <4>1
                <5> QED BY <3>1, <5>1, <5>2 DEF Kinds
            <4> QED BY <4>1
        <3> QED BY <1>3, <3>1, <3>2 DEF IInv, NothingLeft
    <2> QED BY <2>1 DEF NothingLeft
<1>7. ASSUME NEW b \in Users, NEW d, Copied(b, d) PROVE Copied(b, d)'
    <2>1. CASE b = whose
        BY <1>1, <1>2, <1>3, <1>7, <2>1 DEF Copied
    <2>2. CASE b # whose
        BY <1>1, <1>3, <1>7, <2>2 DEF Copied
    <2> QED BY <2>1, <2>2
<1>8. ASSUME NEW b \in Users PROVE Copied(b, user[b])'
    <2>1. CASE b = whose
        BY <1>1, <1>2, <1>3, <2>1, NothingCopied DEF Copied
    <2>2. CASE b # whose
        <3>1. Copied(b, user[b])
            BY DEF IInv
        <3> QED BY <1>1, <1>3, <2>2, <3>1 DEF Copied
    <2> QED BY <2>1, <2>2
<1>9. ASSUME NEW q \in Requests PROVE Writing(q)' /\ Copies(q)' /\ Listed(q)'
    <2>1. /\ pc'[q] = pc[q] /\ local'[q] = local[q] /\ Owner[q] \in Users /\ q # None
          /\ Writing(q) /\ Copies(q) /\ Listed(q)
        BY <1>1, AccountsAssumption DEF request, IInv
    <2>2. \A b \in Users : holder[b] = q => user'[b] = user[b]
        BY <1>1, <1>3, <2>1
    <2>3. Writing(q)'
        BY <1>1, <2>1, <2>2 DEF Writing, Matches
    <2>4. Copied(Owner[q], local[q].copy)' /\ (local[q].who \in Users => Copied(local[q].who, local[q].doc)')
        BY <1>7, <2>1 DEF Copies
    <2>5. Copies(q)'
        BY <2>1, <2>4 DEF Copies
    <2> QED BY <2>1, <2>3, <2>5 DEF Listed
<1>10. WishKept'
    <2>1. ASSUME NEW b \in told' \ undone' PROVE user'[b].wish = 1
        BY <1>1, <1>3, <2>1 DEF IInv, WishKept, TypeOK
    <2> QED BY <2>1 DEF WishKept
<1> QED BY <1>1, <1>4, <1>5, <1>6, <1>8, <1>9, <1>10 DEF IInv, Sessions

-----------------------------------------------------------------------------
(* The invariant. *)

LEMMA InitHolds == Init => IInv
<1> SUFFICES ASSUME Init PROVE IInv
    OBVIOUS
<1> USE AccountsAssumption
<1>1. NoUser \in User /\ NoUser = [id |-> 0, wish |-> 0, token |-> None] /\ Nothing \in Local
    BY DEF NoUser, User, Nothing, Local
<1>2. \A a \in Users : user[a] \in User /\ user[a].id = 1 /\ user[a].wish = 0
    <2>1. ASSUME NEW a \in Users PROVE user[a] \in User /\ user[a].id = 1 /\ user[a].wish = 0
        <3>1. user[a] \in {[NoUser EXCEPT !.id = 1, !.token = t] : t \in Devices \cup {None}}
            BY DEF Init
        <3>2. PICK t \in Devices \cup {None} : user[a] = [id |-> 1, wish |-> 0, token |-> t]
            BY <1>1, <3>1
        <3>3. 1 \in 0..MaxIds
            OBVIOUS
        <3> QED BY <3>2, <3>3 DEF User
    <2> QED BY <2>1
<1>3. TypeOK
    <2>1. user \in [Users -> User]
        BY <1>2 DEF Init
    <2>2. /\ things \subseteq Users \X Kinds
          /\ holder \in [Users -> Requests \cup {None}]
        BY DEF Init
    <2>3. tries \in [Users -> Nat] /\ persons \subseteq Users /\ faults \in 0..MaxTrouble
        <3>1. tries = [a \in Users |-> 0] /\ persons = Users /\ faults = 0
            BY DEF Init
        <3> QED BY <3>1
    <2>4. issued \in [Users -> 0..MaxTokens] /\ born \in [Users -> 0..MaxIds]
        <3>1. 1 \in 0..MaxTokens /\ 1 \in 0..MaxIds
            OBVIOUS
        <3>2. issued = [a \in Users |-> 1] /\ born = [a \in Users |-> 1]
            BY DEF Init
        <3> QED BY <3>1, <3>2
    <2>5. session \subseteq Tokens /\ auth \subseteq Tokens /\ slipped \subseteq Tokens
        <3>1. 1 \in 1..MaxTokens
            OBVIOUS
        <3>2. session = {<<a, 1>> : a \in Users} /\ auth = {<<a, 1>> : a \in Users} /\ slipped = {}
            BY DEF Init
        <3> QED BY <3>1, <3>2 DEF Tokens
    <2>6. pc \in [Requests -> Labels] /\ local \in [Requests -> Local]
        BY <1>1 DEF Init, Labels
    <2>7. /\ at \in DOMAIN Passed /\ list \subseteq Users /\ whose \in Users \cup {None}
          /\ told \subseteq Users /\ undone \subseteq told /\ late \subseteq things
        BY DEF Init, Passed
    <2> QED BY <2>1, <2>2, <2>3, <2>4, <2>5, <2>6, <2>7 DEF TypeOK
<1>4. ASSUME NEW a \in Users PROVE Copied(a, user[a])
    <2>1. born[a] = 1
        BY DEF Init
    <2> QED BY <1>2, <2>1 DEF Copied
<1>5. ASSUME NEW r \in Requests PROVE Writing(r) /\ Copies(r) /\ Listed(r)
    <2>1. pc[r] = "idle" /\ local[r] = Nothing /\ Owner[r] \in Users /\ born[Owner[r]] = 1
        BY DEF Init
    <2>2. local[r].who \notin Users /\ local[r].copy.id = 0 /\ local[r].copy.wish = 0
        BY <2>1 DEF Nothing, NoUser
    <2> QED BY <2>1, <2>2 DEF Writing, Copies, Copied, Listed
<1>6. WishKept /\ at = "idle"
    BY DEF Init, WishKept
<1>7. \A t \in session \ (slipped \cup Removing) : Known(t)
    BY DEF Init, Known, Deleting
<1>8. NothingLeft
    <2>1. \A t \in things : t[1] \in Users
        BY <1>3 DEF TypeOK
    <2> QED BY <1>2, <2>1 DEF NothingLeft
<1> QED BY <1>3, <1>4, <1>5, <1>6, <1>7, <1>8 DEF IInv

LEMMA NextKeeps == IInv /\ [Next]_vars => IInv'
<1> SUFFICES ASSUME IInv, [Next]_vars PROVE IInv'
    OBVIOUS
<1>1. CASE UNCHANGED vars
    <2>1. TypeOK' /\ NothingLeft' /\ Sessions'
        BY <1>1, TaskSessions DEF vars, documents, redis, chat, request, task, history,
                                  IInv, TypeOK, NothingLeft
    <2> QED BY <1>1, <2>1, TaskFrame DEF vars, documents, task, history, IInv
<1>2. CASE \E r \in Requests :
               CallLogin(r) \/ ChangeUser(r) \/ CallMake(r) \/ CallDelete(r) \/ CallStep(r)
    <2>1. PICK r \in Requests :
               CallLogin(r) \/ ChangeUser(r) \/ CallMake(r) \/ CallDelete(r) \/ CallStep(r)
        BY <1>2
    <2>2. CASE CallLogin(r) \/ FindDevice(r) \/ CheckTries(r) \/ GoodSignature(r)
               \/ BadSignature(r) \/ ClearTries(r) \/ NoMoreTokens(r)
        BY <2>2, CallLoginKeeps, FindDeviceKeeps, LoginStepsKeep
    <2>3. CASE GetAuthToken(r) \/ SetSession(r) \/ Make(r)
               \/ ChangeUser(r) \/ CallMake(r) \/ CallDelete(r)
        BY <2>3, GetAuthTokenKeeps, SetSessionKeeps, MakeKeeps, CallsKeep
    <2>4. CASE StoreUser(r) \/ ClearDevice(r) \/ BeginCreate(r) \/ TransactionFails(r)
               \/ CommitUser(r) \/ CommitClear(r) \/ CommitCreate(r)
        BY <2>4, BeginsKeep, TransactionFailsKeeps, CommitUserKeeps, CommitClearKeeps,
           CommitCreateKeeps
    <2>5. CASE Look(r) \/ ListTokens(r) \/ DeleteToken(r) \/ DeleteSession(r) \/ StoreWish(r)
        BY <2>5, LookKeeps, ListTokensKeeps, DeleteTokenKeeps, DeleteSessionKeeps, StoreWishKeeps
    <2> QED BY <2>1, <2>2, <2>3, <2>4, <2>5 DEF CallStep
<1>3. CASE Tick \/ TaskStep
    BY <1>3, TickKeeps, DeleteChatUserKeeps, DeleteThingsKeep, CancellationKeeps,
       CancellationFailsKeeps DEF TaskStep
<1> QED BY <1>1, <1>2, <1>3 DEF Next

\* The strengthening holds in every state.
THEOREM Invariant == Spec => []IInv
    BY InitHolds, NextKeeps, PTL DEF Spec

\* Documents, copies, tokens and counters stay what they are typed to be, and nobody is
\* registered more often than registrations are counted.
THEOREM TypeCorrect == Spec => []TypeOK
<1>1. IInv => TypeOK
    BY DEF IInv
<1> QED BY <1>1, Invariant, PTL

\* Who was told that the account is going to be deleted has the wish stored, unless a copy
\* read before (ChangeNickname, ChangeAvatar, a login, another login with the device) was
\* written over it: nothing else in the code takes a wish back.
THEOREM WishStays == Spec => []WishKept
<1>1. IInv => WishKept
    BY DEF IInv
<1> QED BY <1>1, Invariant, PTL

\* DeleteUser leaves its caller no session but those it could not know of: made meanwhile,
\* cut loose by a failure or by the cancellation, or about to be removed.
THEOREM NoSessionLeft == Spec => []SessionsEnd
<1>1. IInv => SessionsEnd
    BY DEF IInv, SessionsEnd, Known
<1> QED BY <1>1, Invariant, PTL

\* Once an address has no account, what it still has was made behind the cancellation.
THEOREM NothingIsLeft == Spec => []NothingLeft
<1>1. IInv => NothingLeft
    BY DEF IInv
<1> QED BY <1>1, Invariant, PTL
=============================================================================
