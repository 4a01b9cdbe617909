------------------------------ MODULE Messages ------------------------------
(***************************************************************************)
(* The messages of one reader: what the notification service stores for    *)
(* them, the mark up to which they are read, the list of their senders and *)
(* the deletion of all that came from one (internal/service/notify.go,     *)
(* internal/dao/monogo/msg*.go, organ.go, internal/model/msg*.go,          *)
(* organ.go, internal/routers/api/notify.go).                              *)
(*                                                                         *)
(* A message is a document, msg, and a row for the reader, msg_send.  The  *)
(* mark is a row, msg_read, found by its sender and its reader and stamped *)
(* with a second.  No two of these are written together, and several       *)
(* devices of the reader call at once.                                     *)
(*                                                                         *)
(* Left out: texts, links and pages (a page holds all the senders); the    *)
(* operations that only count or list (GetNotifyUnread, NotifyOrganList,   *)
(* NotifyByFrom, NotifySys); DeleteNotifyById, which looks a row up by     *)
(* "msgID" where the field is "msg_id", finds none and writes nothing.     *)
(***************************************************************************)
EXTENDS Integers, Sequences

CONSTANTS
    Requests,    \* calls of the reader's devices
    Senders,     \* who the reader gets messages from
    Kind,        \* what each is: "dao", "user", "organ" or an organ that is "hidden"
    MaxMessages, \* bound: messages
    MaxTime,     \* bound: the clock, in seconds
    MaxTrouble   \* bound: reads and writes that fail

ASSUME MessagesAssumption ==
    /\ Senders # {}
    /\ Kind \in [Senders -> {"dao", "user", "organ", "hidden"}]
    /\ MaxMessages \in Nat
    /\ MaxTime \in Nat \ {0}
    /\ MaxTrouble \in Nat

VARIABLES
    now,     \* the clock
    mail,    \* per message of the notification service: how far it is
    from,    \* its sender
    stamp,   \* the second its row was made in
    msgs,    \* the documents there are
    sends,   \* the messages that have a row
    rows,    \* per sender: the rows of msg_read, in the order they were inserted
    gone,    \* the senders whose DAO or account is deleted
    op,      \* what each request does
    who,     \* the sender it is about
    pc,      \* where it is
    found,   \* the row of msg_read it found, and then the one it writes
    todo,    \* the messages it has to delete, or the senders it has to list
    last,    \* the message it shows of the sender
    answer,  \* what it was answered
    trouble, \* reads and writes that failed
    \* History:
    made,    \* per sender: rows of msg_read made so far, which is their identity
    owed,    \* per sender: the last second that the reader was told was marked
    crossed, \* senders whose marks were under way together, or whose row was not read
    cut,     \* requests during which rows were deleted
    missed,  \* messages whose row was deleted by a request that had not listed it
    broken   \* messages left by a request whose write failed

mailbox == <<mail, from, stamp, msgs, sends>>
local   == <<op, who, pc, found, todo, last, answer>>
history == <<made, owed, crossed, cut, missed, broken>>
vars    == <<now, mailbox, rows, gone, local, trouble, history>>

Messages == 1..MaxMessages
Row      == [id : Nat, at : 0..MaxTime]
NoRow    == [id |-> 0, at |-> 0]
Anyone   == CHOOSE s \in Senders : TRUE

Labels   == {"idle", "find", "create", "update", "insert", "set", "list", "sends", "rows", "msgs",
             "groups", "last", "message", "info", "done"}

TypeOK ==
    /\ now \in 1..MaxTime
    /\ mail \in [Messages -> {"none", "stored", "stamped", "sent"}]
    /\ from \in [Messages -> Senders]
    /\ stamp \in [Messages -> 0..MaxTime]
    /\ msgs \subseteq Messages /\ sends \subseteq Messages
    /\ rows \in [Senders -> Seq(Row)]
    /\ gone \subseteq Senders
    /\ who \in [Requests -> Senders]
    /\ op \in [Requests -> {"none", "mark", "clear", "group"}]
    /\ pc \in [Requests -> Labels]
    /\ found \in [Requests -> Row]
    /\ todo \in [Requests -> SUBSET (Messages \cup Senders)]
    /\ DOMAIN answer = Requests
    /\ trouble \in 0..MaxTrouble
    /\ made \in [Senders -> Nat]
    /\ owed \in [Senders -> 0..MaxTime]
    /\ crossed \subseteq Senders /\ cut \subseteq Requests

\* The reader may have marked a sender before.
Init ==
    /\ now = 1
    /\ mail = [m \in Messages |-> "none"]
    /\ from = [m \in Messages |-> Anyone]
    /\ stamp = [m \in Messages |-> 0]
    /\ msgs = {}
    /\ sends = {}
    /\ rows \in [Senders -> {<<>>, <<[id |-> 1, at |-> 1]>>}]
    /\ gone = {}
    /\ op = [r \in Requests |-> "none"]
    /\ who = [r \in Requests |-> Anyone]
    /\ pc = [r \in Requests |-> "idle"]
    /\ found = [r \in Requests |-> NoRow]
    /\ todo = [r \in Requests |-> {}]
    /\ last = [r \in Requests |-> 0]
    /\ answer = [r \in Requests |-> "none"]
    /\ trouble = 0
    /\ made = [s \in Senders |-> Len(rows[s])]
    /\ owed = [s \in Senders |-> Len(rows[s])]
    /\ crossed = {}
    /\ cut = {}
    /\ missed = {}
    /\ broken = {}

Goto(r, label) == pc' = [pc EXCEPT ![r] = label]

Answer(r, what) == Goto(r, "done") /\ answer' = [answer EXCEPT ![r] = what]

Tick ==
    /\ now < MaxTime
    /\ now' = now + 1
    /\ UNCHANGED <<mailbox, rows, gone, local, trouble, history>>

-----------------------------------------------------------------------------
(* The notification service, which is not in this repository, uses the     *)
(* models of this one: the document, then the row with the second it was   *)
(* made in.                                                                *)

StoreMsg(m) ==
    /\ mail[m] = "none"
    /\ \A k \in Messages : k < m => mail[k] # "none"
    /\ mail' = [mail EXCEPT ![m] = "stored"]
    /\ \E s \in Senders : from' = [from EXCEPT ![m] = s]
    /\ msgs' = msgs \cup {m}
    /\ UNCHANGED <<now, stamp, sends, rows, gone, local, trouble, history>>

\* MsgSend.Create takes the time before it inserts.
StampSend(m) ==
    /\ mail[m] = "stored"
    /\ mail' = [mail EXCEPT ![m] = "stamped"]
    /\ stamp' = [stamp EXCEPT ![m] = now]
    /\ UNCHANGED <<now, from, msgs, sends, rows, gone, local, trouble, history>>

StoreSend(m) ==
    /\ mail[m] = "stamped"
    /\ mail' = [mail EXCEPT ![m] = "sent"]
    /\ sends' = sends \cup {m}
    /\ UNCHANGED <<now, from, stamp, msgs, rows, gone, local, trouble, history>>

\* A DAO or an account is deleted; its messages stay.
SenderGoes(s) ==
    /\ s \notin gone
    /\ Kind[s] \in {"dao", "user"}
    /\ gone' = gone \cup {s}
    /\ UNCHANGED <<now, mailbox, rows, local, trouble, history>>

-----------------------------------------------------------------------------
(* Calling. *)

Begins == [mark |-> "find", clear |-> "list", group |-> "groups"]

Call(r) ==
    /\ pc[r] = "idle"
    /\ \E o \in DOMAIN Begins :
          /\ op' = [op EXCEPT ![r] = o]
          /\ IF o = "group" THEN UNCHANGED who ELSE \E s \in Senders : who' = [who EXCEPT ![r] = s]
          /\ Goto(r, Begins[o])
    /\ UNCHANGED <<now, mailbox, rows, gone, found, todo, last, answer, trouble, history>>

\* The rows of a sender (MsgSend.List).
From(s) == {m \in sends : from[m] = s}

-----------------------------------------------------------------------------
(* PutNotifyRead. *)

Marking(s) == {r \in Requests : who[r] = s /\ pc[r] \in {"create", "update", "insert", "set"}}

\* FindOne gives the row that was inserted first.
FindOne(s) == IF rows[s] = <<>> THEN NoRow ELSE Head(rows[s])

GetMsgRead(r) ==
    LET s == who[r] IN
    /\ pc[r] = "find"
    /\ found' = [found EXCEPT ![r] = FindOne(s)]
    /\ Goto(r, IF rows[s] = <<>> THEN "create" ELSE "update")
    /\ crossed' = IF Marking(s) = {} THEN crossed ELSE crossed \cup {s}
    /\ UNCHANGED <<now, mailbox, rows, gone, op, who, todo, last, answer, trouble, made, owed, cut,
                   missed, broken>>

\* A row that cannot be read is taken for one that is not there.
GetMsgReadFails(r) ==
    /\ pc[r] = "find"
    /\ trouble < MaxTrouble
    /\ trouble' = trouble + 1
    /\ found' = [found EXCEPT ![r] = NoRow]
    /\ Goto(r, "create")
    /\ crossed' = crossed \cup {who[r]}
    /\ UNCHANGED <<now, mailbox, rows, gone, op, who, todo, last, answer, made, owed, cut, missed,
                   broken>>

\* The row to write gets its second before it is written.
Stamp(r) ==
    /\ pc[r] \in {"create", "update"}
    /\ found' = [found EXCEPT ![r].at = now]
    /\ Goto(r, IF pc[r] = "create" THEN "insert" ELSE "set")
    /\ UNCHANGED <<now, mailbox, rows, gone, op, who, todo, last, answer, trouble, history>>

\* The reader is told, and is owed what the answer says, unless the rows were deleted
\* while the request ran.
Told(r) == owed' = [owed EXCEPT ![who[r]] = IF r \in cut \/ @ > found[r].at THEN @ ELSE found[r].at]

CreateMsgRead(r) ==
    LET s == who[r] IN
    /\ pc[r] = "insert"
    /\ made' = [made EXCEPT ![s] = @ + 1]
    /\ rows' = [rows EXCEPT ![s] = Append(@, [id |-> made[s] + 1, at |-> found[r].at])]
    /\ owed' = [owed EXCEPT ![s] = IF @ > found[r].at THEN @ ELSE found[r].at]
    /\ Answer(r, "marked")
    /\ UNCHANGED <<now, mailbox, gone, op, who, found, todo, last, trouble, crossed, cut, missed,
                   broken>>

\* UpdateMany sets the whole row, its _id too, on every row of the sender.  The row that
\* was found takes it; at the first one that has another _id the update fails.
Updated(s, row) ==
    [i \in DOMAIN rows[s] |-> IF i = 1 /\ rows[s][i].id = row.id THEN row ELSE rows[s][i]]

Refused(s, row) == \E i \in DOMAIN rows[s] : rows[s][i].id # row.id

\* MUTANT: the update keeps the second the row was found with.
UpdateStale(r) ==
    LET s == who[r] IN
    /\ pc[r] = "set"
    /\ rows' = rows
    /\ IF Refused(s, found[r])
       THEN Answer(r, "unmarked") /\ UNCHANGED owed
       ELSE Answer(r, "marked") /\ Told(r)
    /\ UNCHANGED <<now, mailbox, gone, op, who, found, todo, last, trouble, made, crossed, cut,
                   missed, broken>>

UpdateReadAt(r) ==
    LET s == who[r] IN
    /\ pc[r] = "set"
    /\ rows' = [rows EXCEPT ![s] = Updated(s, found[r])]
    /\ IF Refused(s, found[r])
       THEN Answer(r, "unmarked") /\ UNCHANGED owed
       ELSE Answer(r, "marked") /\ Told(r)
    /\ UNCHANGED <<now, mailbox, gone, op, who, found, todo, last, trouble, made, crossed, cut,
                   missed, broken>>

MarkFails(r) ==
    /\ pc[r] \in {"insert", "set"}
    /\ trouble < MaxTrouble
    /\ trouble' = trouble + 1
    /\ Answer(r, "failed")
    /\ UNCHANGED <<now, mailbox, rows, gone, op, who, found, todo, last, history>>

-----------------------------------------------------------------------------
(* DeleteNotifyByFrom: the rows of the sender, its mark, and then the      *)
(* messages whose rows were listed at first.                               *)

ListSends(r) ==
    /\ pc[r] = "list"
    /\ todo' = [todo EXCEPT ![r] = From(who[r])]
    /\ Goto(r, "sends")
    /\ UNCHANGED <<now, mailbox, rows, gone, op, who, found, last, answer, trouble, history>>

\* Requests that list this sender, or any.
Listing == {r \in Requests : op[r] = "group" /\ pc[r] \notin {"idle", "done"}}

\* MUTANT: the messages go, and their rows stay.
DeleteNoSend(r) ==
    /\ pc[r] = "sends"
    /\ Goto(r, "rows")
    /\ UNCHANGED <<now, mailbox, rows, gone, op, who, found, todo, last, answer, trouble, history>>

DeleteMsgSend(r) ==
    LET s == who[r] IN
    /\ pc[r] = "sends"
    /\ sends' = sends \ From(s)
    /\ missed' = missed \cup (From(s) \ todo[r])
    /\ cut' = cut \cup Listing
    /\ Goto(r, "rows")
    /\ UNCHANGED <<now, mail, from, stamp, msgs, rows, gone, op, who, found, todo, last, answer,
                   trouble, made, owed, crossed, broken>>

DeleteMsgRead(r) ==
    LET s == who[r] IN
    /\ pc[r] = "rows"
    /\ rows' = [rows EXCEPT ![s] = <<>>]
    /\ owed' = [owed EXCEPT ![s] = 0]
    /\ cut' = cut \cup Marking(s)
    /\ crossed' = IF \A p, q \in Marking(s) : p = q THEN crossed \ {s} ELSE crossed
    /\ Goto(r, "msgs")
    /\ UNCHANGED <<now, mailbox, gone, op, who, found, todo, last, answer, trouble, made, missed,
                   broken>>

\* MUTANT: only the newest message is deleted.
DeleteOneMsg(r) ==
    /\ pc[r] = "msgs"
    /\ \E m \in todo[r] :
          /\ msgs' = msgs \ {m}
          /\ todo' = [todo EXCEPT ![r] = {}]
    /\ UNCHANGED <<now, mail, from, stamp, sends, rows, gone, op, who, pc, found, last, answer,
                   trouble, history>>

DeleteMsg(r) ==
    /\ pc[r] = "msgs"
    /\ \E m \in todo[r] :
          /\ msgs' = msgs \ {m}
          /\ todo' = [todo EXCEPT ![r] = @ \ {m}]
    /\ UNCHANGED <<now, mail, from, stamp, sends, rows, gone, op, who, pc, found, last, answer,
                   trouble, history>>

Cleared(r) ==
    /\ pc[r] = "msgs"
    /\ todo[r] = {}
    /\ Answer(r, "cleared")
    /\ UNCHANGED <<now, mailbox, rows, gone, op, who, found, todo, last, trouble, history>>

\* Whichever write fails, the rest is not done.
ClearFails(r) ==
    /\ \/ pc[r] \in {"sends", "rows"}
       \/ pc[r] = "msgs" /\ todo[r] # {}
    /\ trouble < MaxTrouble
    /\ trouble' = trouble + 1
    /\ broken' = broken \cup todo[r]
    /\ Answer(r, "failed")
    /\ UNCHANGED <<now, mailbox, rows, gone, op, who, found, todo, last, made, owed, crossed, cut,
                   missed>>

-----------------------------------------------------------------------------
(* NotifyGroupList: the senders, and of each the last message and what it  *)
(* is called now.  The whole list fails with the first that has none.      *)

GetOrganNotShow == {s \in Senders : Kind[s] = "hidden"}

\* The senders of the reader's rows, but those that are not shown.
ListGroup == {from[m] : m \in sends} \ GetOrganNotShow

ListMsgSend(r) ==
    /\ pc[r] = "groups"
    /\ todo' = [todo EXCEPT ![r] = ListGroup]
    /\ IF ListGroup = {} THEN Answer(r, "empty") ELSE Goto(r, "last") /\ UNCHANGED answer
    /\ UNCHANGED <<now, mailbox, rows, gone, op, who, found, last, trouble, history>>

\* The row with the greatest _id, whose first bytes are the second it was made in.
Newest(s) == {m \in From(s) : \A k \in From(s) : stamp[k] <= stamp[m]}

\* GetLast gives neither a row nor an error when there is none: its use panics.
GetLastMsg(r) ==
    /\ pc[r] = "last"
    /\ \E s \in todo[r] :
          /\ who' = [who EXCEPT ![r] = s]
          /\ \/ /\ Newest(s) = {}
                /\ Answer(r, "panic")
                /\ UNCHANGED last
             \/ /\ \E m \in Newest(s) : last' = [last EXCEPT ![r] = m]
                /\ Goto(r, "message")
                /\ UNCHANGED answer
    /\ UNCHANGED <<now, mailbox, rows, gone, op, found, todo, trouble, history>>

GetMsgById(r) ==
    /\ pc[r] = "message"
    /\ IF last[r] \in msgs THEN Goto(r, "info") /\ UNCHANGED answer ELSE Answer(r, "nomessage")
    /\ UNCHANGED <<now, mailbox, rows, gone, op, who, found, todo, last, trouble, history>>

\* A DAO that is deleted fails the list; an account that is deleted panics, since the
\* error made for it has the code of success (errcode.NewError refuses a code twice).
GetSender(r) ==
    /\ pc[r] = "info"
    /\ IF who[r] \in gone
       THEN /\ Answer(r, IF Kind[who[r]] = "dao" THEN "nodao" ELSE "panic")
            /\ UNCHANGED todo
       ELSE /\ todo' = [todo EXCEPT ![r] = @ \ {who[r]}]
            /\ IF todo[r] = {who[r]} THEN Answer(r, "listed") ELSE Goto(r, "last") /\ UNCHANGED answer
    /\ UNCHANGED <<now, mailbox, rows, gone, op, who, found, last, trouble, history>>

-----------------------------------------------------------------------------

Request(r) ==
    \/ Call(r)
    \/ GetMsgRead(r) \/ GetMsgReadFails(r) \/ Stamp(r) \/ CreateMsgRead(r) \/ UpdateReadAt(r)
    \/ MarkFails(r)
    \/ ListSends(r) \/ DeleteMsgSend(r) \/ DeleteMsgRead(r) \/ DeleteMsg(r) \/ Cleared(r)
    \/ ClearFails(r)
    \/ ListMsgSend(r) \/ GetLastMsg(r) \/ GetMsgById(r) \/ GetSender(r)

Next ==
    \/ Tick
    \/ \E m \in Messages : StoreMsg(m) \/ StampSend(m) \/ StoreSend(m)
    \/ \E s \in Senders : SenderGoes(s)
    \/ \E r \in Requests : Request(r)

Spec == Init /\ [][Next]_vars

-----------------------------------------------------------------------------
(* Properties. *)

\* What GetMsgRead says is read, or nothing.
ReadAt(s) == FindOne(s).at

\* A mark is lost only to another one: when the reader was told that a sender is read up to
\* a second and the stored mark is another, or there are two rows of it, or a mark is about
\* to be refused, then two marks of that sender were under way together, or one could not
\* read the row.  (PutNotifyRead reads, stamps and writes in three steps, and the write of
\* a copy takes the mark back.)
MarkKept ==
    /\ \A s \in Senders : ReadAt(s) # owed[s] \/ Len(rows[s]) > 1 => s \in crossed
    /\ \A r \in Requests : pc[r] = "set" /\ Refused(who[r], found[r]) => who[r] \in crossed

\* Unless a sender's account or DAO is deleted, the list of senders fails, or its handler
\* panics, only when rows were deleted while it was made: nothing else leaves a row
\* without its message or a sender without a row.
ListExplained ==
    \A r \in Requests :
        answer[r] \in {"panic", "nomessage", "nodao"} => r \in cut \/ who[r] \in gone

\* A message that no reader can reach any more is one whose deletion is under way, one
\* that came between the listing of a deletion and its writes, or one whose deletion
\* failed half way.
OrphanExplained ==
    \A m \in msgs \ sends :
        \/ mail[m] # "sent"
        \/ m \in missed \cup broken
        \/ \E r \in Requests : pc[r] \in {"rows", "msgs"} /\ m \in todo[r]

-----------------------------------------------------------------------------
(* The invariant that the proofs use. *)

\* What the one request that marks s has found is what is stored, or nothing is, since
\* there was nothing or it was deleted meanwhile.
Fits(r, s) ==
    /\ pc[r] \in {"create", "insert"} \/ r \in cut => rows[s] = <<>>
    /\ pc[r] \in {"update", "set"} /\ r \notin cut =>
          rows[s] # <<>> /\ Head(rows[s]).id = found[r].id
    /\ pc[r] = "set" /\ r \notin cut => owed[s] <= found[r].at

Sole(s) ==
    /\ Len(rows[s]) <= 1
    /\ ReadAt(s) = owed[s]
    /\ \A p, q \in Marking(s) : p = q
    /\ \A r \in Marking(s) : Fits(r, s)

\* A mark begins with rows that nobody has deleted, and is not stamped in the future.
Begun(r) ==
    /\ pc[r] \in {"find", "create", "update", "insert", "set"} => op[r] = "mark"
    /\ pc[r] \in {"idle", "find"} => r \notin cut
    /\ pc[r] \in {"insert", "set"} => found[r].at <= now

\* What a deletion has listed are messages of its sender, and their rows go first; what a
\* list has are senders.
Listed(r) ==
    /\ pc[r] \in {"sends", "rows", "msgs"} =>
          \A m \in todo[r] : m \in Messages /\ mail[m] = "sent" /\ from[m] = who[r]
    /\ pc[r] \in {"rows", "msgs"} => todo[r] \cap sends = {}
    /\ pc[r] \in {"last", "message", "info"} => todo[r] \subseteq Senders

Delivered(m) ==
    /\ mail[m] = "none" => m \notin msgs \cup sends
    /\ mail[m] \in {"stored", "stamped"} => m \in msgs \ sends

IInv ==
    /\ TypeOK
    /\ \A s \in Senders \ crossed : Sole(s)
    /\ \A s \in Senders : owed[s] <= now
    /\ \A r \in Requests : Begun(r) /\ Listed(r)
    /\ \A m \in Messages : Delivered(m)
    /\ sends \subseteq msgs
    /\ OrphanExplained

\* A list whose senders still have a row each, unless rows were deleted since it began; the
\* message it has chosen has its row as well.
Listable(r) ==
    /\ pc[r] \in {"groups", "last", "message", "info"} => op[r] = "group"
    /\ answer[r] \in {"panic", "nomessage", "nodao"} =>
          pc[r] = "done" /\ (r \in cut \/ who[r] \in gone)
    /\ pc[r] \in {"last", "message", "info"} /\ r \notin cut =>
          \A s \in todo[r] : From(s) # {}
    /\ pc[r] = "message" /\ r \notin cut => last[r] \in sends

ListInv ==
    /\ DOMAIN last = Requests
    /\ \A r \in Requests : Listable(r)
=============================================================================
