--------------------------- MODULE MessagesProofs ---------------------------
(***************************************************************************)
(* TLAPS proofs about Messages, for any number of devices, senders and     *)
(* messages: the invariant IInv is inductive, a mark is lost only to       *)
(* another one, a message loses its row only as named, and the list of     *)
(* senders fails only when rows are deleted or the sender is.              *)
(***************************************************************************)
EXTENDS Messages, WellFoundedInduction, TLAPS

\* The other requests stand still.
Alone(r) ==
    \A q \in Requests \ {r} :
        /\ pc'[q] = pc[q] /\ op'[q] = op[q] /\ who'[q] = who[q]
        /\ found'[q] = found[q] /\ todo'[q] = todo[q]

Marks == {"create", "update", "insert", "set"}
Clears == {"sends", "rows", "msgs"}

LEMMA AnyoneSends == Anyone \in Senders
    BY MessagesAssumption DEF Anyone

-----------------------------------------------------------------------------
(* What a step leaves as it is. *)

\* Steps of requests that do not mark.
LEMMA MarksFrame ==
    ASSUME IInv, NEW r \in Requests, Alone(r), pc[r] \notin Marks, pc'[r] \notin Marks,
           pc'[r] \notin {"idle", "find"},
           UNCHANGED <<now, rows, owed>>, crossed \subseteq crossed', cut \subseteq cut',
           \A q \in cut' : q \in cut \/ (op[q] = "group" /\ pc[q] \notin {"idle", "find"})
    PROVE  /\ \A s \in Senders \ crossed' : Sole(s)'
           /\ \A s \in Senders : owed'[s] <= now'
           /\ \A q \in Requests : Begun(q)'
<1>1. ASSUME NEW q \in Requests PROVE Begun(q)'
    <2>1. CASE q = r
        BY <2>1 DEF Begun, Marks
    <2>2. CASE q # r
        BY <2>2 DEF Begun, Alone, IInv
    <2> QED BY <2>1, <2>2
<1>2. ASSUME NEW s \in Senders, s \notin crossed' PROVE Sole(s)'
    <2>1. Sole(s)
        BY <1>2 DEF IInv
    <2>2. \A q \in Marking(s)' : q \in Marking(s) /\ q \in Requests /\ q # r
        BY DEF Marking, Marks, Alone
    <2>3. ASSUME NEW q \in Marking(s)' PROVE Fits(q, s)'
        <3>1. Fits(q, s) /\ pc'[q] = pc[q] /\ found'[q] = found[q]
            BY <2>1, <2>2 DEF Sole, Alone
        <3>2. op[q] = "mark"
            BY <2>2 DEF IInv, Begun, Marking
        <3> QED BY <3>1, <3>2 DEF Fits
    <2>4. \A p, q \in Marking(s)' : p = q
        BY <2>1, <2>2 DEF Sole
    <2> QED BY <2>1, <2>3, <2>4 DEF Sole, ReadAt, FindOne
<1>3. \A s \in Senders : owed'[s] <= now'
    BY DEF IInv
<1> QED BY <1>1, <1>2, <1>3

\* Steps of requests that do not clear.
LEMMA MailFrame ==
    ASSUME IInv, NEW r \in Requests, Alone(r), pc[r] \notin Clears, pc'[r] \notin Clears,
           pc'[r] \in {"last", "message", "info"} => todo'[r] \subseteq Senders,
           UNCHANGED <<mailbox, missed, broken>>
    PROVE  /\ \A q \in Requests : Listed(q)'
           /\ \A m \in Messages : Delivered(m)'
           /\ sends' \subseteq msgs' /\ OrphanExplained'
<1> USE DEF mailbox
<1>1. ASSUME NEW q \in Requests PROVE Listed(q)'
    <2>1. CASE q = r
        BY <2>1 DEF Listed, Clears
    <2>2. CASE q # r
        BY <2>2 DEF Listed, Alone, IInv
    <2> QED BY <2>1, <2>2
<1>2. \A m \in Messages : Delivered(m)'
    BY DEF IInv, Delivered
<1>3. sends' \subseteq msgs'
    BY DEF IInv
<1>4. ASSUME NEW m \in msgs' \ sends', mail'[m] = "sent", m \notin missed' \cup broken'
      PROVE  \E q \in Requests : pc'[q] \in {"rows", "msgs"} /\ m \in todo'[q]
    <2>1. PICK q \in Requests : pc[q] \in {"rows", "msgs"} /\ m \in todo[q]
        BY <1>4 DEF IInv, OrphanExplained
    <2>2. q # r
        BY <2>1 DEF Clears
    <2> QED BY <2>1, <2>2 DEF Alone
<1>5. OrphanExplained'
    BY <1>4 DEF OrphanExplained
<1> QED BY <1>1, <1>2, <1>3, <1>5

-----------------------------------------------------------------------------
(* Listing the senders. *)

LEMMA ListingKeeps ==
    ASSUME IInv, NEW r \in Requests,
           ListMsgSend(r) \/ GetLastMsg(r) \/ GetMsgById(r) \/ GetSender(r)
    PROVE  IInv'
<1> USE DEF mailbox, history
<1>1. /\ pc[r] \in {"groups", "last", "message", "info"} /\ TypeOK
      /\ UNCHANGED <<now, mailbox, rows, gone, op, found, trouble, history>>
    BY DEF ListMsgSend, GetLastMsg, GetMsgById, GetSender, IInv
<1>2. /\ pc' \in [Requests -> Labels]
      /\ pc'[r] \in {"last", "message", "info", "done"}
      /\ \A q \in Requests \ {r} : pc'[q] = pc[q]
    BY <1>1 DEF ListMsgSend, GetLastMsg, GetMsgById, GetSender, Answer, Goto, TypeOK, Labels
<1>3. DOMAIN answer' = Requests
    BY <1>1 DEF ListMsgSend, GetLastMsg, GetMsgById, GetSender, Answer, TypeOK
<1>4. ListGroup \subseteq Senders
    BY <1>1 DEF ListGroup, TypeOK, IInv, Delivered
<1>5. /\ todo' \in [Requests -> SUBSET (Messages \cup Senders)]
      /\ todo'[r] \subseteq Senders
      /\ \A q \in Requests \ {r} : todo'[q] = todo[q]
    <2>1. pc[r] # "groups" => todo[r] \subseteq Senders
        BY <1>1 DEF IInv, Listed
    <2>2. CASE ListMsgSend(r)
        BY <1>1, <1>4, <2>2 DEF ListMsgSend, TypeOK
    <2>3. CASE GetLastMsg(r) \/ GetMsgById(r)
        BY <1>1, <2>1, <2>3 DEF GetLastMsg, GetMsgById, TypeOK
    <2>4. CASE GetSender(r)
        <3>1. todo' = todo \/ todo' = [todo EXCEPT ![r] = todo[r] \ {who[r]}]
            BY <2>4 DEF GetSender
        <3>2. todo \in [Requests -> SUBSET (Messages \cup Senders)] /\ todo[r] \subseteq Senders
            BY <1>1, <2>1, <2>4 DEF GetSender, TypeOK
        <3> QED BY <3>1, <3>2
    <2> QED BY <2>2, <2>3, <2>4
<1>6. who' \in [Requests -> Senders] /\ \A q \in Requests \ {r} : who'[q] = who[q]
    <2>1. CASE GetLastMsg(r)
        <3>1. PICK s \in todo[r] : who' = [who EXCEPT ![r] = s]
            BY <2>1 DEF GetLastMsg
        <3>2. s \in Senders
            BY <2>1, <3>1 DEF GetLastMsg, IInv, Listed
        <3> QED BY <1>1, <3>1, <3>2 DEF TypeOK
    <2>2. CASE ~GetLastMsg(r)
        BY <1>1, <2>2 DEF ListMsgSend, GetMsgById, GetSender, TypeOK
    <2> QED BY <2>1, <2>2
<1>7. Alone(r)
    BY <1>1, <1>2, <1>5, <1>6 DEF Alone
<1>8. TypeOK'
    BY <1>1, <1>2, <1>3, <1>5, <1>6 DEF TypeOK
<1>9. /\ \A s \in Senders \ crossed' : Sole(s)'
      /\ \A s \in Senders : owed'[s] <= now'
      /\ \A q \in Requests : Begun(q)'
    <2>1. /\ pc[r] \notin Marks /\ pc'[r] \notin Marks /\ pc'[r] \notin {"idle", "find"}
          /\ UNCHANGED <<now, rows, owed>> /\ crossed \subseteq crossed' /\ cut \subseteq cut'
          /\ \A q \in cut' : q \in cut \/ (op[q] = "group" /\ pc[q] \notin {"idle", "find"})
        BY <1>1, <1>2 DEF Marks
    <2> QED BY <1>7, <2>1, MarksFrame
<1>10. /\ \A q \in Requests : Listed(q)'
       /\ \A m \in Messages : Delivered(m)'
       /\ sends' \subseteq msgs' /\ OrphanExplained'
    BY <1>1, <1>2, <1>5, <1>7, MailFrame DEF Clears
<1> QED BY <1>8, <1>9, <1>10 DEF IInv

-----------------------------------------------------------------------------
(* Clearing. *)

LEMMA Goes ==
    ASSUME TypeOK, NEW r \in Requests, NEW label \in Labels, Goto(r, label)
    PROVE  /\ pc' \in [Requests -> Labels] /\ pc'[r] = label
           /\ \A q \in Requests \ {r} : pc'[q] = pc[q]
    BY DEF Goto, TypeOK

LEMMA Answers ==
    ASSUME TypeOK, NEW r \in Requests, NEW what, Answer(r, what)
    PROVE  /\ pc' \in [Requests -> Labels] /\ pc'[r] = "done"
           /\ \A q \in Requests \ {r} : pc'[q] = pc[q]
           /\ DOMAIN answer' = Requests
    BY DEF Answer, Goto, TypeOK, Labels

\* Messages that have a row are delivered.
LEMMA Rowed ==
    ASSUME IInv, NEW m \in sends
    PROVE  m \in Messages /\ mail[m] = "sent" /\ m \in msgs
    BY DEF IInv, TypeOK, Delivered

LEMMA ListSendsKeeps ==
    ASSUME IInv, NEW r \in Requests, ListSends(r) PROVE IInv'
<1> USE DEF mailbox, history
<1>1. /\ pc[r] = "list" /\ Goto(r, "sends") /\ TypeOK
      /\ todo' = [todo EXCEPT ![r] = From(who[r])]
      /\ UNCHANGED <<now, mailbox, rows, gone, op, who, found, last, answer, trouble, history>>
    BY DEF ListSends, IInv
<1>2. /\ pc' \in [Requests -> Labels] /\ pc'[r] = "sends"
      /\ \A q \in Requests \ {r} : pc'[q] = pc[q]
    BY <1>1, Goes DEF Labels
<1>3. From(who[r]) \subseteq Messages
    BY Rowed DEF From
<1>4. TypeOK'
    BY <1>1, <1>2, <1>3 DEF TypeOK
<1>5. Alone(r)
    BY <1>1, <1>2 DEF Alone, TypeOK
<1>6. /\ \A s \in Senders \ crossed' : Sole(s)'
      /\ \A s \in Senders : owed'[s] <= now'
      /\ \A q \in Requests : Begun(q)'
    BY <1>1, <1>2, <1>5, MarksFrame DEF Marks
<1>7. ASSUME NEW q \in Requests PROVE Listed(q)'
    <2>1. CASE q = r
        <3>1. todo'[r] = From(who[r])
            BY <1>1 DEF TypeOK
        <3>2. \A m \in todo'[r] : m \in Messages /\ mail[m] = "sent" /\ from[m] = who[r]
            BY <3>1, Rowed DEF From
        <3> QED BY <1>1, <1>2, <2>1, <3>2 DEF Listed
    <2>2. CASE q # r
        BY <1>1, <1>5, <2>2 DEF Listed, Alone, IInv
    <2> QED BY <2>1, <2>2
<1>8. \A m \in Messages : Delivered(m)'
    BY <1>1 DEF IInv, Delivered
<1>9. OrphanExplained'
    <2>1. ASSUME NEW q \in Requests, NEW m, pc[q] \in {"rows", "msgs"} /\ m \in todo[q]
          PROVE  pc'[q] \in {"rows", "msgs"} /\ m \in todo'[q]
        BY <1>1, <1>5, <2>1 DEF Alone
    <2> QED BY <1>1, <2>1 DEF IInv, OrphanExplained
<1> QED BY <1>1, <1>4, <1>6, <1>7, <1>8, <1>9 DEF IInv

LEMMA DeleteMsgSendKeeps ==
    ASSUME IInv, NEW r \in Requests, DeleteMsgSend(r) PROVE IInv'
<1>1. /\ pc[r] = "sends" /\ Goto(r, "rows") /\ TypeOK
      /\ sends' = sends \ From(who[r])
      /\ missed' = missed \cup (From(who[r]) \ todo[r])
      /\ cut' = cut \cup Listing
      /\ UNCHANGED <<now, mail, from, stamp, msgs, rows, gone, op, who, found, todo, last, answer,
                     trouble, made, owed, crossed, broken>>
    BY DEF DeleteMsgSend, IInv
<1>2. /\ pc' \in [Requests -> Labels] /\ pc'[r] = "rows"
      /\ \A q \in Requests \ {r} : pc'[q] = pc[q]
    BY <1>1, Goes DEF Labels
<1>3. /\ Listing \subseteq Requests
      /\ \A q \in Listing : op[q] = "group" /\ pc[q] \notin {"idle", "find"}
    BY DEF Listing, IInv, Begun
<1>4. TypeOK'
    BY <1>1, <1>2, <1>3 DEF TypeOK
<1>5. Alone(r)
    BY <1>1, <1>2 DEF Alone
<1>6. /\ \A s \in Senders \ crossed' : Sole(s)'
      /\ \A s \in Senders : owed'[s] <= now'
      /\ \A q \in Requests : Begun(q)'
    BY <1>1, <1>2, <1>3, <1>5, MarksFrame DEF Marks
<1>7. ASSUME NEW q \in Requests PROVE Listed(q)'
    <2>1. CASE q = r
        BY <1>1, <1>2, <2>1 DEF Listed, From, IInv
    <2>2. CASE q # r
        BY <1>1, <1>5, <2>2 DEF Listed, Alone, IInv
    <2> QED BY <2>1, <2>2
<1>8. \A m \in Messages : Delivered(m)'
    BY <1>1 DEF IInv, Delivered
<1>9. ASSUME NEW m \in msgs' \ sends', mail'[m] = "sent", m \notin missed' \cup broken'
      PROVE  \E q \in Requests : pc'[q] \in {"rows", "msgs"} /\ m \in todo'[q]
    <2>1. CASE m \in sends
        <3>1. m \in todo[r]
            BY <1>1, <1>9, <2>1
        <3> QED BY <1>1, <1>2, <3>1
    <2>2. CASE m \notin sends
        <3>1. PICK q \in Requests : pc[q] \in {"rows", "msgs"} /\ m \in todo[q]
            BY <1>1, <1>9, <2>2 DEF IInv, OrphanExplained
        <3> QED BY <1>1, <1>2, <3>1
    <2> QED BY <2>1, <2>2
<1>10. OrphanExplained'
    BY <1>9 DEF OrphanExplained
<1>11. sends' \subseteq msgs'
    BY <1>1 DEF IInv
<1> QED BY <1>4, <1>6, <1>7, <1>8, <1>10, <1>11 DEF IInv

LEMMA DeleteMsgKeeps ==
    ASSUME IInv, NEW r \in Requests, DeleteMsg(r) PROVE IInv'
<1> USE DEF history
<1>1. PICK m \in todo[r] :
          /\ pc[r] = "msgs" /\ TypeOK
          /\ msgs' = msgs \ {m}
          /\ todo' = [todo EXCEPT ![r] = @ \ {m}]
          /\ UNCHANGED <<now, mail, from, stamp, sends, rows, gone, op, who, pc, found, last, answer,
                         trouble, history>>
    BY DEF DeleteMsg, IInv
<1>2. TypeOK'
    BY <1>1 DEF TypeOK
<1>3. /\ Alone(r) /\ todo'[r] = todo[r] \ {m}
      /\ m \notin sends /\ m \in Messages /\ mail[m] = "sent"
    BY <1>1 DEF Alone, TypeOK, IInv, Listed
<1>4. /\ \A s \in Senders \ crossed' : Sole(s)'
      /\ \A s \in Senders : owed'[s] <= now'
      /\ \A q \in Requests : Begun(q)'
    BY <1>1, <1>3, MarksFrame DEF Marks
<1>5. ASSUME NEW q \in Requests PROVE Listed(q)'
    BY <1>1, <1>3 DEF Listed, Alone, IInv
<1>6. \A k \in Messages : Delivered(k)'
    BY <1>1, <1>3 DEF IInv, Delivered
<1>7. ASSUME NEW k \in msgs' \ sends', mail'[k] = "sent", k \notin missed' \cup broken'
      PROVE  \E q \in Requests : pc'[q] \in {"rows", "msgs"} /\ k \in todo'[q]
    <2>1. PICK q \in Requests : pc[q] \in {"rows", "msgs"} /\ k \in todo[q]
        BY <1>1, <1>7 DEF IInv, OrphanExplained
    <2> QED BY <1>1, <1>3, <1>7, <2>1 DEF Alone
<1>8. OrphanExplained'
    BY <1>7 DEF OrphanExplained
<1>9. sends' \subseteq msgs'
    BY <1>1, <1>3 DEF IInv
<1> QED BY <1>2, <1>4, <1>5, <1>6, <1>8, <1>9 DEF IInv

LEMMA ClearEndsKeep ==
    ASSUME IInv, NEW r \in Requests, Cleared(r) \/ ClearFails(r) PROVE IInv'
<1> USE DEF mailbox, history
<1>1. /\ pc[r] \in {"sends", "rows", "msgs"} /\ TypeOK
      /\ pc[r] \in {"rows", "msgs"} => todo[r] \subseteq broken'
      /\ broken \subseteq broken' /\ trouble' \in 0..MaxTrouble
      /\ \E what : Answer(r, what)
      /\ UNCHANGED <<now, mailbox, rows, gone, op, who, found, todo, last, made, owed, crossed, cut,
                     missed>>
    <2>1. CASE Cleared(r)
        BY <2>1 DEF Cleared, IInv, TypeOK
    <2>2. CASE ClearFails(r)
        BY <2>2, MessagesAssumption DEF ClearFails, IInv, TypeOK
    <2> QED BY <2>1, <2>2
<1>2. /\ pc' \in [Requests -> Labels] /\ pc'[r] = "done"
      /\ \A q \in Requests \ {r} : pc'[q] = pc[q]
      /\ DOMAIN answer' = Requests
    BY <1>1, Answers
<1>3. TypeOK'
    BY <1>1, <1>2 DEF TypeOK
<1>4. Alone(r)
    BY <1>1, <1>2 DEF Alone
<1>5. /\ \A s \in Senders \ crossed' : Sole(s)'
      /\ \A s \in Senders : owed'[s] <= now'
      /\ \A q \in Requests : Begun(q)'
    BY <1>1, <1>2, <1>4, MarksFrame DEF Marks
<1>6. ASSUME NEW q \in Requests PROVE Listed(q)'
    BY <1>1, <1>2 DEF Listed, IInv
<1>7. \A m \in Messages : Delivered(m)'
    BY <1>1 DEF IInv, Delivered
<1>8. ASSUME NEW m \in msgs' \ sends', mail'[m] = "sent", m \notin missed' \cup broken'
      PROVE  \E q \in Requests : pc'[q] \in {"rows", "msgs"} /\ m \in todo'[q]
    <2>1. PICK q \in Requests : pc[q] \in {"rows", "msgs"} /\ m \in todo[q]
        BY <1>1, <1>8 DEF IInv, OrphanExplained
    <2>2. q # r
        BY <1>1, <1>8, <2>1
    <2> QED BY <1>1, <1>2, <2>1, <2>2
<1>9. OrphanExplained'
    BY <1>8 DEF OrphanExplained
<1>10. sends' \subseteq msgs'
    BY <1>1 DEF IInv
<1> QED BY <1>3, <1>5, <1>6, <1>7, <1>9, <1>10 DEF IInv

LEMMA DeleteMsgReadKeeps ==
    ASSUME IInv, NEW r \in Requests, DeleteMsgRead(r) PROVE IInv'
<1> USE DEF mailbox
<1>1. PICK s \in Senders : s = who[r]
    BY DEF IInv, TypeOK
<1>2. /\ pc[r] = "rows" /\ Goto(r, "msgs") /\ TypeOK
      /\ rows' = [rows EXCEPT ![s] = <<>>] /\ owed' = [owed EXCEPT ![s] = 0]
      /\ cut' = cut \cup Marking(s)
      /\ crossed' = IF \A p, q \in Marking(s) : p = q THEN crossed \ {s} ELSE crossed
      /\ UNCHANGED <<now, mailbox, gone, op, who, found, todo, last, answer, trouble, made, missed,
                     broken>>
    BY <1>1 DEF DeleteMsgRead, IInv
<1>3. /\ pc' \in [Requests -> Labels] /\ pc'[r] = "msgs"
      /\ \A q \in Requests \ {r} : pc'[q] = pc[q]
    BY <1>2, Goes DEF Labels
<1>4. TypeOK'
    <2>1. <<>> \in Seq(Row) /\ 0 \in 0..MaxTime /\ Marking(s) \subseteq Requests
        BY MessagesAssumption DEF Marking
    <2>2. rows' \in [Senders -> Seq(Row)] /\ owed' \in [Senders -> 0..MaxTime]
        BY <1>2, <2>1 DEF TypeOK
    <2> QED BY <1>2, <1>3, <2>1, <2>2 DEF TypeOK
<1>5. Alone(r)
    BY <1>2, <1>3 DEF Alone
<1>6. ASSUME NEW q \in Requests PROVE Begun(q)'
    BY <1>2, <1>3 DEF Begun, Marking, IInv
<1>7. ASSUME NEW t \in Senders PROVE Marking(t)' = Marking(t)
    BY <1>2, <1>3 DEF Marking
<1>8. ASSUME NEW t \in Senders, t \notin crossed' PROVE Sole(t)'
    <2>1. CASE t = s
        <3>1. rows'[t] = <<>> /\ owed'[t] = 0
            BY <1>2, <2>1 DEF TypeOK
        <3>2. \A p, q \in Marking(t) : p = q
            BY <1>2, <1>8, <2>1 DEF IInv, Sole
        <3>3. ReadAt(t)' = 0 /\ Len(rows'[t]) = 0
            BY <3>1 DEF ReadAt, FindOne, NoRow
        <3>4. ASSUME NEW q \in Marking(t) PROVE Fits(q, t)'
            BY <1>2, <2>1, <3>1, <3>4 DEF Fits
        <3> QED BY <1>7, <3>1, <3>2, <3>3, <3>4 DEF Sole
    <2>2. CASE t # s
        <3>1. Sole(t)
            BY <1>2, <1>8, <2>2 DEF IInv
        <3>2. rows'[t] = rows[t] /\ owed'[t] = owed[t]
            BY <1>2, <2>2 DEF TypeOK
        <3>3. ReadAt(t)' = ReadAt(t)
            BY <3>2 DEF ReadAt, FindOne
        <3>4. ASSUME NEW q \in Marking(t) PROVE Fits(q, t)'
            <4>1. Fits(q, t) /\ q \in Requests /\ q # r
                BY <1>2, <3>1, <3>4 DEF Sole, Marking
            <4>2. q \in cut' => q \in cut
                BY <1>2, <2>2, <3>4 DEF Marking
            <4> QED BY <1>2, <1>3, <3>2, <4>1, <4>2 DEF Fits
        <3> QED BY <1>7, <3>1, <3>2, <3>3, <3>4 DEF Sole
    <2> QED BY <2>1, <2>2
<1>9. ASSUME NEW t \in Senders PROVE owed'[t] <= now'
    BY <1>2 DEF IInv, TypeOK
<1>10. ASSUME NEW q \in Requests PROVE Listed(q)'
    BY <1>2, <1>3 DEF Listed, IInv
<1>11. \A m \in Messages : Delivered(m)'
    BY <1>2 DEF IInv, Delivered
<1>12. OrphanExplained'
    <2>1. ASSUME NEW q \in Requests, pc[q] \in {"rows", "msgs"} PROVE pc'[q] \in {"rows", "msgs"}
        BY <1>3, <2>1
    <2> QED BY <1>2, <2>1 DEF IInv, OrphanExplained
<1>13. sends' \subseteq msgs'
    BY <1>2 DEF IInv
<1> QED BY <1>4, <1>6, <1>8, <1>9, <1>10, <1>11, <1>12, <1>13 DEF IInv

-----------------------------------------------------------------------------
(* Marking. *)

\* A step of a mark touches one sender.
LEMMA MarkKeeps ==
    ASSUME IInv, TypeOK', NEW r \in Requests, NEW s \in Senders, s = who[r], Alone(r),
           pc[r] \in {"find", "create", "update", "insert", "set"},
           pc'[r] \in {"create", "update", "insert", "set", "done"},
           UNCHANGED <<now, mailbox, op, who, todo, cut, missed, broken>>,
           crossed \subseteq crossed',
           \A t \in Senders \ {s} : rows'[t] = rows[t] /\ owed'[t] = owed[t],
           s \notin crossed' => Sole(s)', owed'[s] <= now,
           pc'[r] \in {"insert", "set"} => found'[r].at <= now
    PROVE  IInv'
<1>1. /\ \A q \in Requests : Listed(q)'
      /\ \A m \in Messages : Delivered(m)'
      /\ sends' \subseteq msgs' /\ OrphanExplained'
    BY MailFrame DEF Clears
<1>2. ASSUME NEW q \in Requests PROVE Begun(q)'
    BY DEF Begun, Alone, IInv
<1>3. ASSUME NEW t \in Senders, t \notin crossed' PROVE Sole(t)'
    <2>1. CASE t = s
        BY <1>3, <2>1
    <2>2. CASE t # s
        <3>1. Sole(t)
            BY <1>3 DEF IInv
        <3>2. rows'[t] = rows[t] /\ owed'[t] = owed[t] /\ ReadAt(t)' = ReadAt(t)
            BY <2>2 DEF ReadAt, FindOne
        <3>3. \A q \in Marking(t)' : q \in Marking(t) /\ q # r /\ q \in Requests
            BY <2>2 DEF Marking, Alone
        <3>4. ASSUME NEW q \in Marking(t)' PROVE Fits(q, t)'
            <4>1. Fits(q, t) /\ pc'[q] = pc[q] /\ found'[q] = found[q]
                BY <3>1, <3>3 DEF Sole, Alone
            <4> QED BY <3>2, <4>1 DEF Fits
        <3> QED BY <3>1, <3>2, <3>3, <3>4 DEF Sole
    <2> QED BY <2>1, <2>2
<1>4. ASSUME NEW t \in Senders PROVE owed'[t] <= now'
    <2>1. owed[t] <= now
        BY DEF IInv
    <2> QED BY <2>1
<1> QED BY <1>1, <1>2, <1>3, <1>4 DEF IInv

LEMMA FoundRow ==
    ASSUME IInv, NEW s \in Senders
    PROVE  FindOne(s) \in Row /\ (rows[s] # <<>> => FindOne(s) = Head(rows[s]))
<1>1. rows[s] \in Seq(Row)
    BY DEF IInv, TypeOK
<1>2. NoRow \in Row
    BY MessagesAssumption DEF NoRow, Row
<1> QED BY <1>1, <1>2 DEF FindOne

LEMMA GetMsgReadKeeps ==
    ASSUME IInv, NEW r \in Requests, GetMsgRead(r) PROVE IInv'
<1>1. PICK s \in Senders : s = who[r]
    BY DEF IInv, TypeOK
<1>2. PICK label \in {"create", "update"} :
          /\ label = IF rows[s] = <<>> THEN "create" ELSE "update"
          /\ Goto(r, label)
    BY <1>1 DEF GetMsgRead
<1>3. /\ pc[r] = "find" /\ TypeOK
      /\ found' = [found EXCEPT ![r] = FindOne(s)]
      /\ crossed' = IF Marking(s) = {} THEN crossed ELSE crossed \cup {s}
      /\ UNCHANGED <<now, mailbox, rows, gone, op, who, todo, last, answer, trouble, made, owed, cut,
                     missed, broken>>
    BY <1>1 DEF GetMsgRead, IInv
<1>4. /\ pc' \in [Requests -> Labels] /\ pc'[r] = label
      /\ \A q \in Requests \ {r} : pc'[q] = pc[q]
    BY <1>2, <1>3, Goes DEF Labels
<1>5. TypeOK'
    BY <1>3, <1>4, FoundRow DEF TypeOK, mailbox
<1>6. Alone(r) /\ found'[r] = FindOne(s)
    BY <1>3, <1>4 DEF Alone, TypeOK
<1>7. ASSUME s \notin crossed' PROVE Sole(s)'
    <2>1. Sole(s) /\ Marking(s) = {}
        BY <1>3, <1>7 DEF IInv
    <2>2. Marking(s)' \subseteq {r}
        BY <1>3, <1>4, <2>1 DEF Marking
    <2>3. r \notin cut
        BY <1>3 DEF IInv, Begun
    <2>4. Fits(r, s)'
        BY <1>2, <1>3, <1>4, <1>6, <2>3, FoundRow DEF Fits
    <2> QED BY <1>3, <2>1, <2>2, <2>4 DEF Sole, ReadAt, FindOne
<1>8. owed'[s] <= now
    BY <1>3 DEF IInv
<1> QED BY <1>1, <1>2, <1>3, <1>4, <1>5, <1>6, <1>7, <1>8, MarkKeeps

LEMMA GetMsgReadFailsKeeps ==
    ASSUME IInv, NEW r \in Requests, GetMsgReadFails(r) PROVE IInv'
<1>1. PICK s \in Senders : s = who[r]
    BY DEF IInv, TypeOK
<1>2. /\ pc[r] = "find" /\ TypeOK /\ Goto(r, "create") /\ trouble' \in 0..MaxTrouble
      /\ found' = [found EXCEPT ![r] = NoRow] /\ crossed' = crossed \cup {s}
      /\ UNCHANGED <<now, mailbox, rows, gone, op, who, todo, last, answer, made, owed, cut, missed,
                     broken>>
    BY <1>1, MessagesAssumption DEF GetMsgReadFails, IInv, TypeOK
<1>3. /\ pc' \in [Requests -> Labels] /\ pc'[r] = "create"
      /\ \A q \in Requests \ {r} : pc'[q] = pc[q]
    BY <1>2, Goes DEF Labels
<1>4. NoRow \in Row
    BY MessagesAssumption DEF NoRow, Row
<1>5. TypeOK'
    BY <1>2, <1>3, <1>4 DEF TypeOK, mailbox
<1>6. Alone(r)
    BY <1>2, <1>3 DEF Alone, TypeOK
<1>7. owed'[s] <= now
    BY <1>2 DEF IInv
<1> QED BY <1>1, <1>2, <1>3, <1>5, <1>6, <1>7, MarkKeeps

LEMMA StampKeeps ==
    ASSUME IInv, NEW r \in Requests, Stamp(r) PROVE IInv'
<1>1. PICK s \in Senders : s = who[r]
    BY DEF IInv, TypeOK
<1>2. PICK label \in {"insert", "set"} :
          /\ label = IF pc[r] = "create" THEN "insert" ELSE "set"
          /\ Goto(r, label)
    BY DEF Stamp
<1>3. /\ pc[r] \in {"create", "update"} /\ TypeOK
      /\ found' = [found EXCEPT ![r].at = now]
      /\ UNCHANGED <<now, mailbox, rows, gone, op, who, todo, last, answer, trouble, history>>
    BY DEF Stamp, IInv
<1>4. /\ pc' \in [Requests -> Labels] /\ pc'[r] = label
      /\ \A q \in Requests \ {r} : pc'[q] = pc[q]
    BY <1>2, <1>3, Goes DEF Labels
<1>5. now \in 0..MaxTime /\ now \in Nat
    BY <1>3, MessagesAssumption DEF TypeOK
<1>6. /\ found' \in [Requests -> Row] /\ found'[r].at = now /\ found'[r].id = found[r].id
      /\ \A q \in Requests \ {r} : found'[q] = found[q]
    BY <1>3, <1>5 DEF TypeOK, Row
<1>7. TypeOK'
    BY <1>3, <1>4, <1>6 DEF TypeOK, mailbox, history
<1>8. Alone(r)
    BY <1>3, <1>4, <1>6 DEF Alone
<1>9. ASSUME s \notin crossed' PROVE Sole(s)'
    <2>1. Sole(s) /\ owed[s] <= now
        BY <1>3, <1>9 DEF IInv, history
    <2>2. Marking(s)' = Marking(s) /\ r \in Marking(s)
        BY <1>1, <1>2, <1>3, <1>4 DEF Marking
    <2>3. \A q \in Marking(s) : q = r
        BY <2>1, <2>2 DEF Sole
    <2>4. Fits(r, s)
        BY <2>1, <2>2 DEF Sole
    <2>5. Fits(r, s)'
        BY <1>2, <1>3, <1>4, <1>6, <2>1, <2>4 DEF Fits, history
    <2> QED BY <1>3, <2>1, <2>2, <2>3, <2>5 DEF Sole, ReadAt, FindOne, history
<1>10. owed'[s] <= now
    BY <1>3 DEF IInv, history
<1>11. UNCHANGED <<now, mailbox, op, who, todo, cut, missed, broken>> /\ crossed \subseteq crossed'
    BY <1>3 DEF history
<1>12. \A t \in Senders \ {s} : rows'[t] = rows[t] /\ owed'[t] = owed[t]
    BY <1>3 DEF history
<1>13. pc'[r] \in {"insert", "set"} => found'[r].at <= now
    BY <1>5, <1>6
<1> QED BY <1>1, <1>2, <1>3, <1>4, <1>7, <1>8, <1>9, <1>10, <1>11, <1>12, <1>13, MarkKeeps

\* A sole mark that is over leaves nobody marking.
LEMMA LastMark ==
    ASSUME IInv, NEW r \in Requests, NEW s \in Senders, s = who[r], s \notin crossed,
           pc[r] \in Marks, pc'[r] = "done", Alone(r), UNCHANGED who
    PROVE  Sole(s) /\ Fits(r, s) /\ Marking(s)' = {}
<1>1. Sole(s) /\ r \in Marking(s)
    BY DEF IInv, Marking, Marks
<1>2. ASSUME NEW q \in Marking(s)' PROVE FALSE
    <2>1. q \in Marking(s) /\ q # r
        BY <1>2 DEF Marking, Alone
    <2> QED BY <1>1, <2>1 DEF Sole
<1> QED BY <1>1, <1>2 DEF Sole

LEMMA CreateMsgReadKeeps ==
    ASSUME IInv, NEW r \in Requests, CreateMsgRead(r) PROVE IInv'
<1>1. PICK s \in Senders : s = who[r]
    BY DEF IInv, TypeOK
<1>2. PICK row : row = [id |-> made[s] + 1, at |-> found[r].at]
    OBVIOUS
<1>3. /\ pc[r] = "insert" /\ TypeOK /\ Answer(r, "marked")
      /\ made' = [made EXCEPT ![s] = @ + 1]
      /\ rows' = [rows EXCEPT ![s] = Append(@, row)]
      /\ owed' = [owed EXCEPT ![s] = IF @ > found[r].at THEN @ ELSE found[r].at]
      /\ UNCHANGED <<now, mailbox, gone, op, who, found, todo, last, trouble, crossed, cut, missed,
                     broken>>
    BY <1>1, <1>2 DEF CreateMsgRead, IInv
<1>4. /\ pc' \in [Requests -> Labels] /\ pc'[r] = "done"
      /\ \A q \in Requests \ {r} : pc'[q] = pc[q]
      /\ DOMAIN answer' = Requests
    BY <1>3, Answers
<1>5. /\ found[r] \in Row /\ made[s] \in Nat /\ owed[s] \in 0..MaxTime /\ rows[s] \in Seq(Row)
      /\ found[r].at \in 0..MaxTime /\ found[r].at <= now /\ owed[s] <= now
    BY <1>3 DEF IInv, TypeOK, Begun, Row
<1>6. row \in Row /\ row.at = found[r].at
    BY <1>2, <1>5 DEF Row
<1>7. /\ rows'[s] = Append(rows[s], row)
      /\ owed'[s] = IF owed[s] > found[r].at THEN owed[s] ELSE found[r].at
      /\ \A t \in Senders \ {s} : rows'[t] = rows[t] /\ owed'[t] = owed[t]
    BY <1>3 DEF TypeOK
<1>8. TypeOK'
    <2>1. Append(rows[s], row) \in Seq(Row)
        BY <1>5, <1>6
    <2>2. rows' \in [Senders -> Seq(Row)]
        BY <1>3, <2>1 DEF TypeOK
    <2>3. made' \in [Senders -> Nat] /\ owed' \in [Senders -> 0..MaxTime]
        BY <1>3, <1>5 DEF TypeOK
    <2> QED BY <1>3, <1>4, <2>2, <2>3 DEF TypeOK, mailbox
<1>9. Alone(r)
    BY <1>3, <1>4 DEF Alone
<1>10. ASSUME s \notin crossed' PROVE Sole(s)'
    <2>1. Sole(s) /\ Fits(r, s) /\ Marking(s)' = {}
        BY <1>1, <1>3, <1>4, <1>9, <1>10, LastMark DEF Marks
    <2>2. rows[s] = <<>> /\ owed[s] = 0
        BY <1>3, <2>1 DEF Fits, Sole, ReadAt, FindOne, NoRow
    <2>3. Len(rows'[s]) = 1 /\ rows'[s] # <<>> /\ Head(rows'[s]) = row
        BY <1>6, <1>7, <2>2
    <2>4. owed'[s] = found[r].at
        BY <1>5, <1>7, <2>2
    <2>5. ReadAt(s)' = owed'[s]
        BY <1>6, <2>3, <2>4 DEF ReadAt, FindOne
    <2> QED BY <2>1, <2>3, <2>5 DEF Sole
<1>11. owed'[s] <= now
    BY <1>5, <1>7
<1> QED BY <1>1, <1>3, <1>4, <1>7, <1>8, <1>9, <1>10, <1>11, MarkKeeps

LEMMA Updates ==
    ASSUME NEW s \in Senders, rows[s] \in Seq(Row), NEW row \in Row
    PROVE  /\ Updated(s, row) \in Seq(Row) /\ Len(Updated(s, row)) = Len(rows[s])
           /\ rows[s] # <<>> /\ Head(rows[s]).id = row.id => Head(Updated(s, row)) = row
<1>1. PICK n \in Nat : n = Len(rows[s]) /\ DOMAIN rows[s] = 1..n
    OBVIOUS
<1>2. \A i \in 1..n : (IF i = 1 /\ rows[s][i].id = row.id THEN row ELSE rows[s][i]) \in Row
    BY <1>1
<1>3. Updated(s, row) = [i \in 1..n |-> IF i = 1 /\ rows[s][i].id = row.id THEN row ELSE rows[s][i]]
    BY <1>1 DEF Updated
<1>4. Updated(s, row) \in Seq(Row) /\ Len(Updated(s, row)) = n
    BY <1>2, <1>3
<1> QED BY <1>1, <1>3, <1>4

LEMMA UpdateReadAtKeeps ==
    ASSUME IInv, NEW r \in Requests, UpdateReadAt(r) PROVE IInv'
<1>1. PICK s \in Senders : s = who[r]
    BY DEF IInv, TypeOK
<1>2. /\ pc[r] = "set" /\ TypeOK /\ \E what : Answer(r, what)
      /\ rows' = [rows EXCEPT ![s] = Updated(s, found[r])]
      /\ Refused(s, found[r]) => UNCHANGED owed
      /\ ~Refused(s, found[r]) =>
             owed' = [owed EXCEPT ![s] = IF r \in cut \/ @ > found[r].at THEN @ ELSE found[r].at]
      /\ UNCHANGED <<now, mailbox, gone, op, who, found, todo, last, trouble, made, crossed, cut,
                     missed, broken>>
    BY <1>1 DEF UpdateReadAt, Told, IInv
<1>3. /\ pc' \in [Requests -> Labels] /\ pc'[r] = "done"
      /\ \A q \in Requests \ {r} : pc'[q] = pc[q]
      /\ DOMAIN answer' = Requests
    BY <1>2, Answers
<1>4. /\ found[r] \in Row /\ owed[s] \in 0..MaxTime /\ rows[s] \in Seq(Row)
      /\ found[r].at \in 0..MaxTime /\ found[r].at <= now /\ owed[s] <= now
    BY <1>2 DEF IInv, TypeOK, Begun, Row
<1>5. /\ owed' \in [Senders -> 0..MaxTime] /\ owed'[s] <= now
      /\ \A t \in Senders \ {s} : owed'[t] = owed[t]
    BY <1>2, <1>4 DEF TypeOK
<1>6. /\ rows'[s] = Updated(s, found[r]) /\ rows' \in [Senders -> Seq(Row)]
      /\ \A t \in Senders \ {s} : rows'[t] = rows[t]
    BY <1>2, <1>4, Updates DEF TypeOK
<1>7. TypeOK'
    BY <1>2, <1>3, <1>5, <1>6 DEF TypeOK, mailbox
<1>8. Alone(r)
    BY <1>2, <1>3 DEF Alone
<1>9. ASSUME s \notin crossed' PROVE Sole(s)'
    <2>1. Sole(s) /\ Fits(r, s) /\ Marking(s)' = {}
        BY <1>1, <1>2, <1>3, <1>8, <1>9, LastMark DEF Marks
    <2>2. Len(rows'[s]) <= 1
        BY <1>4, <1>6, <2>1, Updates DEF Sole
    <2>3. CASE r \in cut
        <3>1. rows[s] = <<>> /\ owed[s] = 0
            BY <2>1, <2>3 DEF Fits, Sole, ReadAt, FindOne, NoRow
        <3>2. Len(rows'[s]) = 0 /\ rows'[s] \in Seq(Row)
            BY <1>4, <1>6, <3>1, Updates
        <3>3. rows'[s] = <<>>
            BY <3>2
        <3>4. owed'[s] = 0
            BY <1>2, <2>3, <3>1 DEF TypeOK
        <3>5. ReadAt(s)' = owed'[s]
            BY <3>3, <3>4 DEF ReadAt, FindOne, NoRow
        <3> QED BY <2>1, <2>2, <3>5 DEF Sole
    <2>4. CASE r \notin cut
        <3>1. rows[s] # <<>> /\ Head(rows[s]).id = found[r].id /\ owed[s] <= found[r].at
            BY <1>2, <2>1, <2>4 DEF Fits
        <3>2. Head(rows'[s]) = found[r] /\ Len(rows'[s]) = Len(rows[s]) /\ rows'[s] \in Seq(Row)
            BY <1>4, <1>6, <3>1, Updates
        <3>3. Len(rows[s]) = 1
            <4>1. PICK n \in Nat : n = Len(rows[s]) /\ n # 0
                BY <1>4, <3>1
            <4>2. n # 0
                BY <4>1
            <4>3. n <= 1
                BY <2>1, <4>1 DEF Sole
            <4>4. n = 1
                BY <4>2, <4>3
            <4> QED BY <4>1, <4>4
        <3>4. ~Refused(s, found[r])
            <4>1. DOMAIN rows[s] = 1..1 /\ rows[s][1] = Head(rows[s])
                BY <1>4, <3>3
            <4>2. \A i \in DOMAIN rows[s] : rows[s][i].id = found[r].id
                BY <3>1, <4>1
            <4> QED BY <4>2 DEF Refused
        <3>5. owed'[s] = found[r].at
            BY <1>2, <1>4, <2>4, <3>1, <3>4 DEF TypeOK
        <3>6. ReadAt(s)' = owed'[s]
            BY <3>2, <3>3, <3>5 DEF ReadAt, FindOne
        <3> QED BY <2>1, <2>2, <3>6 DEF Sole
    <2> QED BY <2>3, <2>4
<1> QED BY <1>1, <1>2, <1>3, <1>5, <1>6, <1>7, <1>8, <1>9, MarkKeeps

LEMMA MarkFailsKeeps ==
    ASSUME IInv, NEW r \in Requests, MarkFails(r) PROVE IInv'
<1> USE DEF history
<1>1. PICK s \in Senders : s = who[r]
    BY DEF IInv, TypeOK
<1>2. /\ pc[r] \in {"insert", "set"} /\ TypeOK /\ Answer(r, "failed") /\ trouble' \in 0..MaxTrouble
      /\ UNCHANGED <<now, mailbox, rows, gone, op, who, found, todo, last, history>>
    BY MessagesAssumption DEF MarkFails, IInv, TypeOK
<1>3. /\ pc' \in [Requests -> Labels] /\ pc'[r] = "done"
      /\ \A q \in Requests \ {r} : pc'[q] = pc[q]
      /\ DOMAIN answer' = Requests
    BY <1>2, Answers
<1>4. TypeOK'
    BY <1>2, <1>3 DEF TypeOK, mailbox
<1>5. Alone(r)
    BY <1>2, <1>3 DEF Alone
<1>6. ASSUME s \notin crossed' PROVE Sole(s)'
    <2>1. Sole(s) /\ Marking(s)' = {}
        BY <1>1, <1>2, <1>3, <1>5, <1>6, LastMark DEF Marks
    <2> QED BY <1>2, <2>1 DEF Sole, ReadAt, FindOne
<1>7. owed'[s] <= now
    BY <1>2 DEF IInv
<1> QED BY <1>1, <1>2, <1>3, <1>4, <1>5, <1>6, <1>7, MarkKeeps

-----------------------------------------------------------------------------
(* The clock, the senders, and calling. *)

\* Steps that no request takes, and that no mark sees.
LEMMA OutsideKeeps ==
    ASSUME IInv, TypeOK', UNCHANGED <<rows, local, history>>, now <= now',
           \A m \in Messages : Delivered(m)', sends' \subseteq msgs', OrphanExplained',
           \A m \in Messages : mail[m] = "sent" => mail'[m] = "sent" /\ from'[m] = from[m],
           \A m \in sends' \ sends : mail[m] # "sent"
    PROVE  IInv'
<1> USE DEF local, history
<1>1. ASSUME NEW r \in Requests PROVE Begun(r)' /\ Listed(r)'
    <2>1. Begun(r) /\ Listed(r)
        BY DEF IInv
    <2>2. now \in Nat /\ now' \in Nat /\ found[r].at \in Nat
        BY DEF IInv, TypeOK, Row
    <2>3. Begun(r)'
        BY <2>1, <2>2 DEF Begun
    <2>4. Listed(r)'
        BY <2>1 DEF Listed
    <2> QED BY <2>3, <2>4
<1>2. ASSUME NEW s \in Senders, s \notin crossed' PROVE Sole(s)'
    BY <1>2 DEF IInv, Sole, Marking, Fits, ReadAt, FindOne
<1>3. ASSUME NEW s \in Senders PROVE owed'[s] <= now'
    <2>1. owed[s] <= now /\ owed[s] \in Nat /\ now \in Nat /\ now' \in Nat
        BY DEF IInv, TypeOK
    <2> QED BY <2>1
<1> QED BY <1>1, <1>2, <1>3 DEF IInv

LEMMA OutsideSteps ==
    ASSUME IInv, \/ Tick
                 \/ \E m \in Messages : StoreMsg(m) \/ StampSend(m) \/ StoreSend(m)
                 \/ \E s \in Senders : SenderGoes(s)
    PROVE  IInv'
<1>1. TypeOK
    BY DEF IInv
<1>2. CASE Tick \/ \E s \in Senders : SenderGoes(s)
    <2> USE DEF mailbox, history
    <2>1. /\ UNCHANGED <<mailbox, rows, local, trouble, history>>
          /\ now' \in 1..MaxTime /\ now <= now' /\ gone' \subseteq Senders
        BY <1>1, <1>2, MessagesAssumption DEF Tick, SenderGoes, TypeOK
    <2>2. TypeOK'
        BY <1>1, <2>1 DEF TypeOK, local
    <2>3. (\A m \in Messages : Delivered(m)') /\ sends' \subseteq msgs'
        BY <2>1 DEF IInv, Delivered
    <2>4. OrphanExplained'
        BY <2>1 DEF IInv, OrphanExplained, local
    <2> QED BY <2>1, <2>2, <2>3, <2>4, OutsideKeeps
<1>3. ASSUME NEW m \in Messages, StoreMsg(m) PROVE IInv'
    <2>1. /\ mail[m] = "none" /\ mail' = [mail EXCEPT ![m] = "stored"] /\ msgs' = msgs \cup {m}
          /\ UNCHANGED <<now, stamp, sends, rows, gone, local, trouble, history>>
        BY <1>3 DEF StoreMsg
    <2>2. /\ from' \in [Messages -> Senders] /\ \A k \in Messages \ {m} : from'[k] = from[k]
        BY <1>1, <1>3 DEF StoreMsg, TypeOK
    <2>3. TypeOK'
        BY <1>1, <2>1, <2>2 DEF TypeOK, local, history
    <2>4. (\A k \in Messages : Delivered(k)') /\ sends' \subseteq msgs'
        BY <1>1, <2>1 DEF IInv, Delivered, TypeOK
    <2>5. OrphanExplained'
        BY <1>1, <2>1 DEF IInv, OrphanExplained, TypeOK, local, history
    <2>6. \A k \in Messages : mail[k] = "sent" => mail'[k] = "sent" /\ from'[k] = from[k]
        BY <1>1, <2>1, <2>2 DEF TypeOK
    <2>7. now <= now'
        BY <1>1, <2>1 DEF TypeOK
    <2> QED BY <2>1, <2>3, <2>4, <2>5, <2>6, <2>7, OutsideKeeps
<1>4. ASSUME NEW m \in Messages, StampSend(m) \/ StoreSend(m) PROVE IInv'
    <2>1. /\ \/ mail[m] = "stored" /\ mail' = [mail EXCEPT ![m] = "stamped"] /\ sends' = sends
             \/ mail[m] = "stamped" /\ mail' = [mail EXCEPT ![m] = "sent"] /\ sends' = sends \cup {m}
          /\ UNCHANGED <<now, from, msgs, rows, gone, local, trouble, history>>
        BY <1>4 DEF StampSend, StoreSend
    <2>2. stamp' \in [Messages -> 0..MaxTime]
        <3>1. stamp' = stamp \/ stamp' = [stamp EXCEPT ![m] = now]
            BY <1>4 DEF StampSend, StoreSend
        <3>2. now \in 0..MaxTime
            BY <1>1, MessagesAssumption DEF TypeOK
        <3> QED BY <1>1, <3>1, <3>2 DEF TypeOK
    <2>3. TypeOK'
        BY <1>1, <2>1, <2>2 DEF TypeOK, local, history
    <2>4. m \in msgs \ sends
        BY <2>1 DEF IInv, Delivered
    <2>5. (\A k \in Messages : Delivered(k)') /\ sends' \subseteq msgs'
        BY <1>1, <2>1, <2>4 DEF IInv, Delivered, TypeOK
    <2>6. OrphanExplained'
        BY <1>1, <2>1, <2>4 DEF IInv, OrphanExplained, TypeOK, local, history
    <2>7. \A k \in Messages : mail[k] = "sent" => mail'[k] = "sent" /\ from'[k] = from[k]
        BY <1>1, <2>1 DEF TypeOK
    <2>8. now <= now'
        BY <1>1, <2>1 DEF TypeOK
    <2> QED BY <2>1, <2>3, <2>5, <2>6, <2>7, <2>8, OutsideKeeps
<1> QED BY <1>2, <1>3, <1>4

LEMMA CallKeeps ==
    ASSUME IInv, NEW r \in Requests, Call(r) PROVE IInv'
<1> USE DEF history
<1>1. PICK label \in {"find", "list", "groups"}, o \in {"mark", "clear", "group"} :
          /\ op' = [op EXCEPT ![r] = o] /\ Goto(r, label)
          /\ label = "find" => o = "mark"
    <2>1. PICK o \in {"mark", "clear", "group"} :
              op' = [op EXCEPT ![r] = o] /\ Goto(r, Begins[o])
        BY DEF Call, Begins
    <2>2. /\ Begins[o] \in {"find", "list", "groups"}
          /\ Begins[o] = "find" => o = "mark"
        BY <2>1 DEF Begins
    <2> QED BY <2>1, <2>2
<1>2. /\ pc[r] = "idle" /\ TypeOK
      /\ UNCHANGED <<now, mailbox, rows, gone, found, todo, last, answer, trouble, history>>
    BY DEF Call, IInv
<1>3. who' \in [Requests -> Senders] /\ \A q \in Requests \ {r} : who'[q] = who[q]
    <2>1. who' = who \/ \E s \in Senders : who' = [who EXCEPT ![r] = s]
        BY DEF Call
    <2> QED BY <1>2, <2>1 DEF TypeOK
<1>4. /\ pc' \in [Requests -> Labels] /\ pc'[r] = label
      /\ \A q \in Requests \ {r} : pc'[q] = pc[q]
    BY <1>1, <1>2, Goes DEF Labels
<1>5. TypeOK'
    BY <1>1, <1>2, <1>3, <1>4 DEF TypeOK, mailbox
<1>6. Alone(r) /\ op'[r] = o
    BY <1>1, <1>2, <1>3, <1>4 DEF Alone, TypeOK
<1>7. /\ \A q \in Requests : Listed(q)'
      /\ \A m \in Messages : Delivered(m)'
      /\ sends' \subseteq msgs' /\ OrphanExplained'
    BY <1>2, <1>4, <1>6, MailFrame DEF Clears
<1>8. ASSUME NEW q \in Requests PROVE Begun(q)'
    <2>1. CASE q = r
        BY <1>1, <1>2, <1>4, <1>6, <2>1 DEF Begun, IInv
    <2>2. CASE q # r
        BY <1>2, <1>6, <2>2 DEF Begun, IInv, Alone
    <2> QED BY <2>1, <2>2
<1>9. ASSUME NEW s \in Senders, s \notin crossed' PROVE Sole(s)'
    <2>1. Sole(s)
        BY <1>2, <1>9 DEF IInv
    <2>2. \A q \in Marking(s)' : q \in Marking(s) /\ q # r /\ q \in Requests
        BY <1>4, <1>6 DEF Marking, Alone
    <2>3. ASSUME NEW q \in Marking(s)' PROVE Fits(q, s)'
        <3>1. Fits(q, s) /\ pc'[q] = pc[q]
            BY <1>6, <2>1, <2>2 DEF Sole, Alone
        <3> QED BY <1>2, <3>1 DEF Fits
    <2> QED BY <1>2, <2>1, <2>2, <2>3 DEF Sole, ReadAt, FindOne
<1>10. ASSUME NEW s \in Senders PROVE owed'[s] <= now'
    BY <1>2 DEF IInv
<1> QED BY <1>2, <1>5, <1>7, <1>8, <1>9, <1>10 DEF IInv

-----------------------------------------------------------------------------
(* The invariant. *)

LEMMA InitHolds == Init => IInv
<1> SUFFICES ASSUME Init PROVE IInv
    OBVIOUS
<1>1. /\ now = 1 /\ mail = [m \in Messages |-> "none"] /\ from = [m \in Messages |-> Anyone]
      /\ stamp = [m \in Messages |-> 0] /\ msgs = {} /\ sends = {} /\ gone = {}
      /\ rows \in [Senders -> {<<>>, <<[id |-> 1, at |-> 1]>>}]
      /\ op = [r \in Requests |-> "none"] /\ who = [r \in Requests |-> Anyone]
      /\ pc = [r \in Requests |-> "idle"] /\ found = [r \in Requests |-> NoRow]
      /\ todo = [r \in Requests |-> {}] /\ answer = [r \in Requests |-> "none"] /\ trouble = 0
      /\ made = [s \in Senders |-> Len(rows[s])] /\ owed = [s \in Senders |-> Len(rows[s])]
      /\ crossed = {} /\ cut = {}
    BY DEF Init
<1>2. 0 \in 0..MaxTime /\ 1 \in 0..MaxTime /\ 1 \in 1..MaxTime /\ 0 \in 0..MaxTrouble
    BY MessagesAssumption
<1>3. NoRow \in Row /\ [id |-> 1, at |-> 1] \in Row
    BY <1>2 DEF NoRow, Row
<1>4. ASSUME NEW s \in Senders
      PROVE  rows[s] \in Seq(Row) /\ Len(rows[s]) \in {0, 1} /\ ReadAt(s) = Len(rows[s])
    <2>1. CASE rows[s] = <<>>
        BY <2>1 DEF ReadAt, FindOne, NoRow
    <2>2. CASE rows[s] = <<[id |-> 1, at |-> 1]>>
        <3>1. rows[s] # <<>> /\ Len(rows[s]) = 1 /\ Head(rows[s]) = [id |-> 1, at |-> 1]
            BY <2>2
        <3> QED BY <1>3, <2>2, <3>1 DEF ReadAt, FindOne
    <2> QED BY <1>1, <2>1, <2>2
<1>5. TypeOK
    <2>1. rows \in [Senders -> Seq(Row)]
        BY <1>1, <1>4
    <2>2. made \in [Senders -> Nat] /\ owed \in [Senders -> 0..MaxTime]
        <3>1. {0, 1} \subseteq Nat /\ {0, 1} \subseteq 0..MaxTime
            BY <1>2
        <3>2. \A s \in Senders : made[s] \in {0, 1} /\ owed[s] \in {0, 1}
            BY <1>1, <1>4, Zenon
        <3>3. made = [s \in Senders |-> made[s]] /\ owed = [s \in Senders |-> owed[s]]
            BY <1>1, Zenon
        <3> QED BY <3>1, <3>2, <3>3
    <2>3. from \in [Messages -> Senders] /\ who \in [Requests -> Senders]
        BY <1>1, AnyoneSends
    <2>4. /\ mail \in [Messages -> {"none", "stored", "stamped", "sent"}]
          /\ stamp \in [Messages -> 0..MaxTime]
          /\ op \in [Requests -> {"none", "mark", "clear", "group"}]
          /\ pc \in [Requests -> Labels] /\ found \in [Requests -> Row]
          /\ todo \in [Requests -> SUBSET (Messages \cup Senders)] /\ DOMAIN answer = Requests
        BY <1>1, <1>2, <1>3 DEF Labels
    <2> QED BY <1>1, <1>2, <2>1, <2>2, <2>3, <2>4 DEF TypeOK
<1>6. ASSUME NEW r \in Requests PROVE pc[r] = "idle" /\ Begun(r) /\ Listed(r)
    BY <1>1 DEF Begun, Listed
<1>7. ASSUME NEW s \in Senders PROVE Sole(s) /\ owed[s] <= now
    <2>1. Marking(s) = {}
        BY <1>6 DEF Marking
    <2>2. PICK n \in {0, 1} : n = Len(rows[s]) /\ ReadAt(s) = n
        BY <1>4
    <2>3. n <= 1
        OBVIOUS
    <2>4. owed[s] = n /\ now = 1
        BY <1>1, <2>2
    <2> QED BY <2>1, <2>2, <2>3, <2>4 DEF Sole
<1>8. (\A m \in Messages : Delivered(m)) /\ sends \subseteq msgs /\ OrphanExplained
    BY <1>1 DEF Delivered, OrphanExplained
<1> QED BY <1>5, <1>6, <1>7, <1>8 DEF IInv

LEMMA NextKeeps == IInv /\ [Next]_vars => IInv'
<1> SUFFICES ASSUME IInv, [Next]_vars PROVE IInv'
    OBVIOUS
<1>1. CASE UNCHANGED vars
    <2>1. UNCHANGED <<mailbox, rows, local, history>> /\ now <= now'
        BY <1>1 DEF vars, IInv, TypeOK
    <2>2. TypeOK'
        BY <1>1 DEF vars, mailbox, local, history, IInv, TypeOK
    <2>3. (\A m \in Messages : Delivered(m)') /\ sends' \subseteq msgs' /\ OrphanExplained'
        BY <2>1 DEF mailbox, local, history, IInv, Delivered, OrphanExplained
    <2> QED BY <2>1, <2>2, <2>3, OutsideKeeps DEF mailbox
<1>2. CASE \E r \in Requests : Request(r)
    <2>1. PICK r \in Requests : Request(r)
        BY <1>2
    <2>2. CASE Call(r)
        BY <2>2, CallKeeps
    <2>3. CASE GetMsgRead(r) \/ GetMsgReadFails(r) \/ Stamp(r) \/ CreateMsgRead(r)
               \/ UpdateReadAt(r) \/ MarkFails(r)
        BY <2>3, GetMsgReadKeeps, GetMsgReadFailsKeeps, StampKeeps, CreateMsgReadKeeps,
           UpdateReadAtKeeps, MarkFailsKeeps
    <2>4. CASE ListSends(r) \/ DeleteMsgSend(r) \/ DeleteMsgRead(r) \/ DeleteMsg(r)
               \/ Cleared(r) \/ ClearFails(r)
        BY <2>4, ListSendsKeeps, DeleteMsgSendKeeps, DeleteMsgReadKeeps, DeleteMsgKeeps,
           ClearEndsKeep
    <2>5. CASE ListMsgSend(r) \/ GetLastMsg(r) \/ GetMsgById(r) \/ GetSender(r)
        BY <2>5, ListingKeeps
    <2> QED BY <2>1, <2>2, <2>3, <2>4, <2>5 DEF Request
<1>3. CASE \/ Tick
           \/ \E m \in Messages : StoreMsg(m) \/ StampSend(m) \/ StoreSend(m)
           \/ \E s \in Senders : SenderGoes(s)
    BY <1>3, OutsideSteps
<1> QED BY <1>1, <1>2, <1>3 DEF Next

\* The strengthening holds in every state.
THEOREM Invariant == Spec => []IInv
    BY InitHolds, NextKeeps, PTL DEF Spec

\* Rows, marks, lists and labels stay what they are typed to be.
THEOREM TypeCorrect == Spec => []TypeOK
<1>1. IInv => TypeOK
    BY DEF IInv
<1> QED BY <1>1, Invariant, PTL

\* What PutNotifyRead told the reader is what is stored, in one row, and no mark is about to
\* be refused, unless two marks of that sender crossed or one could not read the row.
THEOREM MarksStay == Spec => []MarkKept
<1>1. ASSUME IInv PROVE MarkKept
    <2>1. ASSUME NEW s \in Senders, s \notin crossed
          PROVE  ReadAt(s) = owed[s] /\ ~(Len(rows[s]) > 1)
        <3>1. Sole(s) /\ rows[s] \in Seq(Row)
            BY <1>1, <2>1 DEF IInv, TypeOK
        <3>2. Len(rows[s]) \in Nat /\ Len(rows[s]) <= 1
            BY <3>1 DEF Sole
        <3> QED BY <3>1, <3>2 DEF Sole
    <2>2. ASSUME NEW r \in Requests, pc[r] = "set", Refused(who[r], found[r]), who[r] \notin crossed
          PROVE  FALSE
        <3>1. PICK s \in Senders : s = who[r]
            BY <1>1 DEF IInv, TypeOK
        <3>2. /\ rows[s] \in Seq(Row) /\ Sole(s) /\ Fits(r, s)
            BY <1>1, <2>2, <3>1 DEF IInv, TypeOK, Sole, Marking
        <3>3. PICK i \in DOMAIN rows[s] : rows[s][i].id # found[r].id
            BY <2>2, <3>1 DEF Refused
        <3>4. PICK n \in Nat : n = Len(rows[s]) /\ DOMAIN rows[s] = 1..n
            BY <3>2
        <3>5. n <= 1
            BY <3>2, <3>4 DEF Sole
        <3>6. i \in 1..n
            BY <3>3, <3>4
        <3>7. i = 1 /\ n = 1
            BY <3>5, <3>6
        <3>8. rows[s] # <<>> /\ rows[s][1] = Head(rows[s])
            BY <3>2, <3>3, <3>7
        <3>9. Head(rows[s]).id = found[r].id
            BY <2>2, <3>2, <3>8 DEF Fits
        <3> QED BY <3>3, <3>7, <3>8, <3>9
    <2> QED BY <2>1, <2>2 DEF MarkKept
<1> QED BY <1>1, Invariant, PTL

\* A document that no row leads to is being deleted, came between the listing and the writes
\* of a DeleteNotifyByFrom, or was left by one that failed.
THEOREM OrphansAreExplained == Spec => []OrphanExplained
<1>1. IInv => OrphanExplained
    BY DEF IInv
<1> QED BY <1>1, Invariant, PTL

-----------------------------------------------------------------------------
(* The list of senders. *)

\* Of numbers up to a bound one is the greatest.
LEMMA GreatestOf ==
    ASSUME NEW T, NEW bound \in Nat, T \subseteq 0..bound, T # {}
    PROVE  \E x \in T : \A y \in T : y <= x
<1> DEFINE under == {bound - x : x \in T}
<1>1. under \subseteq Nat /\ under # {}
    <2>1. \A x \in T : bound - x \in Nat
        OBVIOUS
    <2> QED BY <2>1
<1>2. PICK z \in under : \A y \in under : ~(<<y, z>> \in OpToRel(<, Nat))
    BY <1>1, NatLessThanWellFounded, WFMin
<1>3. PICK x \in T : z = bound - x
    OBVIOUS
<1>4. ASSUME NEW y \in T PROVE y <= x
    <2>1. ~(<<bound - y, z>> \in OpToRel(<, Nat))
        BY <1>2
    <2>2. ~(bound - y < z)
        BY <1>1, <2>1 DEF OpToRel
    <2> QED BY <1>3, <2>2
<1> QED BY <1>4

\* A sender with a row has a newest one.
LEMMA NewestThere ==
    ASSUME TypeOK, NEW s, From(s) # {} PROVE Newest(s) # {}
<1> DEFINE stamps == {stamp[m] : m \in From(s)}
<1>1. MaxTime \in Nat /\ stamps # {} /\ stamps \subseteq 0..MaxTime
    <2>1. \A m \in From(s) : stamp[m] \in 0..MaxTime
        BY DEF From, TypeOK
    <2> QED BY <2>1, MessagesAssumption
<1>2. PICK x \in stamps : \A y \in stamps : y <= x
    <2> HIDE DEF stamps
    <2> QED BY <1>1, GreatestOf
<1>3. PICK m \in From(s) : x = stamp[m]
    OBVIOUS
<1>4. \A k \in From(s) : stamp[k] <= stamp[m]
    BY <1>2, <1>3
<1> QED BY <1>4 DEF Newest

\* A request that takes no part in a step can go on with its list.
LEMMA OthersListable ==
    ASSUME IInv, NEW q \in Requests, Listable(q),
           pc'[q] = pc[q], op'[q] = op[q], who'[q] = who[q], todo'[q] = todo[q],
           last'[q] = last[q], answer'[q] = answer[q],
           gone \subseteq gone', cut \subseteq cut',
           \A m \in sends : from'[m] = from[m],
           sends \subseteq sends' \/ q \notin Listing \/ q \in cut'
    PROVE  Listable(q)'
<1>1. pc[q] \in {"last", "message", "info"} /\ q \notin cut' =>
          \A s : From(s) # {} => From(s)' # {}
    BY DEF Listable, Listing, From
<1>2. pc[q] = "message" /\ q \notin cut' /\ last[q] \in sends => last[q] \in sends'
    BY DEF Listable, Listing
<1> QED BY <1>1, <1>2 DEF Listable

\* Who lists, of the rows that a request deletes, is told of.
LEMMA OthersLeft ==
    ASSUME IInv, ListInv, NEW r \in Requests, Request(r), NEW q \in Requests \ {r}
    PROVE  Listable(q)'
<1> USE DEF Goto, Answer, mailbox, history
<1>0. TypeOK /\ Listable(q) /\ DOMAIN last = Requests
    BY DEF IInv, ListInv
<1>1. pc'[q] = pc[q] /\ op'[q] = op[q] /\ who'[q] = who[q] /\ todo'[q] = todo[q]
    BY <1>0 DEF Request, Call, GetMsgRead, GetMsgReadFails, Stamp, CreateMsgRead,
       UpdateReadAt, MarkFails, ListSends, DeleteMsgSend, DeleteMsgRead, DeleteMsg, Cleared,
       ClearFails, ListMsgSend, GetLastMsg, GetMsgById, GetSender, TypeOK
<1>2. last'[q] = last[q]
    <2>1. last' = last \/ \E m : last' = [last EXCEPT ![r] = m]
        BY DEF Request, Call, GetMsgRead, GetMsgReadFails, Stamp, CreateMsgRead,
           UpdateReadAt, MarkFails, ListSends, DeleteMsgSend, DeleteMsgRead, DeleteMsg, Cleared,
           ClearFails, ListMsgSend, GetLastMsg, GetMsgById, GetSender
    <2> QED BY <1>0, <2>1
<1>3. answer'[q] = answer[q]
    <2>1. answer' = answer \/ \E a : answer' = [answer EXCEPT ![r] = a]
        BY DEF Request, Call, GetMsgRead, GetMsgReadFails, Stamp, CreateMsgRead,
           UpdateReadAt, MarkFails, ListSends, DeleteMsgSend, DeleteMsgRead, DeleteMsg, Cleared,
           ClearFails, ListMsgSend, GetLastMsg, GetMsgById, GetSender
    <2> QED BY <1>0, <2>1 DEF TypeOK
<1>4. /\ gone' = gone /\ cut \subseteq cut' /\ from' = from
      /\ sends' = sends \/ Listing \subseteq cut'
    BY DEF Request, Call, GetMsgRead, GetMsgReadFails, Stamp, CreateMsgRead,
       UpdateReadAt, MarkFails, ListSends, DeleteMsgSend, DeleteMsgRead, DeleteMsg, Cleared,
       ClearFails, ListMsgSend, GetLastMsg, GetMsgById, GetSender
<1> QED BY <1>0, <1>1, <1>2, <1>3, <1>4, OthersListable

LEMMA ListNextKeeps ==
    ASSUME IInv, ListInv, [Next]_vars PROVE ListInv'
<1> USE DEF Goto, Answer, mailbox, history
<1>0. TypeOK /\ DOMAIN last = Requests /\ \A r \in Requests : Listable(r)
    BY DEF IInv, ListInv
<1>1. CASE UNCHANGED vars
    BY <1>1 DEF vars, local, ListInv, Listable, From
<1>2. CASE \/ Tick
           \/ \E m \in Messages : StoreMsg(m) \/ StampSend(m) \/ StoreSend(m)
           \/ \E s \in Senders : SenderGoes(s)
    <2>1. /\ UNCHANGED <<local, cut>> /\ gone \subseteq gone' /\ sends \subseteq sends'
          /\ \A m \in sends : from'[m] = from[m]
        BY <1>0, <1>2 DEF Tick, StoreMsg, StampSend, StoreSend, SenderGoes, TypeOK, IInv, Delivered
    <2> QED BY <1>0, <2>1, OthersListable DEF local, ListInv
<1>3. ASSUME NEW r \in Requests, Request(r) PROVE ListInv'
    <2>1. \A q \in Requests \ {r} : Listable(q)'
        BY <1>3, OthersLeft
    <2>2. Listable(r)'
        <3>1. CASE Call(r)
            BY <1>0, <3>1 DEF Call, Begins, Listable, TypeOK
        <3>2. CASE GetMsgRead(r) \/ GetMsgReadFails(r) \/ Stamp(r)
            BY <1>0, <3>2 DEF GetMsgRead, GetMsgReadFails, Stamp, Listable, TypeOK
        <3>3. CASE CreateMsgRead(r) \/ UpdateReadAt(r) \/ MarkFails(r)
            BY <1>0, <3>3 DEF CreateMsgRead, UpdateReadAt, MarkFails, Listable, TypeOK
        <3>4. CASE ListSends(r) \/ DeleteMsgSend(r) \/ DeleteMsgRead(r) \/ DeleteMsg(r)
            BY <1>0, <3>4 DEF ListSends, DeleteMsgSend, DeleteMsgRead, DeleteMsg, Listable, TypeOK
        <3>5. CASE Cleared(r) \/ ClearFails(r)
            BY <1>0, <3>5 DEF Cleared, ClearFails, Listable, TypeOK
        <3>6. CASE ListMsgSend(r)
            <4>1. \A s \in ListGroup : From(s)' # {}
                BY <3>6 DEF ListMsgSend, ListGroup, From
            <4>2. /\ pc[r] = "groups" /\ todo'[r] = ListGroup /\ op'[r] = "group"
                  /\ pc'[r] \in {"done", "last"} /\ answer'[r] \in {"empty", answer[r]}
                BY <1>0, <3>6 DEF ListMsgSend, Listable, TypeOK
            <4> QED BY <1>0, <4>1, <4>2 DEF Listable
        <3>7. CASE GetLastMsg(r)
            <4>1. PICK s \in todo[r] :
                      /\ who' = [who EXCEPT ![r] = s]
                      /\ \/ /\ Newest(s) = {}
                            /\ Answer(r, "panic")
                            /\ UNCHANGED last
                         \/ /\ \E m \in Newest(s) : last' = [last EXCEPT ![r] = m]
                            /\ Goto(r, "message")
                            /\ UNCHANGED answer
                BY <3>7 DEF GetLastMsg
            <4>2. /\ pc[r] = "last" /\ op'[r] = "group" /\ todo' = todo /\ cut' = cut /\ sends' = sends
                  /\ \A t : From(t)' = From(t)
                BY <1>0, <3>7 DEF GetLastMsg, Listable, From
            <4>3. CASE Newest(s) = {} /\ Answer(r, "panic") /\ UNCHANGED last
                <5>1. r \in cut
                    BY <1>0, <4>2, <4>3, NewestThere DEF Listable
                <5>2. pc'[r] = "done"
                    BY <1>0, <4>3 DEF TypeOK
                <5> QED BY <4>2, <5>1, <5>2 DEF Listable
            <4>4. CASE /\ \E m \in Newest(s) : last' = [last EXCEPT ![r] = m]
                       /\ Goto(r, "message")
                       /\ UNCHANGED answer
                <5>1. last'[r] \in sends /\ pc'[r] = "message"
                    BY <1>0, <4>4 DEF Newest, From, TypeOK
                <5> QED BY <1>0, <4>2, <4>4, <5>1 DEF Listable
            <4> QED BY <4>1, <4>3, <4>4
        <3>8. CASE GetMsgById(r)
            BY <1>0, <3>8 DEF GetMsgById, Listable, TypeOK, IInv, From
        <3>9. CASE GetSender(r)
            BY <1>0, <3>9 DEF GetSender, Listable, TypeOK, From
        <3> QED BY <1>3, <3>1, <3>2, <3>3, <3>4, <3>5, <3>6, <3>7, <3>8, <3>9 DEF Request
    <2>3. DOMAIN last' = Requests
        <3>1. last' = last \/ \E m : last' = [last EXCEPT ![r] = m]
            BY <1>3 DEF Request, Call, GetMsgRead, GetMsgReadFails, Stamp, CreateMsgRead,
               UpdateReadAt, MarkFails, ListSends, DeleteMsgSend, DeleteMsgRead, DeleteMsg, Cleared,
               ClearFails, ListMsgSend, GetLastMsg, GetMsgById, GetSender
        <3> QED BY <1>0, <3>1
    <2> QED BY <2>1, <2>2, <2>3 DEF ListInv
<1> QED BY <1>1, <1>2, <1>3 DEF Next

LEMMA ListInitHolds == Init => ListInv
    BY DEF Init, ListInv, Listable

\* Without a deletion of rows under way a list finds a message of every sender it shows.
THEOREM ListInvariant == Spec => []ListInv
    BY Invariant, ListInitHolds, ListNextKeeps, PTL DEF Spec

\* NotifyGroupList fails, or panics, only when rows were deleted while it was made or when
\* the DAO or the account of the sender is deleted.
THEOREM ListsAreExplained == Spec => []ListExplained
<1>1. ListInv => ListExplained
    BY DEF ListInv, Listable, ListExplained
<1> QED BY <1>1, ListInvariant, PTL
=============================================================================
