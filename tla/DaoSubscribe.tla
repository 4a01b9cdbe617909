--------------------------- MODULE DaoSubscribe ---------------------------
(***************************************************************************)
(* A user pays to subscribe to a DAO (internal/routers/api/dao.go SubDao,  *)
(* internal/service/dao.go SubDao, internal/dao/monogo/dao.go,             *)
(* internal/service/point.go eventSubDAO, pkg/psub).                       *)
(*                                                                         *)
(* Orders are looked up by user and DAO, and everything else is named by   *)
(* an order's id, so one user and one DAO stand for all.  Each of Requests *)
(* is one call of POST /dao/sub/:dao_id by that user.  A request makes at  *)
(* most one order and at most one channel, so both bear its name.          *)
(*                                                                         *)
(* Requests, the Handlers inside PayNotify and the external gateway        *)
(* interleave; each step is one access to the orders or to the map of      *)
(* subscriptions.                                                          *)
(***************************************************************************)
EXTENDS Integers, FiniteSets

CONSTANTS
    Requests,   \* calls of SubDao by one user for one DAO
    Handlers,   \* concurrent deliveries of gateway callbacks
    None,       \* no request, order or channel
    MaxTrouble  \* bound: faults, restarts and duplicate callbacks, together

ASSUME SubscribeAssumption ==
    /\ None \notin Requests
    /\ MaxTrouble \in Nat

VARIABLES
    order,    \* MongoDB: the status of each committed order, or "none"
    \* pkg/psub
    sub,      \* the map: the channel subscribed under each order's id, or None
    buf,      \* what is in each channel's buffer of one
    closed,   \* the channels Cancel has closed
    \* the requests
    pc,       \* where each request is
    oid,      \* the order it waits for
    hold,     \* the channel of its *Notify
    heard,    \* how its wait ended
    outcome,  \* the answer it got
    \* the deliveries
    hpc,      \* where each handler is
    horder,   \* the order it reports on
    hchan,    \* the channel it has loaded
    \* the gateway
    pay,      \* the payment of each order
    acked,    \* the orders whose callback was answered with success
    \* history
    rivals,   \* pairs of requests that found no order at the same time
    dups,     \* deliveries of a callback that was running or acknowledged
    faults,   \* errors of MongoDB and the gateways
    crashes   \* restarts of the server

psub     == <<sub, buf, closed>>
request  == <<pc, oid, hold, heard, outcome>>
delivery == <<hpc, horder, hchan>>
gateway  == <<pay, acked>>
history  == <<rivals, dups, faults, crashes>>
vars     == <<order, psub, request, delivery, gateway, history>>

-----------------------------------------------------------------------------
\* DaoSubscribeT; nothing stores DaoSubscribeRefund.
DaoSubscribeT == {"submit", "success", "failed"}

Ended == {"success", "failed"}

Settled == {"completed", "rollback"}

\* eventSubDAO: the status a transaction's end stands for ("rollback" stands for
\* cancelled too).
SubStatus(tx) == IF tx = "completed" THEN "success" ELSE "failed"

Init ==
    /\ order = [o \in Requests |-> "none"]
    /\ sub = [o \in Requests |-> None]
    /\ buf = [c \in Requests |-> "empty"]
    /\ closed = {}
    /\ pc = [r \in Requests |-> "idle"]
    /\ oid = [r \in Requests |-> None]
    /\ hold = [r \in Requests |-> None]
    /\ heard = [r \in Requests |-> "none"]
    /\ outcome = [r \in Requests |-> "none"]
    /\ hpc = [h \in Handlers |-> "idle"]
    /\ horder = [h \in Handlers |-> None]
    /\ hchan = [h \in Handlers |-> None]
    /\ pay = [o \in Requests |-> "none"]
    /\ acked = {}
    /\ rivals = {} /\ dups = 0 /\ faults = 0 /\ crashes = 0

\* Room for one more thing to go wrong.
Trouble == dups + faults + crashes < MaxTrouble

\* An error of a service the code calls.
Fault == Trouble /\ faults' = faults + 1

Answer(r, answer) ==
    /\ pc' = [pc EXCEPT ![r] = "done"]
    /\ outcome' = [outcome EXCEPT ![r] = answer]

-----------------------------------------------------------------------------
(* SubDao. *)

IsSubscribeDAO == \E o \in Requests : order[o] = "success"

\* The handler: CheckSubscribeDAO, which takes an error for a no.  (The signature and CheckDAOUser are left out:
\* a request they turn away changes nothing.)
Arrive(r) ==
    /\ pc[r] = "idle"
    /\ IF IsSubscribeDAO
       THEN \/ Answer(r, "already") /\ UNCHANGED faults
            \/ Fault /\ pc' = [pc EXCEPT ![r] = "find"] /\ UNCHANGED outcome
       ELSE pc' = [pc EXCEPT ![r] = "find"] /\ UNCHANGED <<outcome, faults>>
    /\ UNCHANGED <<order, psub, oid, hold, heard, delivery, gateway>>
    /\ UNCHANGED <<rivals, dups, crashes>>

Found == {o \in Requests : order[o] # "none"}

\* The requests that are making an order.
Creating == {r \in Requests : pc[r] \in {"order", "commit"}}

\* MUTANT: only an order that went through counts.
FindSubscribed(r) ==
    /\ pc[r] = "find"
    /\ \A o \in Requests : order[o] # "success"
    /\ pc' = [pc EXCEPT ![r] = "order"]
    /\ oid' = [oid EXCEPT ![r] = r]
    /\ rivals' = rivals \cup {{r, q} : q \in Creating}
    /\ UNCHANGED <<order, psub, hold, heard, outcome, delivery, gateway>>
    /\ UNCHANGED <<dups, faults, crashes>>

\* "check old subscribe": there is no order yet.
FindNone(r) ==
    /\ pc[r] = "find"
    /\ Found = {}
    /\ pc' = [pc EXCEPT ![r] = "order"]
    /\ oid' = [oid EXCEPT ![r] = r]
    /\ rivals' = rivals \cup {{r, q} : q \in Creating}
    /\ UNCHANGED <<order, psub, hold, heard, outcome, delivery, gateway>>
    /\ UNCHANGED <<dups, faults, crashes>>

\* There is one (any of several: the query has no order).  One that has ended, a
\* failed one too, is the answer; one that has not is waited for.
FindOld(r) ==
    /\ pc[r] = "find"
    /\ \E o \in Found :
          IF order[o] = "submit"
          THEN /\ pc' = [pc EXCEPT ![r] = "load"]
               /\ oid' = [oid EXCEPT ![r] = o]
               /\ UNCHANGED outcome
          ELSE Answer(r, order[o]) /\ UNCHANGED oid
    /\ UNCHANGED <<order, psub, hold, heard, delivery, gateway, history>>

\* The look-up fails.
FindError(r) ==
    /\ pc[r] = "find"
    /\ Fault
    /\ Answer(r, "error")
    /\ UNCHANGED <<order, psub, oid, hold, heard, delivery, gateway>>
    /\ UNCHANGED <<rivals, dups, crashes>>

\* The request leaves its wait, or never reaches it; what is left is to return.
Leave(r, how) ==
    /\ pc' = [pc EXCEPT ![r] = "return"]
    /\ heard' = [heard EXCEPT ![r] = how]

\* Inside the transaction: the insert (not visible before the commit),
\* NewSubscribe under the new id, and point.Pay, which may be refused, or taken
\* with its answer lost.
Order(r) ==
    /\ pc[r] = "order"
    /\ sub' = [sub EXCEPT ![r] = r]
    /\ hold' = [hold EXCEPT ![r] = r]
    /\ \/ /\ pay' = [pay EXCEPT ![r] = "pending"]
          /\ pc' = [pc EXCEPT ![r] = "commit"]
          /\ UNCHANGED <<heard, faults>>
       \/ /\ Fault
          /\ Leave(r, "error")
          /\ \E tx \in {"none", "pending"} : pay' = [pay EXCEPT ![r] = tx]
    /\ UNCHANGED <<order, buf, closed, oid, outcome, delivery, acked>>
    /\ UNCHANGED <<rivals, dups, crashes>>

\* Notify.Cancel: LoadAndDelete by key, and close what was there.
Cancel(o) ==
    /\ sub' = [sub EXCEPT ![o] = None]
    /\ closed' = IF sub[o] = None THEN closed ELSE closed \cup {sub[o]}

\* The commit.  MongoTransaction runs its callback once: the order of a commit that
\* failed is paid and not stored.
Commit(r) ==
    /\ pc[r] = "commit"
    /\ \/ /\ order' = [order EXCEPT ![r] = "submit"]
          /\ pc' = [pc EXCEPT ![r] = "txid"]
          /\ UNCHANGED <<heard, faults>>
       \/ Fault /\ Leave(r, "error") /\ UNCHANGED order
    /\ UNCHANGED <<psub, oid, hold, outcome, delivery, gateway, rivals, dups, crashes>>

\* UpdateSubscribeDAOTxID sets tx_id alone, which nothing decides on; its error is
\* only logged.
UpdateTxID(r) ==
    /\ pc[r] = "txid"
    /\ pc' = [pc EXCEPT ![r] = "wait"]
    /\ UNCHANGED <<order, psub, oid, hold, heard, outcome, delivery, gateway, history>>

\* NewSubscribe for an old order: Load ...
Load(r) ==
    /\ pc[r] = "load"
    /\ LET c == sub[oid[r]]
       IN  IF c # None
           THEN /\ hold' = [hold EXCEPT ![r] = c]
                /\ pc' = [pc EXCEPT ![r] = "wait"]
           ELSE pc' = [pc EXCEPT ![r] = "store"] /\ UNCHANGED hold
    /\ UNCHANGED <<order, psub, oid, heard, outcome, delivery, gateway, history>>

\* ... and Store, over whatever another request has stored since.
Store(r) ==
    /\ pc[r] = "store"
    /\ sub' = [sub EXCEPT ![oid[r]] = r]
    /\ hold' = [hold EXCEPT ![r] = r]
    /\ pc' = [pc EXCEPT ![r] = "wait"]
    /\ UNCHANGED <<order, buf, closed, oid, heard, outcome, delivery, gateway, history>>

\* The select: a status from the channel, ...
Hear(r) ==
    /\ pc[r] = "wait"
    /\ buf[hold[r]] # "empty"
    /\ Leave(r, buf[hold[r]])
    /\ buf' = [buf EXCEPT ![hold[r]] = "empty"]
    /\ UNCHANGED <<order, sub, closed, oid, hold, outcome, delivery, gateway, history>>

\* ... the nil of a closed channel, of which val.(core.DaoSubscribeT) panics, ...
HearClosed(r) ==
    /\ pc[r] = "wait"
    /\ hold[r] \in closed /\ buf[hold[r]] = "empty"
    /\ Leave(r, "nil")
    /\ UNCHANGED <<order, psub, oid, hold, outcome, delivery, gateway, history>>

\* ... or ctx.Done: the caller has hung up.
Timeout(r) ==
    /\ pc[r] = "wait"
    /\ Leave(r, "ctx")
    /\ UNCHANGED <<order, psub, oid, hold, outcome, delivery, gateway, history>>

\* The notifications, then the return with its deferred Cancel, after a panic too.
\* Who waited for an old order has no toAddress, and GetUserByAddress("") panics;
\* a failed look-up of the users or the DAO ends in an error as well.
Return(r) ==
    /\ pc[r] = "return"
    /\ Cancel(oid[r])
    /\ IF heard[r] \in Ended /\ oid[r] = r
       THEN \/ Answer(r, heard[r]) /\ UNCHANGED faults
            \/ Answer(r, "error") /\ Fault
       ELSE Answer(r, "error") /\ UNCHANGED faults
    /\ UNCHANGED <<order, buf, oid, hold, heard, delivery, gateway>>
    /\ UNCHANGED <<rivals, dups, crashes>>

-----------------------------------------------------------------------------
(* The payment gateway, and eventSubDAO. *)

\* "dead" stands for the ends the service does nothing about (failed, crashed).
GatewaySettles(o) ==
    /\ pay[o] = "pending"
    /\ \E tx \in Settled \cup {"dead"} : pay' = [pay EXCEPT ![o] = tx]
    /\ UNCHANGED <<order, psub, request, delivery, acked, history>>

\* The gateway repeats a callback until it is answered with success.  A delivery
\* beside a running one, or after the answer, is a duplicate.
Delivers(o) ==
    IF o \notin acked /\ \A h \in Handlers : horder[h] # o
    THEN UNCHANGED dups
    ELSE Trouble /\ dups' = dups + 1

\* MUTANT: every end of a payment makes a subscriber.
DeliverAny(h, o) ==
    /\ hpc[h] = "idle"
    /\ pay[o] \in Settled
    /\ order[o] # "none"
    /\ Delivers(o)
    /\ order' = [order EXCEPT ![o] = "success"]
    /\ hpc' = [hpc EXCEPT ![h] = "load"]
    /\ horder' = [horder EXCEPT ![h] = o]
    /\ UNCHANGED <<psub, request, hchan, gateway, rivals, faults, crashes>>

\* MUTANT: an order that has ended is refused.
DeliverOnce(h, o) ==
    /\ hpc[h] = "idle"
    /\ pay[o] \in Settled
    /\ order[o] = "submit"
    /\ Delivers(o)
    /\ order' = [order EXCEPT ![o] = SubStatus(pay[o])]
    /\ hpc' = [hpc EXCEPT ![h] = "load"]
    /\ horder' = [horder EXCEPT ![h] = o]
    /\ UNCHANGED <<psub, request, hchan, gateway, rivals, faults, crashes>>

\* UpdateSubscribeDAO, one FindOneAndUpdate.  (When it fails, or before the order
\* is committed, the callback ends in an error and nothing has changed.)
Deliver(h, o) ==
    /\ hpc[h] = "idle"
    /\ pay[o] \in Settled
    /\ order[o] # "none"
    /\ Delivers(o)
    /\ order' = [order EXCEPT ![o] = SubStatus(pay[o])]
    /\ hpc' = [hpc EXCEPT ![h] = "load"]
    /\ horder' = [horder EXCEPT ![h] = o]
    /\ UNCHANGED <<psub, request, hchan, gateway, rivals, faults, crashes>>

HandlerIdle(h) ==
    /\ hpc' = [hpc EXCEPT ![h] = "idle"]
    /\ horder' = [horder EXCEPT ![h] = None]
    /\ hchan' = [hchan EXCEPT ![h] = None]

\* pubsub.Notify: Load ...
NotifyLoad(h) ==
    /\ hpc[h] = "load"
    /\ LET c == sub[horder[h]]
       IN  IF c # None
           THEN /\ hchan' = [hchan EXCEPT ![h] = c]
                /\ hpc' = [hpc EXCEPT ![h] = "send"]
                /\ UNCHANGED <<horder, acked>>
           ELSE HandlerIdle(h) /\ acked' = acked \cup {horder[h]}
    /\ UNCHANGED <<order, psub, request, pay, history>>

\* MUTANT: a channel without a buffer.
NotifySendUnbuffered(h) ==
    /\ hpc[h] = "send"
    /\ IF hchan[h] \in closed
       THEN UNCHANGED <<buf, acked>>
       ELSE /\ buf' = IF \E r \in Requests : pc[r] = "wait" /\ hold[r] = hchan[h]
                      THEN [buf EXCEPT ![hchan[h]] = SubStatus(pay[horder[h]])]
                      ELSE buf
            /\ acked' = acked \cup {horder[h]}
    /\ HandlerIdle(h)
    /\ UNCHANGED <<order, sub, closed, request, pay, history>>

\* ... and the send, which panics when the channel was closed in between (gin
\* recovers, and the gateway gets no success) and is dropped when it is full.
NotifySend(h) ==
    /\ hpc[h] = "send"
    /\ IF hchan[h] \in closed
       THEN UNCHANGED <<buf, acked>>
       ELSE /\ buf' = IF buf[hchan[h]] = "empty"
                      THEN [buf EXCEPT ![hchan[h]] = SubStatus(pay[horder[h]])]
                      ELSE buf
            /\ acked' = acked \cup {horder[h]}
    /\ HandlerIdle(h)
    /\ UNCHANGED <<order, sub, closed, request, pay, history>>

-----------------------------------------------------------------------------
\* The server restarts: requests, deliveries, channels and the map are gone, and a
\* transaction that has not committed never will.
Crash ==
    /\ Trouble /\ crashes' = crashes + 1
    /\ sub' = [o \in Requests |-> None]
    /\ buf' = [c \in Requests |-> "empty"]
    /\ closed' = {}
    /\ pc' = [r \in Requests |-> IF pc[r] = "idle" THEN "idle" ELSE "done"]
    /\ outcome' = [r \in Requests |->
                      IF pc[r] \in {"idle", "done"} THEN outcome[r] ELSE "error"]
    /\ hpc' = [h \in Handlers |-> "idle"]
    /\ horder' = [h \in Handlers |-> None]
    /\ hchan' = [h \in Handlers |-> None]
    /\ UNCHANGED <<order, oid, hold, heard, gateway, rivals, dups, faults>>

RequestStep(r) ==
    \/ FindNone(r) \/ FindOld(r) \/ Order(r) \/ Commit(r) \/ UpdateTxID(r)
    \/ Load(r) \/ Store(r) \/ Hear(r) \/ HearClosed(r) \/ Return(r)

Next ==
    \/ \E r \in Requests : Arrive(r) \/ RequestStep(r) \/ FindError(r) \/ Timeout(r)
    \/ \E o \in Requests : GatewaySettles(o)
    \/ \E h \in Handlers, o \in Requests : Deliver(h, o)
    \/ \E h \in Handlers : NotifyLoad(h) \/ NotifySend(h)
    \/ Crash

Spec == Init /\ [][Next]_vars

(* Goroutines run, and the gateway repeats a callback until it is answered,    *)
(* though never one that was.  No one has to subscribe, to hang up or to pay.  *)
FairSpec ==
    /\ Spec
    /\ \A r \in Requests : WF_vars(RequestStep(r))
    /\ \A o \in Requests : WF_vars(UNCHANGED dups /\ \E h \in Handlers : Deliver(h, o))
    /\ \A h \in Handlers : WF_vars(NotifyLoad(h) \/ NotifySend(h))

-----------------------------------------------------------------------------
(* Properties. *)

\* Every variable has its type.
TypeOK ==
    /\ order \in [Requests -> DaoSubscribeT \cup {"none"}]
    /\ sub \in [Requests -> Requests \cup {None}]
    /\ buf \in [Requests -> Ended \cup {"empty"}]
    /\ closed \subseteq Requests
    /\ pc \in [Requests -> {"idle", "find", "order", "commit", "txid", "load",
                            "store", "wait", "return", "done"}]
    /\ oid \in [Requests -> Requests \cup {None}]
    /\ hold \in [Requests -> Requests \cup {None}]
    /\ heard \in [Requests -> Ended \cup {"none", "nil", "ctx", "error"}]
    /\ outcome \in [Requests -> Ended \cup {"none", "already", "error"}]
    /\ hpc \in [Handlers -> {"idle", "load", "send"}]
    /\ horder \in [Handlers -> Requests \cup {None}]
    /\ hchan \in [Handlers -> Requests \cup {None}]
    /\ pay \in [Requests -> Settled \cup {"none", "pending", "dead"}]
    /\ acked \subseteq Requests
    /\ rivals \subseteq SUBSET Requests
    /\ dups \in Nat /\ faults \in Nat /\ crashes \in Nat

\* The map of subscriptions leaks nothing and holds no dead channel: what is
\* subscribed is open and belongs to a request that still has to cancel it, though
\* Cancel deletes by key and may meet another request's channel.
NoStray ==
    \A o \in Requests :
        sub[o] # None =>
            /\ sub[o] \notin closed
            /\ hold[sub[o]] = sub[o] /\ oid[sub[o]] = o
            /\ pc[sub[o]] \in {"commit", "txid", "wait", "return"}

\* What a request hears is how the payment of its own order ended, and was stored
\* before it was told, whatever channel it came to share.
HeardIsStored ==
    \A r \in Requests :
        heard[r] \in Ended =>
            /\ pay[oid[r]] \in Settled
            /\ heard[r] = SubStatus(pay[oid[r]])
            /\ order[oid[r]] = heard[r]

\* Who is told of a subscription has a paid and stored order for it.
ToldIsPaid ==
    \A r \in Requests :
        outcome[r] \in {"success", "already"} =>
            \E o \in Requests : order[o] = "success" /\ pay[o] = "completed"

\* A request panics on a closed channel only after another one waited for the same
\* order: the answer of a subscriber who asks once is not taken away.
PanicIsShared ==
    \A r \in Requests :
        heard[r] = "nil" => \E q \in Requests \ {r} : oid[q] = oid[r]

Charged == {o \in Requests : pay[o] \in {"pending", "completed"}}

\* A user pays twice only when two requests found no order at the same time, or
\* an order was paid and its transaction did not commit.
PaidTwiceIsRace ==
    \A o, p \in Charged :
        o = p \/ {o, p} \in rivals \/ faults + crashes > 0

\* A request gets a DaoSubscribeT (the assertion in SubDao's select).
NeverNil == \A r \in Requests : heard[r] # "nil"

\* A user has one subscription to a DAO ("check old subscribe").
SubscribedOnce ==
    \A o, p \in Requests : order[o] = "success" /\ order[p] = "success" => o = p

\* The end of a payment reaches its order and the gateway gets its answer, though
\* Notify may panic on the way.
SettledIsStored ==
    \A o \in Requests :
        pay[o] \in Settled /\ order[o] # "none" ~>
            order[o] = SubStatus(pay[o]) /\ o \in acked

\* Who made an order and waits is released when its payment ends.
CreatorReleased ==
    \A r \in Requests :
        pc[r] = "wait" /\ oid[r] = r /\ pay[r] \in Settled ~> pc[r] = "done"
-----------------------------------------------------------------------------
(* The inductive invariant behind the safety properties (proved in             *)
(* DaoSubscribeProofs).                                                        *)

\* A request knows its order from the moment it has looked for one, the order it
\* makes bears its name, and only such an order is ever stored or paid.
OrdersNamed ==
    /\ \A r \in Requests :
          /\ pc[r] \in {"idle", "find"} => oid[r] = None
          /\ pc[r] \in {"order", "commit", "txid"} => oid[r] = r
          /\ pc[r] \in {"order", "commit"} => order[r] = "none"
          /\ pc[r] \in {"load", "store", "wait", "return"} => oid[r] # None
          /\ heard[r] # "none" => oid[r] # None
    /\ \A o \in Requests : order[o] # "none" \/ pay[o] # "none" => oid[o] = o

\* A channel a request holds or a delivery has loaded is one of its order.
ChannelsNamed ==
    /\ \A r \in Requests :
          /\ pc[r] \in {"commit", "txid"} => hold[r] = r
          /\ pc[r] = "wait" => hold[r] # None /\ oid[hold[r]] = oid[r]
    /\ \A h \in Handlers :
          /\ hpc[h] # "idle" => horder[h] # None /\ order[horder[h]] \in Ended
          /\ hpc[h] = "send" => hchan[h] # None /\ oid[hchan[h]] = horder[h]

\* A request that has no channel yet has none that is closed.
ClosedWasOpen ==
    \A c \in closed : pc[c] \notin {"idle", "find", "order", "load", "store"}

\* An order ends as its payment did, and a channel carries the end of its order.
OrderFollowsPayment ==
    /\ \A o \in Requests :
          order[o] \in Ended => pay[o] \in Settled /\ order[o] = SubStatus(pay[o])
    /\ \A c \in Requests :
          buf[c] # "empty" => oid[c] # None /\ order[oid[c]] = buf[c]

\* A channel is closed under a waiting request by another one of the same order.
ClosedByAnother ==
    \A r \in Requests :
        pc[r] \in {"commit", "txid", "wait"} /\ hold[r] \in closed =>
            \E q \in Requests \ {r} : oid[q] = oid[r]

\* Two requests that make orders looked at the same time; one that is no longer
\* making its order has stored it, or something failed.
MakersAreRivals ==
    /\ \A o \in Requests :
          oid[o] = o /\ order[o] = "none" /\ pc[o] \notin {"order", "commit"} =>
              faults + crashes > 0
    /\ \A o, p \in Requests :
          oid[o] = o /\ oid[p] = p =>
              o = p \/ {o, p} \in rivals \/ faults + crashes > 0

IInv ==
    /\ TypeOK /\ OrdersNamed /\ ChannelsNamed /\ ClosedWasOpen /\ NoStray
    /\ OrderFollowsPayment /\ HeardIsStored /\ ToldIsPaid
    /\ ClosedByAnother /\ PanicIsShared /\ MakersAreRivals
=============================================================================
