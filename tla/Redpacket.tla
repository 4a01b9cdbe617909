----------------------------- MODULE Redpacket ------------------------------
(***************************************************************************)
(* The life of one red packet: created and paid for by its sender, claimed *)
(* share by share, closed by a delayed task that refunds what is left      *)
(* (internal/service/redpacket.go, tasks.go, point.go, pkg/psub).          *)
(*                                                                         *)
(* Packets share nothing (every document, Redis key, subscription and task *)
(* is named by the packet's id), so one packet stands for all of them.     *)
(*                                                                         *)
(* Five kinds of processes interleave, each step one access to what they   *)
(* share:                                                                  *)
(*   - the creator, the goroutine inside CreateRedpacket;                  *)
(*   - Slots, the goroutines inside ClaimRedpacket (a user may have        *)
(*     several requests in flight);                                        *)
(*   - Handlers, the goroutines inside PayNotify;                          *)
(*   - the worker, asynq's single consumer (Concurrency: 1);               *)
(*   - the payment gateway, which is external.                             *)
(*                                                                         *)
(* MongoDB.  A transaction reads the snapshot taken by its first read.  A  *)
(* write of a document that another open transaction has written, or that  *)
(* changed since the snapshot, is a write conflict: session.WithTransaction*)
(* aborts and runs the callback again.  A write outside a transaction      *)
(* waits for the transaction that holds the document.                      *)
(***************************************************************************)
EXTENDS Integers, Sequences, FiniteSets, RedpacketSplit

CONSTANTS
    Slots,       \* concurrent claim requests
    Users,       \* addresses that claim
    Owner,       \* Owner[s] is the user whose request runs in slot s
    Handlers,    \* concurrent deliveries of gateway callbacks
    NoSlot,      \* no transaction holds the packet's document
    Types,       \* the types a sender asks for
    Amounts,     \* the amounts a sender may ask for (RedpacketRequest.Amount)
    MaxCount,    \* conf RedPacketMaxCount
    EarlyClaims, \* may a claim arrive before CreateRedpacket has returned?
    MaxTrouble   \* bound: faults, restarts and duplicate callbacks, together

ASSUME RedpacketAssumption ==
    /\ Owner \in [Slots -> Users]
    /\ NoSlot \notin Slots
    /\ Types \subseteq {"lucked", "average", "unknown"}
    /\ Amounts \subseteq Nat
    /\ MaxCount \in Nat \ {0}
    /\ EarlyClaims \in BOOLEAN
    /\ MaxTrouble \in Nat

VARIABLES
    \* MongoDB
    terms,    \* the fields of the packet no one updates
    saved,    \* has the transaction that inserts the packet committed?
    rp,       \* the fields of the packet's document that change
    claims,   \* the documents of redpacket_claim
    lock,     \* the slot whose transaction has written rp, or NoSlot
    fresh,    \* the slots whose snapshot of rp is still its last version
    \* Redis
    key,      \* does redpacket_send:<id> exist?
    count,    \* its value
    tasks,    \* RedpacketDone tasks that are scheduled or to be retried
    \* the processes
    creator,  \* where CreateRedpacket is
    ch,       \* the creator's subscription: its channel and what is in it
    cpc,      \* where each claim request is
    snap,     \* the balance and claim count each request has read
    pend,     \* the share and payment order of the transaction holding rp
    hpc,      \* where each callback handler is
    hcopy,    \* the document each handler has read
    wpc,      \* where the worker is
    wcopy,    \* the balance the worker has read
    \* the gateway
    sendTx,   \* the sender's payment
    acked,    \* the callbacks answered with success
    payouts,  \* the orders to pay a claim, in order: an order's id is its place
    refunds,  \* how many refunds were ordered
    purse,    \* what the red packet account holds for this packet
    \* history
    lost,     \* fields of rp that some Update overwrote with an older value
    dups,     \* deliveries of a callback that was running or acknowledged
    faults,   \* errors of MongoDB, Redis, the queue and the gateway
    crashes   \* restarts of the server

mongo   == <<terms, saved, rp, claims, lock, fresh, lost>>
redis   == <<key, count, tasks>>
sender  == <<creator, ch>>
claimer == <<cpc, snap, pend>>
handler == <<hpc, hcopy>>
worker  == <<wpc, wcopy>>
gateway == <<sendTx, acked, payouts, refunds, purse>>
history == <<dups, faults, crashes>>
vars    == <<mongo, redis, sender, claimer, handler, worker, gateway, history>>

-----------------------------------------------------------------------------
PayStatus == {"submit", "success", "failed"}

\* RedpacketType: 0, 1, and any other integer, which the claim treats as lucked.
Terms == [type : {"lucked", "average", "unknown"}, total : Nat, amount : Nat, avg : Nat]

Doc == [balance : Nat, claimCount : Nat, payStatus : PayStatus,
        refundTx : BOOLEAN, isTimeout : BOOLEAN]

Claim == [id : Nat, user : Users, amount : Nat]

Payout == [user : Users, amount : Nat]

NoTerms == [type |-> "lucked", total |-> 0, amount |-> 0, avg |-> 0]

\* The document CreateRedpacket inserts.  TxID is left out (the creator and the
\* callback write the same order's transaction in it), and so is RefundStatus,
\* which nothing reads.
NewDoc(balance) ==
    [balance |-> balance, claimCount |-> 0, payStatus |-> "submit",
     refundTx |-> FALSE, isTimeout |-> FALSE]

NoDoc == NewDoc(0)
NoSnap == [balance |-> 0, claimCount |-> 0]
NoPend == [id |-> 0, price |-> 0]

Init ==
    /\ terms = NoTerms /\ saved = FALSE /\ rp = NoDoc /\ claims = {}
    /\ lock = NoSlot /\ fresh = {} /\ lost = {}
    /\ key = FALSE /\ count = 0 /\ tasks = 0
    /\ creator = "idle" /\ ch = "absent"
    /\ cpc = [s \in Slots |-> "idle"]
    /\ snap = [s \in Slots |-> NoSnap]
    /\ pend = NoPend
    /\ hpc = [h \in Handlers |-> "idle"]
    /\ hcopy = [h \in Handlers |-> NoDoc]
    /\ wpc = "idle" /\ wcopy = 0
    /\ sendTx = "none" /\ acked = {} /\ payouts = <<>> /\ refunds = 0 /\ purse = 0
    /\ dups = 0 /\ faults = 0 /\ crashes = 0

\* Room for one more thing to go wrong.
Trouble == dups + faults + crashes < MaxTrouble

\* An error of a service the code calls.
Fault == Trouble /\ faults' = faults + 1

\* model.update outside a transaction: UpdateOne {_id} {$set: the whole struct}.
\* The writer means to change the fields of `own`; every other field goes back
\* to what it was when the struct was read.
Update(doc, own) ==
    /\ lock = NoSlot
    /\ rp' = doc
    /\ fresh' = {}
    /\ lost' = lost \cup {f \in DOMAIN doc \ own : doc[f] # rp[f]}

-----------------------------------------------------------------------------
(* CreateRedpacket. *)

\* What the request turns into: an average packet's Amount is per share.
TermsOf(type, amount, total) ==
    IF type = "average"
    THEN [type |-> type, total |-> total, amount |-> amount * total, avg |-> amount]
    ELSE [type |-> type, total |-> total, amount |-> amount, avg |-> 0]

\* The checks, the insert (not visible before the commit) and NewSubscribe,
\* which finds no subscription under a new id.
Create(type, amount, total) ==
    /\ creator = "idle"
    /\ total <= MaxCount /\ total >= 1
    /\ type = "lucked" => amount \div total >= 1
    /\ terms' = TermsOf(type, amount, total)
    /\ ch' = "empty"
    /\ creator' = "pay"
    /\ UNCHANGED <<saved, rp, claims, lock, fresh, lost>>
    /\ UNCHANGED <<redis, claimer, handler, worker, gateway, history>>

\* The request ends in an error: the deferred Cancel drops the subscription.
CreateFails == creator' = "failed" /\ ch' = "absent"

\* point.Pay inside the transaction.  An error may mean that the gateway refused
\* the payment, or that it took it and its answer was lost.
CreatePay ==
    /\ creator = "pay"
    /\ \/ sendTx' = "pending" /\ creator' = "commit" /\ UNCHANGED <<ch, faults>>
       \/ Fault /\ CreateFails /\ sendTx' \in {"none", "pending"}
    /\ UNCHANGED <<mongo, redis, claimer, handler, worker>>
    /\ UNCHANGED <<acked, payouts, refunds, purse, dups, crashes>>

\* The commit.  When it fails with a transient error the driver runs the callback
\* again, whose NewSubscribe finds its own subscription and returns an error.
CreateCommit ==
    /\ creator = "commit"
    /\ \/ /\ saved' = TRUE /\ rp' = NewDoc(terms.amount) /\ creator' = "update"
          /\ UNCHANGED <<ch, faults>>
       \/ Fault /\ CreateFails /\ UNCHANGED <<saved, rp>>
    /\ UNCHANGED <<terms, claims, lock, fresh, lost, dups, crashes>>
    /\ UNCHANGED <<redis, claimer, handler, worker, gateway>>

\* redpacket.Update, to store the TxID: the whole struct as it was inserted.
\* An error is only logged.
CreateUpdate ==
    /\ creator = "update"
    /\ \/ Update(NewDoc(terms.amount), {}) /\ UNCHANGED faults
       \/ Fault /\ UNCHANGED <<rp, fresh, lost>>
    /\ creator' = "wait"
    /\ UNCHANGED <<terms, saved, claims, lock, ch, dups, crashes>>
    /\ UNCHANGED <<redis, claimer, handler, worker, gateway>>

\* The select on notify.Ch; ctx is context.TODO(), which is never done.
CreateWait ==
    /\ creator = "wait"
    /\ ch \in {"true", "false"}
    /\ creator' = IF ch = "true" THEN "returned" ELSE "failed"
    /\ ch' = "absent"
    /\ UNCHANGED <<mongo, redis, claimer, handler, worker, gateway, history>>

-----------------------------------------------------------------------------
(* The payment gateway, and the callbacks it sends to /pay/notify.          *)

\* The sender's payment ends.  "dead" stands for the statuses failed and
\* crashed, for which eventSendRedpacket does nothing.
GatewaySettles ==
    /\ sendTx = "pending"
    /\ sendTx' \in {"completed", "rollback", "dead"}
    /\ purse' = IF sendTx' = "completed" THEN purse + terms.amount ELSE purse
    /\ UNCHANGED <<mongo, redis, sender, claimer, handler, worker, history>>
    /\ UNCHANGED <<acked, payouts, refunds>>

SendSteps == {"send.update", "send.set", "send.finish"}
RefundSteps == {"refund.update"}

\* The gateway repeats a callback until it is answered with success.  A delivery
\* beside a running one, or after the answer, is a duplicate.
Delivers(method, steps) ==
    IF method \notin acked /\ \A h \in Handlers : hpc[h] \notin steps
    THEN UNCHANGED dups
    ELSE Trouble /\ dups' = dups + 1

\* eventSendRedpacket reads the document.  Before the insert has committed
\* First returns ErrNoDocuments and the callback ends in an error.
SendRead(h) ==
    /\ hpc[h] = "idle"
    /\ sendTx \in {"completed", "rollback"}
    /\ saved
    /\ Delivers("send", SendSteps)
    /\ hcopy' = [hcopy EXCEPT ![h] = rp]
    /\ hpc' = [hpc EXCEPT ![h] = "send.update"]
    /\ UNCHANGED <<mongo, redis, sender, claimer, worker, gateway, faults, crashes>>

SendUpdate(h) ==
    /\ hpc[h] = "send.update"
    /\ IF sendTx = "completed"
       THEN /\ Update([hcopy[h] EXCEPT !.payStatus = "success"], {"payStatus"})
            /\ hpc' = [hpc EXCEPT ![h] = "send.set"]
       ELSE /\ Update([hcopy[h] EXCEPT !.payStatus = "failed"], {"payStatus"})
            /\ hpc' = [hpc EXCEPT ![h] = "send.finish"]
    /\ hcopy' = [hcopy EXCEPT ![h] = NoDoc]
    /\ UNCHANGED <<terms, saved, claims, lock>>
    /\ UNCHANGED <<redis, sender, claimer, worker, gateway, history>>

\* Redis.Set(redpacket_send:<id>, m.Total)
SendSet(h) ==
    /\ hpc[h] = "send.set"
    /\ key' = TRUE /\ count' = terms.total
    /\ hpc' = [hpc EXCEPT ![h] = "send.finish"]
    /\ UNCHANGED <<mongo, tasks, sender, claimer, hcopy, worker, gateway, history>>

\* MUTANT: the sender hears of a payment that went through only.
SendFinishUnheard(h) ==
    /\ hpc[h] = "send.finish"
    /\ tasks' = IF sendTx = "completed" THEN tasks + 1 ELSE tasks
    /\ ch' = IF ch = "empty" /\ sendTx = "completed" THEN "true" ELSE ch
    /\ acked' = acked \cup {"send"}
    /\ hpc' = [hpc EXCEPT ![h] = "idle"]
    /\ UNCHANGED <<mongo, key, count, creator, claimer, hcopy, worker>>
    /\ UNCHANGED <<sendTx, payouts, refunds, purse, history>>

\* MUTANT: the task is scheduled for a sender that already has its answer only.
SendFinishLate(h) ==
    /\ hpc[h] = "send.finish"
    /\ tasks' = IF ch # "empty" THEN tasks + 1 ELSE tasks
    /\ ch' = IF ch # "empty" THEN ch
             ELSE IF sendTx = "completed" THEN "true" ELSE "false"
    /\ acked' = acked \cup {"send"}
    /\ hpc' = [hpc EXCEPT ![h] = "idle"]
    /\ UNCHANGED <<mongo, key, count, creator, claimer, hcopy, worker>>
    /\ UNCHANGED <<sendTx, payouts, refunds, purse, history>>

\* queue.Enqueue(NewRedpacketDoneTask), an error of which is only logged, and
\* pubsub.Notify, dropped when no one is subscribed or the buffer is full.  (A
\* restart between the two leaves what a repeated callback leaves.)
SendFinish(h) ==
    /\ hpc[h] = "send.finish"
    /\ IF sendTx = "completed"
       THEN \/ tasks' = tasks + 1 /\ UNCHANGED faults
            \/ Fault /\ UNCHANGED tasks
       ELSE UNCHANGED <<tasks, faults>>
    /\ ch' = IF ch # "empty" THEN ch
             ELSE IF sendTx = "completed" THEN "true" ELSE "false"
    /\ acked' = acked \cup {"send"}
    /\ hpc' = [hpc EXCEPT ![h] = "idle"]
    /\ UNCHANGED <<mongo, key, count, creator, claimer, hcopy, worker>>
    /\ UNCHANGED <<sendTx, payouts, refunds, purse, dups, crashes>>

\* An Update or the Set fails: the callback ends in an error, half done.
CallbackError(h) ==
    /\ hpc[h] \in {"send.update", "send.set", "refund.update"}
    /\ Fault
    /\ hpc' = [hpc EXCEPT ![h] = "idle"]
    /\ hcopy' = [hcopy EXCEPT ![h] = NoDoc]
    /\ UNCHANGED <<mongo, redis, sender, claimer, worker, gateway, dups, crashes>>

\* eventRefundRedpacket reads the document.
RefundRead(h) ==
    /\ hpc[h] = "idle"
    /\ refunds > 0
    /\ Delivers("refund", RefundSteps)
    /\ hcopy' = [hcopy EXCEPT ![h] = rp]
    /\ hpc' = [hpc EXCEPT ![h] = "refund.update"]
    /\ UNCHANGED <<mongo, redis, sender, claimer, worker, gateway, faults, crashes>>

RefundUpdate(h) ==
    /\ hpc[h] = "refund.update"
    /\ Update([hcopy[h] EXCEPT !.refundTx = TRUE], {"refundTx"})
    /\ acked' = acked \cup {"refund"}
    /\ hpc' = [hpc EXCEPT ![h] = "idle"]
    /\ hcopy' = [hcopy EXCEPT ![h] = NoDoc]
    /\ UNCHANGED <<terms, saved, claims, lock>>
    /\ UNCHANGED <<redis, sender, claimer, worker, history>>
    /\ UNCHANGED <<sendTx, payouts, refunds, purse>>

\* eventClaimRedpacket stores the outcome of a claim's payment in the claim.
\* Nothing else updates a claim and nothing reads the outcome, so the callback
\* changes no state of this module.

-----------------------------------------------------------------------------
(* ClaimRedpacket.                                                          *)

HasClaim(user) == \E claim \in claims : claim.user = user

\* Who knows the packet's id: the sender, from the answer of CreateRedpacket or,
\* before it, from the list of the packets it sent (GET /redpacket/sends).
Known == saved /\ (EarlyClaims \/ creator \in {"returned", "failed"})

\* MUTANT: the counter goes down at the gate, whether or not a share is given.
ClaimGateDecr(s) ==
    /\ cpc[s] = "idle"
    /\ Known
    /\ key /\ count > 0
    /\ ~HasClaim(Owner[s])
    /\ count' = count - 1
    /\ cpc' = [cpc EXCEPT ![s] = "read"]
    /\ UNCHANGED <<mongo, key, tasks, sender, snap, pend, handler, worker, gateway, history>>

\* The rate limiter, the counter in Redis and the look-up of an earlier claim,
\* none in the transaction.  A refusal changes nothing.
ClaimGate(s) ==
    /\ cpc[s] = "idle"
    /\ Known
    /\ key /\ count > 0
    /\ ~HasClaim(Owner[s])
    /\ cpc' = [cpc EXCEPT ![s] = "read"]
    /\ UNCHANGED <<mongo, redis, sender, snap, pend, handler, worker, gateway, history>>

\* MUTANT: the transaction trusts the look-up made before it.
RefusedUnlessClaimed(s) == rp.isTimeout \/ rp.claimCount = terms.total

\* MUTANT: the transaction trusts the key deleted in Redis.
RefusedUnlessTimeout(s) == rp.claimCount = terms.total \/ HasClaim(Owner[s])

\* What makes the transaction give up: IsTimeout, ClaimCount == Total, and an
\* upsert that finds a claim of the user in the snapshot (RedpacketAlreadyClaim).
Refused(s) ==
    \/ rp.isTimeout
    \/ rp.claimCount = terms.total
    \/ HasClaim(Owner[s])

\* First, the transaction's first read: it takes the snapshot that the upsert
\* reads too.
ClaimRead(s) ==
    /\ cpc[s] = "read"
    /\ IF Refused(s)
       THEN /\ cpc' = [cpc EXCEPT ![s] = "idle"]
            /\ UNCHANGED <<snap, fresh>>
       ELSE /\ cpc' = [cpc EXCEPT ![s] = "write"]
            /\ snap' = [snap EXCEPT ![s] = [balance |-> rp.balance,
                                            claimCount |-> rp.claimCount]]
            /\ fresh' = fresh \cup {s}
    /\ UNCHANGED <<terms, saved, rp, claims, lock, lost, pend>>
    /\ UNCHANGED <<redis, sender, handler, worker, gateway, history>>

\* MUTANT: a share may take the bound of its draw.
SharesWithBound(t, balance, claimCount) ==
    IF t.type = "average"
    THEN {t.avg}
    ELSE 0 .. RandMax(balance, t.total - claimCount)

\* The amounts the next share of a packet with terms t may have.
Shares(t, balance, claimCount) ==
    IF t.type = "average"
    THEN {t.avg}
    ELSE RandShares(balance, t.total - claimCount)

\* MUTANT: the packet is updated whatever it holds by now.
WriteConflictOfOpen(s) == lock # NoSlot

\* Another transaction has written the packet, or its balance and claim count
\* are not what this one has read.
WriteConflict(s) == lock # NoSlot \/ s \notin fresh

\* The transaction of slot s ends without a commit, in state `pc`.
Abort(s, pc) ==
    /\ cpc' = [cpc EXCEPT ![s] = pc]
    /\ snap' = [snap EXCEPT ![s] = NoSnap]
    /\ fresh' = fresh \ {s}
    /\ lock' = IF lock = s THEN NoSlot ELSE lock
    /\ pend' = IF lock = s THEN NoPend ELSE pend

\* The upsert of the claim and the FindAndUpdate of the packet, whose filter
\* repeats the balance and the claim count that were read.
ClaimWrite(s) ==
    /\ cpc[s] = "write"
    /\ IF WriteConflict(s)
       THEN Abort(s, "read")
       ELSE /\ \E price \in Shares(terms, snap[s].balance, snap[s].claimCount) :
                  pend' = [NoPend EXCEPT !.price = price]
            /\ lock' = s
            /\ cpc' = [cpc EXCEPT ![s] = "pay"]
            /\ UNCHANGED <<snap, fresh>>
    /\ UNCHANGED <<terms, saved, rp, claims, lost>>
    /\ UNCHANGED <<redis, sender, handler, worker, gateway, history>>

\* MUTANT: the balance that is left is paid in place of the share.
OrderPayoutOfBalance(s) ==
    /\ payouts' = Append(payouts, [user |-> Owner[s],
                                   amount |-> snap[s].balance - pend.price])
    /\ purse' = purse - (snap[s].balance - pend.price)

\* The gateway takes an order to pay the share of slot s.
OrderPayout(s) ==
    /\ payouts' = Append(payouts, [user |-> Owner[s], amount |-> pend.price])
    /\ purse' = purse - pend.price

\* point.Pay, still inside the transaction: taken; refused; or taken, with its
\* answer lost.
ClaimPay(s) ==
    /\ cpc[s] = "pay"
    /\ \/ /\ OrderPayout(s)
          /\ pend' = [pend EXCEPT !.id = Len(payouts) + 1]
          /\ cpc' = [cpc EXCEPT ![s] = "commit"]
          /\ UNCHANGED <<lock, snap, fresh, faults>>
       \/ /\ Fault
          /\ Abort(s, "idle")
          /\ OrderPayout(s) \/ UNCHANGED <<payouts, purse>>
    /\ UNCHANGED <<terms, saved, rp, claims, lost, dups, crashes>>
    /\ UNCHANGED <<redis, sender, handler, worker, sendTx, acked, refunds>>

\* A read or a write of the transaction fails: the request ends in an error.
ClaimError(s) ==
    /\ cpc[s] \in {"read", "write"}
    /\ Fault
    /\ Abort(s, "idle")
    /\ UNCHANGED <<terms, saved, rp, claims, lost, dups, crashes>>
    /\ UNCHANGED <<redis, sender, handler, worker, gateway>>

\* The commit makes both documents visible.  After a transient error the driver
\* runs the callback again, and the order that was paid has no claim.
ClaimCommit(s) ==
    /\ cpc[s] = "commit"
    /\ \/ /\ rp' = [rp EXCEPT !.balance = snap[s].balance - pend.price,
                              !.claimCount = snap[s].claimCount + 1]
          /\ claims' = claims \cup {[id |-> pend.id, user |-> Owner[s],
                                     amount |-> pend.price]}
          /\ cpc' = [cpc EXCEPT ![s] = "decr"]
          /\ snap' = [snap EXCEPT ![s] = NoSnap]
          /\ fresh' = {} /\ lock' = NoSlot /\ pend' = NoPend
          /\ UNCHANGED faults
       \/ Fault /\ Abort(s, "read") /\ UNCHANGED <<rp, claims>>
    /\ UNCHANGED <<terms, saved, lost, dups, crashes>>
    /\ UNCHANGED <<redis, sender, handler, worker, gateway>>

\* Redis.Decr, which makes the key again when the task has deleted it.  Its error
\* is dropped.
ClaimDecr(s) ==
    /\ cpc[s] = "decr"
    /\ \/ /\ key' = TRUE
          /\ count' = (IF key THEN count ELSE 0) - 1
          /\ UNCHANGED faults
       \/ Fault /\ UNCHANGED <<key, count>>
    /\ cpc' = [cpc EXCEPT ![s] = "idle"]
    /\ UNCHANGED <<mongo, tasks, sender, snap, pend, handler, worker, gateway>>
    /\ UNCHANGED <<dups, crashes>>

-----------------------------------------------------------------------------
(* HandleRedpacketDoneTask.  asynq keeps the task until it returns nil.     *)

\* RedPacketTimeout has passed: the key goes first.  The error of Del is dropped.
TaskStart ==
    /\ wpc = "idle" /\ tasks > 0
    /\ \/ key' = FALSE /\ count' = 0 /\ UNCHANGED faults
       \/ Fault /\ UNCHANGED <<key, count>>
    /\ wpc' = "mark"
    /\ UNCHANGED <<mongo, tasks, sender, claimer, handler, wcopy, gateway, dups, crashes>>

TaskDone == wpc' = "idle" /\ wcopy' = 0 /\ tasks' = tasks - 1

\* The task returns an error and asynq will run it again.
TaskFails == wpc' = "idle" /\ wcopy' = 0 /\ tasks' = tasks

\* FindAndUpdate {is_timeout: true}, outside a transaction.
TaskMark ==
    /\ wpc = "mark"
    /\ \/ /\ lock = NoSlot
          /\ rp' = [rp EXCEPT !.isTimeout = TRUE]
          /\ fresh' = {}
          /\ wpc' = "read"
          /\ UNCHANGED <<wcopy, tasks, faults>>
       \/ Fault /\ TaskFails /\ UNCHANGED <<rp, fresh>>
    /\ UNCHANGED <<terms, saved, claims, lock, lost>>
    /\ UNCHANGED <<key, count, sender, claimer, handler, gateway, dups, crashes>>

\* MUTANT: one share may be left over.
RefundDueOfMany == terms.total - rp.claimCount > 1 /\ ~rp.refundTx

\* "check need refund"
RefundDue == terms.total - rp.claimCount > 0 /\ ~rp.refundTx

TaskRead ==
    /\ wpc = "read"
    /\ IF RefundDue
       THEN wpc' = "pay" /\ wcopy' = rp.balance /\ UNCHANGED tasks
       ELSE TaskDone
    /\ UNCHANGED <<mongo, key, count, sender, claimer, handler, gateway, history>>

\* MUTANT: the sender gets the whole amount back.
OrderRefundOfAmount == refunds' = refunds + 1 /\ purse' = purse - terms.amount

OrderRefund == refunds' = refunds + 1 /\ purse' = purse - wcopy

\* point.Pay.  Its transaction id stays in the task's struct: nothing stores it
\* before the callback does.
TaskPay ==
    /\ wpc = "pay"
    /\ \/ OrderRefund /\ wpc' = "commit" /\ UNCHANGED <<wcopy, tasks, faults>>
       \/ Fault /\ TaskFails /\ (OrderRefund \/ UNCHANGED <<refunds, purse>>)
    /\ UNCHANGED <<mongo, key, count, sender, claimer, handler>>
    /\ UNCHANGED <<sendTx, acked, payouts, dups, crashes>>

\* The transaction wrote nothing, and still has to commit.  First decodes over
\* the RefundTxID of the run before when the driver runs the callback again.
TaskCommit ==
    /\ wpc = "commit"
    /\ \/ TaskDone /\ UNCHANGED faults
       \/ Fault /\ wpc' = "read" /\ wcopy' = 0 /\ UNCHANGED tasks
    /\ UNCHANGED <<mongo, key, count, sender, claimer, handler, gateway, dups, crashes>>

-----------------------------------------------------------------------------
\* The server restarts: requests, callbacks and subscriptions are gone, open
\* transactions abort, and asynq hands the task it was running out again.
Crash ==
    /\ Trouble /\ crashes' = crashes + 1
    /\ creator' = IF creator \in {"idle", "returned"} THEN creator ELSE "failed"
    /\ ch' = "absent"
    /\ cpc' = [s \in Slots |-> "idle"] /\ snap' = [s \in Slots |-> NoSnap]
    /\ fresh' = {} /\ lock' = NoSlot /\ pend' = NoPend
    /\ hpc' = [h \in Handlers |-> "idle"] /\ hcopy' = [h \in Handlers |-> NoDoc]
    /\ wpc' = "idle" /\ wcopy' = 0
    /\ UNCHANGED <<terms, saved, rp, claims, lost, redis, gateway, dups, faults>>

CreatorStep == CreatePay \/ CreateCommit \/ CreateUpdate \/ CreateWait

HandlerStep(h) ==
    \/ SendRead(h) \/ SendUpdate(h) \/ SendSet(h) \/ SendFinish(h)
    \/ RefundRead(h) \/ RefundUpdate(h)

ClaimStep(s) ==
    ClaimRead(s) \/ ClaimWrite(s) \/ ClaimPay(s) \/ ClaimCommit(s) \/ ClaimDecr(s)

TaskStep == TaskStart \/ TaskMark \/ TaskRead \/ TaskPay \/ TaskCommit

Next ==
    \/ \E type \in Types, amount \in Amounts, total \in 1 .. MaxCount :
          Create(type, amount, total)
    \/ CreatorStep
    \/ GatewaySettles
    \/ \E h \in Handlers : HandlerStep(h) \/ CallbackError(h)
    \/ \E s \in Slots : ClaimGate(s) \/ ClaimStep(s) \/ ClaimError(s)
    \/ TaskStep
    \/ Crash

Spec == Init /\ [][Next]_vars

(* The goroutines run, the gateway settles a payment and repeats a callback    *)
(* until it is answered (it never has to repeat one that was), and asynq hands *)
(* a task out until it succeeds.  No one has to claim.                         *)
FairSpec ==
    /\ Spec
    /\ WF_vars(CreatorStep)
    /\ WF_vars(GatewaySettles)
    /\ \A h \in Handlers : WF_vars(HandlerStep(h) /\ UNCHANGED dups)
    /\ \A s \in Slots : WF_vars(ClaimStep(s))
    /\ WF_vars(TaskStep)

-----------------------------------------------------------------------------
(* Properties. *)

MongoTypeOK ==
    /\ terms \in Terms /\ saved \in BOOLEAN /\ rp \in Doc
    /\ claims \subseteq Claim
    /\ lock \in Slots \cup {NoSlot} /\ fresh \subseteq Slots
    /\ lost \subseteq DOMAIN NoDoc

RedisTypeOK == key \in BOOLEAN /\ count \in Int /\ tasks \in Nat

SenderTypeOK ==
    /\ creator \in {"idle", "pay", "commit", "update", "wait", "returned", "failed"}
    /\ ch \in {"absent", "empty", "true", "false"}

ClaimerTypeOK ==
    /\ cpc \in [Slots -> {"idle", "read", "write", "pay", "commit", "decr"}]
    /\ snap \in [Slots -> [balance : Nat, claimCount : Nat]]
    /\ pend \in [id : Nat, price : Nat]

HandlerTypeOK ==
    /\ hpc \in [Handlers -> {"idle"} \cup SendSteps \cup RefundSteps]
    /\ hcopy \in [Handlers -> Doc]

WorkerTypeOK == wpc \in {"idle", "mark", "read", "pay", "commit"} /\ wcopy \in Nat

GatewayTypeOK ==
    /\ sendTx \in {"none", "pending", "completed", "rollback", "dead"}
    /\ acked \subseteq {"send", "refund"}
    /\ payouts \in Seq(Payout) /\ refunds \in Nat /\ purse \in Int

HistoryTypeOK == dups \in Nat /\ faults \in Nat /\ crashes \in Nat

\* Every variable has its type; above all, no balance ever goes below zero and no
\* task is taken from an empty queue.
TypeOK ==
    /\ MongoTypeOK /\ RedisTypeOK /\ SenderTypeOK /\ ClaimerTypeOK
    /\ HandlerTypeOK /\ WorkerTypeOK /\ GatewayTypeOK /\ HistoryTypeOK

\* A balance serves the shares a packet with terms t still promises: a whole share each when they are
\* equal, at least 1 each when they are drawn, and nothing is left when the last
\* is gone.
Covered(t, balance, claimCount) ==
    LET left == t.total - claimCount
    IN  /\ left >= 0
        /\ t.type = "average" => balance = t.avg * left
        /\ t.type = "lucked" => balance >= left
        /\ left = 0 => balance = 0

\* What is stored is covered whatever interleaves with whatever: an Update that
\* brings old values back brings a balance and a claim count that fit together
\* (redpacket.go, the split in ClaimRedpacket and redpacketRand).
SharesCovered == saved => Covered(terms, rp.balance, rp.claimCount)

\* No user has two claims of a packet, though no unique index says so: two
\* requests of one user can both find no claim, and then collide on the packet.
ClaimOnce ==
    \A c, d \in claims : c.user = d.user => c = d

\* No Update has put an old balance or claim count back.
BalanceKept == lost \cap {"balance", "claimCount"} = {}

\* The units of money the claims of a set were given, one element for each.
Units(cs) == UNION {{c} \X (1 .. c.amount) : c \in cs}

\* As long as no Update has put an old balance or claim count back, the claims
\* account for every share given away and every unit that left the balance.
Books ==
    saved /\ BalanceKept =>
        /\ rp.claimCount = Cardinality(claims)
        /\ rp.balance + Cardinality(Units(claims)) = terms.amount

\* The requests whose payment is ordered and whose transaction is not committed.
Waiting == {s \in Slots : cpc[s] = "commit"}

\* Every recorded claim was ordered from the gateway, at its amount and under an
\* order of its own; an order without a claim is waiting for its commit, or its
\* transaction failed after the order went out (point.Pay inside the transaction).
ClaimsPaid ==
    /\ \A c \in claims :
          /\ c.id \in 1 .. Len(payouts)
          /\ payouts[c.id] = [user |-> c.user, amount |-> c.amount]
    /\ \A c, d \in claims : c.id = d.id => c = d
    /\ Len(payouts) <= Cardinality(claims) + Cardinality(Waiting) + faults + crashes

\* Until the packet's task runs, and whatever callbacks are repeated, the counter
\* in Redis never promises less than the document still holds, so ClaimRedpacket
\* turns no one away too early.
NoLockout ==
    /\ key /\ wpc = "idle" /\ ~rp.isTimeout
    /\ lost \subseteq {"payStatus"} /\ faults + crashes = 0
    => count >= terms.total - rp.claimCount

\* Nothing went wrong around the code, and no Update lost more than the status
\* that the creator's last Update puts back when the callback came first.
Calm == lost \subseteq {"payStatus"} /\ dups = 0 /\ faults = 0 /\ crashes = 0

\* Then the red packet account holds exactly what the document says is left,
\* less the share of a transaction that has paid and not committed, and nothing
\* once the rest is refunded: the service never pays from other people's packets.
PurseTracksBalance ==
    (Calm /\ saved /\ sendTx = "completed") =>
        purse = (IF refunds = 0 THEN rp.balance ELSE 0)
                - (IF Waiting # {} THEN pend.price ELSE 0)

\* Once a refund is ordered no claim is recorded any more, unless an Update has
\* put is_timeout back to false (HandleRedpacketDoneTask against ClaimRedpacket).
ClosedByRefund ==
    [][refunds > 0 /\ "isTimeout" \notin lost =>
          Cardinality(claims') = Cardinality(claims)]_vars

\* The sender is refunded once ("check need refund", and RefundTxID, in
\* HandleRedpacketDoneTask).
RefundedOnce == refunds <= 1

\* A sender whose payment ended is answered (the select of CreateRedpacket).
SenderAnswered ==
    creator = "wait" /\ sendTx \in {"completed", "rollback"}
        ~> creator \in {"returned", "failed"}

\* What no one claims goes back to the sender: a scheduled task ends with every
\* share claimed or a refund ordered, whatever fails on the way.
LeftoverReturned ==
    tasks > 0 ~> refunds > 0 \/ rp.claimCount = terms.total

\* A payment that went through leads to a task that closes the packet, unless a
\* service failed or the server restarted.
PaidIsClosed ==
    sendTx = "completed" ~>
        refunds > 0 \/ rp.claimCount = terms.total \/ faults > 0 \/ crashes > 0

-----------------------------------------------------------------------------
(* The inductive invariant behind TypeOK, SharesCovered, ClaimOnce and         *)
(* ClosedByRefund (proved in RedpacketProofs).                                 *)

\* What CreateRedpacket let through.
TermsFit ==
    creator # "idle" =>
        /\ terms.total >= 1
        /\ terms.type = "average" => terms.amount = terms.avg * terms.total
        /\ terms.type = "lucked" => terms.amount >= terms.total

\* No one works on a packet before its insert has committed, and the worker
\* holds the task it runs.
Started ==
    /\ saved => creator \notin {"idle", "pay", "commit"}
    /\ \A h \in Handlers : hpc[h] # "idle" => saved
    /\ \A s \in Slots : cpc[s] # "idle" => saved
    /\ wpc # "idle" => tasks > 0
    /\ tasks > 0 \/ refunds > 0 => saved

\* The document is covered, and so is every copy that may be written back.
CopiesCovered ==
    /\ SharesCovered
    /\ \A h \in Handlers : hpc[h] \in {"send.update", "refund.update"} =>
          Covered(terms, hcopy[h].balance, hcopy[h].claimCount)
    /\ \A s \in Slots : cpc[s] \in {"write", "pay", "commit"} =>
          /\ Covered(terms, snap[s].balance, snap[s].claimCount)
          /\ snap[s].claimCount < terms.total

\* Only the transaction that pays or commits holds the document, its snapshot is
\* the last version, and its share was drawn from it.
SharePending ==
    \A s \in Slots :
        /\ lock = s <=> cpc[s] \in {"pay", "commit"}
        /\ lock = s => /\ s \in fresh
                       /\ pend.price \in Shares(terms, snap[s].balance, snap[s].claimCount)

\* A snapshot that is the last version shows an open packet and no claim of the
\* request's user.
FreshIsOpen ==
    \A s \in fresh : ~rp.isTimeout /\ ~HasClaim(Owner[s])

\* Once the worker has marked the packet only an Update unmarks it.
MarkedOrLost ==
    refunds > 0 \/ wpc \in {"read", "pay", "commit"} =>
        rp.isTimeout \/ "isTimeout" \in lost

IInv ==
    /\ TypeOK /\ TermsFit /\ Started /\ CopiesCovered /\ SharePending
    /\ FreshIsOpen /\ ClaimOnce /\ MarkedOrLost

-----------------------------------------------------------------------------
(* What Books, ClaimsPaid, NoLockout and PurseTracksBalance need besides IInv. *)

\* A snapshot that is the last version belongs to an open transaction and shows
\* the balance and the claim count of the document.
SnapsCurrent ==
    \A s \in fresh :
        /\ cpc[s] \in {"write", "pay", "commit"}
        /\ snap[s].balance = rp.balance
        /\ snap[s].claimCount = rp.claimCount

BooksInv ==
    /\ IsFiniteSet(claims) /\ IsFiniteSet(Units(claims))
    /\ ~saved => claims = {}
    /\ SnapsCurrent
    /\ Books

\* The order of a transaction that waits for its commit is its own.
OrderPending ==
    \A s \in Waiting :
        /\ pend.id \in 1 .. Len(payouts)
        /\ payouts[pend.id] = [user |-> Owner[s], amount |-> pend.price]
        /\ \A c \in claims : c.id # pend.id

OrdersInv == ClaimsPaid /\ OrderPending

\* The requests whose claim is committed and not yet taken off the counter.
Uncounted == {s \in Slots : cpc[s] = "decr"}

\* What keeps NoLockout: the counter promises the shares the document holds and
\* those of the claims still to be taken off it.
CounterInv ==
    /\ IsFiniteSet(Uncounted)
    /\ ~saved => ~key
    /\ wpc = "idle" /\ ~rp.isTimeout /\ lost \subseteq {"payStatus"} /\ faults + crashes = 0
       => /\ Cardinality(Uncounted) <= rp.claimCount
          /\ IF key
             THEN count >= terms.total - rp.claimCount + Cardinality(Uncounted)
             ELSE \A s \in Slots : cpc[s] = "idle"

\* Before the sender's payment is completed nothing is in the account, no one
\* claims and nothing is refunded.
Unpaid ==
    sendTx # "completed" =>
        /\ purse = 0 /\ ~key /\ tasks = 0 /\ refunds = 0
        /\ \A s \in Slots : cpc[s] = "idle"
        /\ \A h \in Handlers : hpc[h] # "send.set"
        /\ saved => rp.balance = terms.amount

\* The callback runs once, so its task runs once and orders one refund at most.
OneTask ==
    /\ \A g, h \in Handlers : hpc[g] \in SendSteps /\ hpc[h] \in SendSteps => g = h
    /\ "send" \in acked => \A h \in Handlers : hpc[h] \notin SendSteps
    /\ "send" \notin acked => tasks = 0 /\ refunds = 0
    /\ tasks <= 1
    /\ refunds <= 1
    /\ tasks = 1 => refunds = 0 \/ wpc = "commit"

\* The refund about to be ordered is what the document holds.
RefundReady == wpc = "pay" => wcopy = rp.balance

\* The sender's money may arrive before the packet is stored.
PaidEarly == ~saved /\ sendTx = "completed" => purse = terms.amount

CalmInv == Unpaid /\ OneTask /\ RefundReady /\ PaidEarly /\ PurseTracksBalance

PurseInv ==
    /\ creator \in {"idle", "pay"} => sendTx = "none"
    /\ Calm => CalmInv
=============================================================================
