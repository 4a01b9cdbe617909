--------------------------- MODULE PostFeedProofs ---------------------------
(***************************************************************************)
(* TLAPS proofs about PostFeed, with PageCache and SearchBridge, for any   *)
(* number of requests and workers and any size of the channels: the        *)
(* invariant IInv is inductive, a page misses only the changes named, the  *)
(* index holds what was sent last, and that is the post as it is.          *)
(***************************************************************************)
EXTENDS PostFeed, TLAPS

-----------------------------------------------------------------------------
(* Types. *)

LEMMA UpdatesAre ==
    /\ \A r \in Writers : Bridge!Adds(r) \in Update /\ Bridge!Deletes(r) \in Update
    /\ \A d \in Update : Bridge!Effect(d) \in Writers \cup {"absent"}
    /\ Idle \notin Update
<1>1. Idle \notin Update
    BY FeedAssumption DEF Update, Writers
<1> QED BY <1>1 DEF Update, Bridge!Adds, Bridge!Deletes, Bridge!Effect

LEMMA PushTyped == ASSUME TypeOK, NEW r \in Requests PROVE Push(r) \in Update
    BY UpdatesAre DEF Push, Writers

\* What the bridge does with an update keeps its types.
LEMMA UpdateDocsTyped ==
    ASSUME TypeOK, NEW d \in Update, Bridge!UpdateDocs(d)
    PROVE  /\ main' \in Seq(Update) /\ temp' \in Seq(Update) /\ sent' \in Seq(Update)
           /\ helpers' \subseteq Update /\ orderly' \in BOOLEAN
           /\ UNCHANGED <<hand, index, dropped>>
<1>1. /\ main \in Seq(Update) /\ temp \in Seq(Update) /\ sent \in Seq(Update)
      /\ helpers \subseteq Update /\ orderly \in BOOLEAN
    BY DEF TypeOK
<1>2. /\ sent' = Append(sent, d) /\ UNCHANGED <<hand, index, dropped>>
      /\ main' = main \/ main' = Append(main, d)
      /\ temp' = temp \/ temp' = Append(temp, d)
      /\ helpers' = helpers \/ helpers' = helpers \cup {d}
      /\ orderly' = orderly \/ orderly' = FALSE
    BY DEF Bridge!UpdateDocs
<1>3. main' \in Seq(Update) /\ temp' \in Seq(Update) /\ sent' \in Seq(Update)
    <2>1. \A s \in Seq(Update) : Append(s, d) \in Seq(Update)
        OBVIOUS
    <2> QED BY <1>1, <1>2, <2>1
<1>4. helpers' \subseteq Update
    BY <1>1, <1>2
<1>5. orderly' \in BOOLEAN
    BY <1>1, <1>2
<1> QED BY <1>2, <1>3, <1>4, <1>5

LEMMA RequestTyped ==
    ASSUME TypeOK, NEW r \in Requests, Call(r) \/ PushPostsToSearch(r) \/ RequestStep(r)
    PROVE  TypeOK'
<1> USE DEF TypeOK, Goto, cache, bridge
<1>1. CASE Call(r)
    BY <1>1 DEF Call
<1>2. CASE PushPostsToSearch(r)
    BY <1>2 DEF PushPostsToSearch
<1>3. CASE Store(r)
    <2>1. stored' \in Writers /\ log' \in Seq(Requests)
        <3>1. stored' = stored \/ stored' = r
            BY <1>3 DEF Store
        <3>2. log' = log \/ log' = Append(log, r)
            BY <1>3 DEF Store
        <3>3. Append(log, r) \in Seq(Requests)
            OBVIOUS
        <3> QED BY <3>1, <3>2, <3>3 DEF Writers
    <2>2. there' \in BOOLEAN /\ apart' \in BOOLEAN
        BY <1>3 DEF Store
    <2>3. pc' \in [Requests -> {"idle", "store", "tell", "unpush", "push", "refill", "done"}]
        BY <1>3 DEF Store
    <2>4. UNCHANGED <<op, copy, cache, bridge>>
        BY <1>3 DEF Store
    <2> QED BY <2>1, <2>2, <2>3, <2>4
<1>4. CASE StoreFails(r) \/ StoreIgnored(r)
    BY <1>4 DEF StoreFails, StoreIgnored
<1>5. CASE Tell(r)
    BY <1>5 DEF Tell, Cache!SendAction
<1>6. CASE Unpush(r)
    <2>1. PICK d \in Update : Bridge!UpdateDocs(d)
        BY <1>6, UpdatesAre DEF Unpush, Writers
    <2> QED BY <1>6, <2>1, UpdateDocsTyped DEF Unpush
<1>7. CASE PushToSearch(r)
    <2>1. PICK d \in Update : Bridge!UpdateDocs(d)
        BY <1>7, PushTyped DEF PushToSearch
    <2> QED BY <1>7, <2>1, UpdateDocsTyped DEF PushToSearch
<1>8. CASE Refill(r)
    <2>1. copy[r] \in Writers
        OBVIOUS
    <2>2. PICK d \in Update :
              d = Bridge!Adds(copy[r]) /\ Bridge!Effect(d) \in Writers \cup {"absent"}
        BY <2>1, UpdatesAre
    <2>3. pc' \in [Requests -> {"idle", "store", "tell", "unpush", "push", "refill", "done"}]
        BY <1>8 DEF Refill
    <2>4. CASE UNCHANGED <<apart, bridge>>
        BY <1>8, <2>3, <2>4 DEF Refill
    <2>5. CASE Bridge!AddElsewhere(d) /\ apart' = (apart /\ there /\ stored = copy[r])
        <3>1. sent' \in Seq(Update) /\ index' \in Writers \cup {"absent"}
            BY <2>2, <2>5 DEF Bridge!AddElsewhere
        <3>2. orderly' \in BOOLEAN /\ apart' \in BOOLEAN
            BY <2>5 DEF Bridge!AddElsewhere
        <3> QED BY <1>8, <2>3, <2>5, <3>1, <3>2 DEF Refill, Bridge!AddElsewhere
    <2> QED BY <1>8, <2>2, <2>4, <2>5 DEF Refill
<1> QED BY <1>1, <1>2, <1>3, <1>4, <1>5, <1>6, <1>7, <1>8 DEF RequestStep

LEMMA CacheTyped ==
    ASSUME TypeOK, CacheStep \/ \E r \in Requests : Receive(r)
    PROVE  TypeOK'
<1> USE DEF TypeOK, post, bridge
<1>0. Anonymous \in Cache!Keys /\ Empty \in Page /\ Len(log) \in Page
    BY DEF Cache!Keys, Page
<1>1. CASE \E r \in Requests : Receive(r)
    <2>1. PICK r \in Requests : Receive(r)
        BY <1>1
    <2>2. CASE Cache!Remove(r)
        BY <1>0, <2>1, <2>2 DEF Receive, Cache!Remove, Cache!Receive
    <2>3. CASE Cache!HandleIndexAction(r, op[r] = "createprivate")
        <3>1. pages' \in [Cache!Keys -> Page]
            BY <1>0, <2>3 DEF Cache!HandleIndexAction
        <3> QED BY <2>1, <2>3, <3>1 DEF Receive, Cache!HandleIndexAction, Cache!Receive
    <2> QED BY <2>1, <2>2, <2>3 DEF Receive
<1>2. CASE CacheStep
    <2> USE <1>2 DEF CacheStep
    <2>1. CASE Cache!Check
        BY <1>0, <2>1 DEF Cache!Check
    <2>2. CASE Cache!StoreIndex
        BY <1>0, <2>2 DEF Cache!StoreIndex
    <2>3. CASE Cache!SetPosts
        <3>1. PICK e \in entries : pages' = [pages EXCEPT ![e[1]] = e[2]] /\ entries' = entries \ {e}
                                   /\ UNCHANGED <<log, kind, loading, actions, recent, muted>>
            BY <2>3 DEF Cache!SetPosts
        <3>2. e[1] \in Cache!Keys /\ e[2] \in Page
            BY <3>1 DEF Page
        <3> QED BY <3>1, <3>2
    <2>4. CASE Cache!Expire
        BY <1>0, <2>4 DEF Cache!Expire
    <2>5. CASE Cache!PreventDurationPasses
        BY <2>5 DEF Cache!PreventDurationPasses
    <2>6. CASE \E k \in Cache!Keys : Cache!IndexPosts(k)
        BY <2>6 DEF Cache!IndexPosts
    <2> QED BY <2>1, <2>2, <2>3, <2>4, <2>5, <2>6
<1> QED BY <1>1, <1>2

LEMMA WorkersTyped ==
    ASSUME TypeOK, HelperStep \/ Restart \/ \E w \in Workers : WorkerStep(w) \/ Refused(w)
    PROVE  TypeOK'
<1> USE DEF TypeOK, post, cache
<1>1. CASE HelperStep
    BY <1>1, UpdatesAre DEF HelperStep, Bridge!HandleAlone
<1>2. CASE Restart
    <2>1. pc' \in [Requests -> {"idle", "store", "tell", "unpush", "push", "refill", "done"}]
        BY <1>2 DEF Restart
    <2>2. pages' \in [Cache!Keys -> Page] /\ loading' \in Page
        BY <1>2 DEF Restart, Page
    <2>3. /\ main' \in Seq(Update) /\ temp' \in Seq(Update) /\ helpers' \subseteq Update
          /\ hand' \in [Workers -> Update \cup {Idle}] /\ dropped' \in Nat
          /\ UNCHANGED <<index, sent, orderly>>
        BY <1>2 DEF Restart, Bridge!Exit
    <2> QED BY <1>2, <2>1, <2>2, <2>3 DEF Restart
<1>3. ASSUME NEW w \in Workers, WorkerStep(w) PROVE TypeOK'
    <2>1. CASE Bridge!Take(w)
        <3>1. main[1] \in Update /\ Tail(main) \in Seq(Update)
            BY <2>1 DEF Bridge!Take
        <3> QED BY <1>3, <2>1, <3>1 DEF WorkerStep, Bridge!Take
    <2>2. CASE Bridge!HandleUpdate(w)
        BY <1>3, <2>2, UpdatesAre DEF WorkerStep, Bridge!HandleUpdate
    <2> QED BY <1>3, <2>1, <2>2 DEF WorkerStep
<1>4. ASSUME NEW w \in Workers, Refused(w) PROVE TypeOK'
    BY <1>4 DEF Refused, Bridge!Refuse
<1> QED BY <1>1, <1>2, <1>3, <1>4

-----------------------------------------------------------------------------
(* The bridge. *)

LEMMA UpdateDocsKeeps ==
    ASSUME TypeOK, BridgeInv, NEW d \in Update, Bridge!UpdateDocs(d) PROVE BridgeInv'
<1> USE DEF Bridge!InHand
<1>0. /\ main \in Seq(Update) /\ sent \in Seq(Update) /\ sent' = Append(sent, d)
      /\ UNCHANGED <<hand, index, dropped>>
    BY DEF TypeOK, Bridge!UpdateDocs
<1>1. sent' # <<>>
    BY <1>0
<1>2. ASSUME orderly', dropped' = 0
      PROVE  /\ orderly /\ dropped = 0 /\ main' = Append(main, d) /\ UNCHANGED helpers
    BY <1>0, <1>2 DEF Bridge!UpdateDocs
<1>3. ASSUME orderly', dropped' = 0
      PROVE  /\ Taken' \in Nat
             /\ \A i \in 1..Len(main') : main'[i] = sent'[Taken' + i]
             /\ \A v, w \in Bridge!InHand' : v = w
             /\ \A w \in Bridge!InHand' : Taken' # 0 /\ hand'[w] = sent'[Taken']
             /\ Bridge!InHand' = {} /\ Taken' # 0 => index' = Bridge!Effect(sent[Taken])'
             /\ helpers' = {}
    <2>1. /\ Taken \in Nat /\ helpers = {}
          /\ \A i \in 1..Len(main) : main[i] = sent[Taken + i]
          /\ \A v, w \in Bridge!InHand : v = w
          /\ \A w \in Bridge!InHand : Taken # 0 /\ hand[w] = sent[Taken]
          /\ Bridge!InHand = {} /\ Taken # 0 => index = Bridge!Effect(sent[Taken])
        BY <1>2, <1>3 DEF BridgeInv
    <2>2. /\ main' = Append(main, d) /\ helpers' = helpers
          /\ Len(main) \in Nat /\ Len(sent) \in Nat
          /\ Len(main') = Len(main) + 1 /\ Len(sent') = Len(sent) + 1
        BY <1>0, <1>2, <1>3
    <2>3. Taken' = Taken /\ Taken + Len(main) = Len(sent)
        BY <2>2 DEF Taken
    <2>4. \A i \in 1..Len(sent) : sent'[i] = sent[i]
        BY <1>0
    <2>5. Taken # 0 => sent'[Taken] = sent[Taken]
        BY <2>1, <2>2, <2>3, <2>4
    <2>6. ASSUME NEW i \in 1..Len(main') PROVE main'[i] = sent'[Taken' + i]
        <3>1. CASE i \in 1..Len(main)
            <4>1. main'[i] = main[i] /\ Taken + i \in 1..Len(sent)
                BY <1>0, <2>1, <2>2, <2>3, <3>1
            <4> QED BY <2>1, <2>3, <2>4, <3>1, <4>1
        <3>2. CASE i = Len(main) + 1
            <4>1. main'[i] = d
                BY <1>0, <2>2, <3>2
            <4>2. Taken' + i = Len(sent) + 1
                BY <2>1, <2>2, <2>3, <3>2
            <4> QED BY <1>0, <4>1, <4>2
        <3> QED BY <2>2, <3>1, <3>2
    <2>7. Bridge!InHand' = Bridge!InHand
        BY <1>0
    <2>8. \A w \in Bridge!InHand' : Taken' # 0 /\ hand'[w] = sent'[Taken']
        BY <1>0, <2>1, <2>3, <2>5, <2>7
    <2>9. Bridge!InHand' = {} /\ Taken' # 0 => index' = Bridge!Effect(sent[Taken])'
        BY <1>0, <2>1, <2>3, <2>5, <2>7 DEF Bridge!Effect
    <2> QED BY <2>1, <2>2, <2>3, <2>6, <2>7, <2>8, <2>9
<1> QED BY <1>1, <1>3 DEF BridgeInv

LEMMA TakeKeeps ==
    ASSUME TypeOK, BridgeInv, NEW w \in Workers, Bridge!Take(w) PROVE BridgeInv'
<1> USE DEF Bridge!InHand
<1>0. /\ main \in Seq(Update) /\ sent \in Seq(Update) /\ main # <<>>
      /\ hand \in [Workers -> Update \cup {Idle}]
      /\ hand' = [hand EXCEPT ![w] = main[1]] /\ main' = Tail(main)
      /\ orderly' = (orderly /\ Bridge!InHand = {})
      /\ UNCHANGED <<temp, helpers, index, sent, dropped>>
    BY DEF TypeOK, Bridge!Take
<1>1. sent' # <<>>
    BY <1>0 DEF BridgeInv
<1>2. /\ Len(main) \in Nat \ {0} /\ Len(sent) \in Nat /\ Len(main') = Len(main) - 1
      /\ \A i \in 1..Len(main') : main'[i] = main[i + 1]
      /\ main[1] \in Update
    BY <1>0
<1>3. ASSUME orderly', dropped' = 0
      PROVE  /\ Taken' \in Nat
             /\ \A i \in 1..Len(main') : main'[i] = sent'[Taken' + i]
             /\ \A u, v \in Bridge!InHand' : u = v
             /\ \A v \in Bridge!InHand' : Taken' # 0 /\ hand'[v] = sent'[Taken']
             /\ Bridge!InHand' # {}
             /\ helpers' = {}
    <2>1. /\ Taken \in Nat /\ helpers = {} /\ Bridge!InHand = {}
          /\ \A i \in 1..Len(main) : main[i] = sent[Taken + i]
        BY <1>0, <1>3 DEF BridgeInv
    <2>2. Taken' = Taken + 1
        BY <1>0, <1>2 DEF Taken
    <2>3. ASSUME NEW i \in 1..Len(main') PROVE main'[i] = sent'[Taken' + i]
        <3>1. PICK n \in Nat, t \in Nat : n = Len(main) /\ t = Taken /\ i \in 1..(n - 1)
            BY <1>2, <2>1
        <3>2. i + 1 \in 1..n /\ t + (i + 1) = (t + 1) + i
            BY <3>1
        <3> QED BY <1>0, <1>2, <2>1, <2>2, <3>1, <3>2
    <2>4. main[1] = sent[Taken + 1]
        BY <1>2, <2>1
    <2>5. Bridge!InHand' = {w} /\ hand'[w] = main[1]
        BY <1>0, <1>2, <2>1, UpdatesAre
    <2> QED BY <1>0, <2>1, <2>2, <2>3, <2>4, <2>5
<1> QED BY <1>1, <1>3 DEF BridgeInv

LEMMA HandleUpdateKeeps ==
    ASSUME TypeOK, BridgeInv, NEW w \in Workers, Bridge!HandleUpdate(w) PROVE BridgeInv'
<1> USE DEF Bridge!InHand
<1>0. /\ hand \in [Workers -> Update \cup {Idle}] /\ w \in Bridge!InHand
      /\ index' = Bridge!Effect(hand[w])
      /\ hand' = [hand EXCEPT ![w] = Idle]
      /\ UNCHANGED <<main, temp, helpers, sent, orderly, dropped>>
    BY DEF TypeOK, Bridge!HandleUpdate
<1>1. Bridge!InHand' = Bridge!InHand \ {w}
    BY <1>0
<1>2. Taken' = Taken /\ sent # <<>>
    BY <1>0 DEF Taken, BridgeInv
<1>3. ASSUME orderly, dropped = 0
      PROVE  Bridge!InHand' = {} /\ (Taken # 0 => index' = Bridge!Effect(sent[Taken]))
    <2>1. hand[w] = sent[Taken] /\ \A v \in Bridge!InHand : v = w
        BY <1>0, <1>3 DEF BridgeInv
    <2> QED BY <1>0, <1>1, <2>1
<1> QED BY <1>0, <1>1, <1>2, <1>3 DEF BridgeInv, Bridge!Effect

LEMMA AddElsewhereKeeps ==
    ASSUME TypeOK, BridgeInv, NEW d \in Update, Bridge!AddElsewhere(d) PROVE BridgeInv'
<1> USE DEF Bridge!InHand
<1>0. /\ main \in Seq(Update) /\ sent \in Seq(Update) /\ sent' = Append(sent, d)
      /\ index' = Bridge!Effect(d)
      /\ orderly' = (orderly /\ main = <<>> /\ Bridge!InHand = {} /\ helpers = {})
      /\ UNCHANGED <<main, temp, hand, helpers, dropped>>
    BY DEF TypeOK, Bridge!AddElsewhere
<1>1. sent' # <<>> /\ Len(sent) \in Nat /\ Len(sent') = Len(sent) + 1
      /\ sent'[Len(sent) + 1] = d
    BY <1>0
<1>2. ASSUME orderly'
      PROVE  /\ main' = <<>> /\ Bridge!InHand' = {} /\ helpers' = {}
             /\ Taken' \in Nat /\ sent'[Taken'] = d
    <2>1. main' = <<>> /\ Bridge!InHand' = {} /\ helpers' = {}
        BY <1>0, <1>2
    <2>2. Taken' = Len(sent) + 1
        BY <1>1, <2>1 DEF Taken
    <2> QED BY <1>1, <2>1, <2>2
<1>3. index' = Bridge!Effect(sent[Taken])' \/ ~orderly'
    BY <1>0, <1>2 DEF Bridge!Effect
<1>4. orderly' => \A i \in 1..Len(main') : FALSE
    BY <1>2
<1> QED BY <1>1, <1>2, <1>3, <1>4 DEF BridgeInv

\* What refuses or loses an update leaves nothing to keep; who works alone has been sent one.
LEMMA LossesKeep ==
    ASSUME TypeOK, BridgeInv,
           Bridge!HandleAlone \/ Bridge!Exit \/ \E w \in Workers : Bridge!Refuse(w)
    PROVE  BridgeInv'
<1> USE DEF Bridge!InHand
<1>1. CASE Bridge!HandleAlone
    <2>1. helpers # {} /\ UNCHANGED <<main, temp, hand, sent, orderly, dropped>>
        BY <1>1 DEF Bridge!HandleAlone
    <2> QED BY <2>1 DEF BridgeInv
<1>2. CASE Bridge!Exit
    <2>1. dropped' # 0 /\ main' = <<>> /\ helpers' = {} /\ Bridge!InHand' = {}
        BY <1>2 DEF Bridge!Exit, TypeOK
    <2> QED BY <2>1 DEF BridgeInv
<1>3. ASSUME NEW w \in Workers, Bridge!Refuse(w) PROVE BridgeInv'
    <2>1. dropped' # 0 /\ w \in Bridge!InHand /\ UNCHANGED <<main, helpers, sent>>
        BY <1>3 DEF Bridge!Refuse, TypeOK
    <2> QED BY <2>1 DEF BridgeInv
<1> QED BY <1>1, <1>2, <1>3

\* What does not touch the bridge.
LEMMA BridgeFrame == ASSUME BridgeInv, UNCHANGED bridge PROVE BridgeInv'
    BY DEF bridge, BridgeInv, Taken, Bridge!InHand, Bridge!Effect

LEMMA BridgeKeeps ==
    ASSUME TypeOK, BridgeInv, [Next]_vars PROVE BridgeInv'
<1>1. CASE UNCHANGED bridge
    BY <1>1, BridgeFrame
<1>2. ASSUME NEW r \in Requests, Unpush(r) PROVE BridgeInv'
    BY <1>2, UpdatesAre, UpdateDocsKeeps DEF Unpush, Writers
<1>3. ASSUME NEW r \in Requests, PushToSearch(r) PROVE BridgeInv'
    BY <1>3, PushTyped, UpdateDocsKeeps DEF PushToSearch
<1>4. ASSUME NEW r \in Requests, Refill(r), ~UNCHANGED bridge PROVE BridgeInv'
    <2>1. copy[r] \in Writers
        BY DEF TypeOK
    <2> QED BY <1>4, <2>1, UpdatesAre, AddElsewhereKeeps DEF Refill
<1>5. ASSUME NEW w \in Workers, WorkerStep(w) \/ Refused(w) PROVE BridgeInv'
    BY <1>5, TakeKeeps, HandleUpdateKeeps, LossesKeep DEF WorkerStep, Refused
<1>6. CASE HelperStep \/ Restart
    BY <1>6, LossesKeep DEF HelperStep, Restart
<1>7. ASSUME NEW r \in Requests,
             Call(r) \/ PushPostsToSearch(r) \/ Store(r) \/ StoreFails(r) \/ StoreIgnored(r)
             \/ Tell(r) \/ Receive(r)
      PROVE  UNCHANGED bridge
    BY <1>7 DEF Call, PushPostsToSearch, Store, StoreFails, StoreIgnored, Tell, Receive
<1>8. CASE CacheStep
    BY <1>1, <1>8 DEF CacheStep
<1>9. CASE UNCHANGED vars
    BY <1>1, <1>9 DEF vars
<1> QED BY <1>1, <1>2, <1>3, <1>4, <1>5, <1>6, <1>7, <1>8, <1>9 DEF Next, RequestStep

-----------------------------------------------------------------------------
(* The cache. *)

\* What is in the log has been stored.
LEMMA BegunKeeps == ASSUME TypeOK, Begun, [Next]_vars PROVE Begun'
<1> USE DEF Goto
<1>1. CASE UNCHANGED <<stored, log>> /\ \A r \in Requests : pc[r] # "idle" => pc'[r] # "idle"
    <2>1. \A i \in 1..Len(log) : log[i] \in Requests
        BY DEF TypeOK
    <2> QED BY <1>1, <2>1 DEF Begun
<1>2. ASSUME NEW r \in Requests, Store(r) PROVE Begun'
    <2>1. /\ pc'[r] # "idle" /\ \A q \in Requests : pc[q] # "idle" => pc'[q] # "idle"
          /\ stored' \in {stored, r}
          /\ log' = log \/ log' = Append(log, r)
          /\ log \in Seq(Requests)
        BY <1>2 DEF Store, TypeOK
    <2>2. ASSUME NEW i \in 1..Len(log') PROVE pc'[log'[i]] # "idle"
        <3>1. log'[i] = r \/ (i \in 1..Len(log) /\ log'[i] = log[i])
            BY <2>1
        <3> QED BY <2>1, <3>1 DEF Begun
    <2> QED BY <2>1, <2>2 DEF Begun, TypeOK
<1>3. ASSUME NEW r \in Requests,
             \/ Call(r) \/ PushPostsToSearch(r) \/ StoreFails(r) \/ StoreIgnored(r) \/ Tell(r)
             \/ Unpush(r) \/ PushToSearch(r) \/ Refill(r)
      PROVE  UNCHANGED <<stored, log>> /\ \A q \in Requests : pc[q] # "idle" => pc'[q] # "idle"
    BY <1>3 DEF Call, PushPostsToSearch, StoreFails, StoreIgnored, Tell, Unpush, PushToSearch,
       Refill, TypeOK
<1>4. ASSUME \/ \E r \in Requests : Receive(r)
             \/ \E w \in Workers : WorkerStep(w) \/ Refused(w)
             \/ CacheStep \/ HelperStep \/ UNCHANGED vars
      PROVE  UNCHANGED <<stored, log, pc>>
    BY <1>4 DEF Receive, WorkerStep, Refused, CacheStep, HelperStep, vars, post, cache,
       Cache!Remove, Cache!HandleIndexAction, Cache!Check, Cache!StoreIndex, Cache!SetPosts,
       Cache!Expire, Cache!PreventDurationPasses, Cache!IndexPosts
<1>5. CASE Restart
    BY <1>1, <1>5 DEF Restart, TypeOK
<1> QED BY <1>1, <1>2, <1>3, <1>4, <1>5 DEF Next, RequestStep

\* The changes that a page of n changes misses.
Misses(l, n) == IF n = Empty THEN {} ELSE {l[i] : i \in n + 1 .. Len(l)}

LEMMA MissedIs == \A n : Cache!Missed(n) = Misses(log, n)
    BY DEF Cache!Missed, Misses

LEMMA NoneMissed ==
    ASSUME NEW l \in Seq(Requests) PROVE Misses(l, Empty) = {} /\ Misses(l, Len(l)) = {}
<1>1. ASSUME Len(l) # Empty PROVE {l[i] : i \in Len(l) + 1 .. Len(l)} = {}
    OBVIOUS
<1> QED BY <1>1 DEF Misses

\* A page misses what is appended, and nothing else that it did not miss.
LEMMA MissesOneMore ==
    ASSUME NEW l \in Seq(Requests), NEW r \in Requests, NEW n \in Page
    PROVE  Misses(l, n) \subseteq Requests /\ Misses(Append(l, r), n) \subseteq Misses(l, n) \cup {r}
<1>1. CASE n = Empty
    BY <1>1 DEF Misses
<1>2. CASE n # Empty
    <2>1. n \in Nat
        BY <1>2 DEF Page
    <2>2. ASSUME NEW i \in n + 1 .. Len(Append(l, r))
          PROVE  Append(l, r)[i] \in {l[j] : j \in n + 1 .. Len(l)} \cup {r}
        <3>1. CASE i \in n + 1 .. Len(l)
            <4>1. i \in 1..Len(l) /\ Append(l, r)[i] = l[i]
                BY <2>1, <3>1
            <4> QED BY <3>1, <4>1
        <3>2. CASE i = Len(l) + 1
            BY <3>2
        <3> QED BY <2>1, <3>1, <3>2
    <2>3. \A i \in n + 1 .. Len(l) : l[i] \in Requests
        BY <2>1
    <2> QED BY <1>2, <2>2, <2>3 DEF Misses
<1> QED BY <1>1, <1>2

\* Pages that stay are missing the same changes, and those appended.
LEMMA PagesMiss ==
    ASSUME TypeOK, Begun,
           log' = log \/ \E r \in Requests : log' = Append(log, r) /\ Excused(r)',
           \A r \in Requests : pc[r] # "idle" /\ Excused(r) => Excused(r)',
           NEW n \in Page, \A r \in Misses(log, n) : Excused(r)
    PROVE  \A r \in Misses(log', n) : Excused(r)'
<1>1. log \in Seq(Requests)
    BY DEF TypeOK
<1>2. \A r \in Misses(log, n) : r \in Requests /\ pc[r] # "idle"
    <2>1. CASE n = Empty
        BY <2>1 DEF Misses
    <2>2. CASE n # Empty
        <3>1. \A i \in n + 1 .. Len(log) : i \in 1..Len(log)
            BY <1>1, <2>2 DEF Page
        <3> QED BY <1>1, <2>2, <3>1 DEF Misses, Begun
    <2> QED BY <2>1, <2>2
<1>3. CASE log' = log
    BY <1>2, <1>3
<1>4. ASSUME NEW q \in Requests, log' = Append(log, q), Excused(q)'
      PROVE  \A r \in Misses(log', n) : Excused(r)'
    <2>1. Misses(log', n) \subseteq Misses(log, n) \cup {q}
        BY <1>1, <1>4, MissesOneMore
    <2> QED BY <1>2, <1>4, <2>1
<1> QED BY <1>3, <1>4

LEMMA PagesInvIs ==
    ASSUME PagesInv
    PROVE  /\ \A k \in Cache!Keys : \A r \in Misses(log, pages[k]) : Excused(r)
           /\ \A r \in Misses(log, loading) : Excused(r)
    BY DEF PagesInv, Cache!Missed, Misses

LEMMA PagesInvNext ==
    ASSUME \A k \in Cache!Keys : \A r \in Misses(log', pages'[k]) : Excused(r)',
           \A r \in Misses(log', loading') : Excused(r)',
           kind' = "simple" =>
               entries' = {} /\ \A k \in Cache!Keys \ {Anonymous} : pages'[k] = Empty,
           kind' = "big" => loading' = Empty
    PROVE  PagesInv'
    BY DEF PagesInv, Cache!Missed, Misses

\* Steps that store no page.
LEMMA PagesKept ==
    ASSUME TypeOK, Begun, PagesInv, UNCHANGED kind,
           log' = log \/ \E r \in Requests : log' = Append(log, r) /\ Excused(r)',
           \/ \A r \in Requests : pc[r] # "idle" /\ Excused(r) => Excused(r)'
           \/ loading' = Empty /\ \A k \in Cache!Keys : pages'[k] = Empty,
           \A k \in Cache!Keys : pages'[k] \in {Empty, pages[k]},
           loading' \in {Empty, loading},
           kind = "simple" => entries' \subseteq entries
    PROVE  PagesInv'
<1>1. \A r \in Misses(log', Empty) : Excused(r)'
    BY DEF Misses
<1>2. (\A k \in Cache!Keys : pages[k] \in Page) /\ loading \in Page
    BY DEF TypeOK
<1>3. CASE \A r \in Requests : pc[r] # "idle" /\ Excused(r) => Excused(r)'
    <2>1. ASSUME NEW k \in Cache!Keys PROVE \A r \in Misses(log', pages[k]) : Excused(r)'
        BY <1>2, <1>3, PagesInvIs, PagesMiss
    <2>2. \A r \in Misses(log', loading) : Excused(r)'
        BY <1>2, <1>3, PagesInvIs, PagesMiss
    <2>3. \A k \in Cache!Keys : \A r \in Misses(log', pages'[k]) : Excused(r)'
        BY <1>1, <2>1
    <2>4. \A r \in Misses(log', loading') : Excused(r)'
        BY <1>1, <2>2
    <2>5. kind' = "simple" =>
              entries' = {} /\ \A k \in Cache!Keys \ {Anonymous} : pages'[k] = Empty
        BY DEF PagesInv
    <2>6. kind' = "big" => loading' = Empty
        BY DEF PagesInv
    <2> QED BY <2>3, <2>4, <2>5, <2>6, PagesInvNext
<1>4. CASE loading' = Empty /\ \A k \in Cache!Keys : pages'[k] = Empty
    <2>1. kind' = "simple" => entries' = {}
        BY DEF PagesInv
    <2> QED BY <1>1, <1>4, <2>1, PagesInvNext
<1> QED BY <1>3, <1>4

LEMMA RequestPages ==
    ASSUME TypeOK, Begun, PagesInv, NEW r \in Requests,
           Call(r) \/ PushPostsToSearch(r) \/ RequestStep(r)
    PROVE  PagesInv'
<1> USE DEF Goto, cache
<1>1. UNCHANGED <<kind, pages, loading, entries, muted, passed>> /\ actions \subseteq actions'
    BY DEF Call, PushPostsToSearch, RequestStep, Store, StoreFails, StoreIgnored, Tell, Unpush,
       PushToSearch, Refill, Cache!SendAction
<1>2. log' = log \/ \E q \in Requests : log' = Append(log, q) /\ Excused(q)'
    <2>1. CASE Store(r)
        <3>1. log' = log \/ log' = Append(log, r)
            BY <2>1 DEF Store
        <3>2. op'[r] = "delete" \/ pc'[r] = "tell"
            BY <2>1 DEF Store, Told, TypeOK
        <3> QED BY <3>1, <3>2 DEF Excused
    <2>2. CASE ~Store(r)
        BY <2>2 DEF Call, PushPostsToSearch, RequestStep, StoreFails, StoreIgnored, Tell, Unpush,
           PushToSearch, Refill
    <2> QED BY <2>1, <2>2
<1>3. ASSUME NEW q \in Requests, pc[q] # "idle", Excused(q) PROVE Excused(q)'
    <2>1. op'[q] = op[q]
        BY <1>3 DEF Call, PushPostsToSearch, RequestStep, Store, StoreFails, StoreIgnored, Tell,
           Unpush, PushToSearch, Refill, TypeOK
    <2>2. pc[q] = "tell" => pc'[q] = "tell" \/ q \in actions'
        BY DEF Call, PushPostsToSearch, RequestStep, Store, StoreFails, StoreIgnored, Tell,
           Unpush, PushToSearch, Refill, Cache!SendAction, TypeOK
    <2> QED BY <1>1, <1>3, <2>1, <2>2 DEF Excused
<1> QED BY <1>1, <1>2, <1>3, PagesKept

LEMMA CachePages ==
    ASSUME TypeOK, Begun, PagesInv, CacheStep \/ \E r \in Requests : Receive(r)
    PROVE  PagesInv'
<1> USE DEF post, bridge
<1>0. /\ UNCHANGED <<op, pc>> /\ Anonymous \in Cache!Keys
      /\ log \in Seq(Requests) /\ pages \in [Cache!Keys -> Page] /\ loading \in Page
    BY DEF CacheStep, Receive, Cache!Keys, TypeOK
<1>1. ASSUME NEW r \in Requests, Cache!Remove(r) PROVE PagesInv'
    <2>1. \A k \in Cache!Keys : pages'[k] = Empty
        BY <1>0, <1>1 DEF Cache!Remove, PagesInv
    <2> QED BY <1>1, <2>1, PagesKept DEF Cache!Remove
<1>2. ASSUME NEW r \in Requests, Cache!HandleIndexAction(r, op[r] = "createprivate")
      PROVE  PagesInv'
    <2>1. /\ kind = "big" /\ UNCHANGED <<log, kind, loading, entries, passed>>
          /\ actions' = actions \ {r} /\ muted \subseteq muted'
          /\ \A k \in Cache!Keys : pages'[k] \in {Empty, pages[k]}
        BY <1>2 DEF Cache!HandleIndexAction, Cache!Receive
    <2>2. CASE op[r] = "createprivate" \/ recent
        <3>1. op[r] = "createprivate" \/ r \in muted'
            BY <1>2, <2>2 DEF Cache!HandleIndexAction
        <3>2. ASSUME NEW q \in Requests, Excused(q) PROVE Excused(q)'
            <4>1. q # r => (q \in actions => q \in actions')
                BY <2>1
            <4> QED BY <1>0, <2>1, <3>1, <3>2, <4>1 DEF Excused
        <3> QED BY <2>1, <3>2, PagesKept
    <2>3. CASE ~(op[r] = "createprivate" \/ recent)
        <3>1. \A k \in Cache!Keys : pages'[k] = Empty
            BY <1>2, <2>3 DEF Cache!HandleIndexAction
        <3> QED BY <2>1, <3>1, PagesKept DEF PagesInv
    <2> QED BY <2>2, <2>3
<1>3. CASE Cache!Check
    <2>1. /\ kind = "simple" /\ loading' = Len(log)
          /\ UNCHANGED <<log, kind, pages, entries, actions, recent, muted, passed>>
        BY <1>3 DEF Cache!Check
    <2>2. \A r : Excused(r)' <=> Excused(r)
        BY <1>0, <2>1 DEF Excused
    <2>3. Misses(log', loading') = {}
        BY <1>0, <2>1, NoneMissed
    <2>4. \A k \in Cache!Keys : \A r \in Misses(log', pages'[k]) : Excused(r)'
        BY <2>1, <2>2, PagesInvIs
    <2>5. entries' = {} /\ \A k \in Cache!Keys \ {Anonymous} : pages'[k] = Empty
        BY <2>1 DEF PagesInv
    <2> QED BY <2>1, <2>3, <2>4, <2>5, PagesInvNext
<1>4. CASE Cache!StoreIndex
    <2>1. /\ loading # Empty /\ loading' = Empty /\ pages' = [pages EXCEPT ![Anonymous] = loading]
          /\ UNCHANGED <<log, kind, entries, actions, recent, muted, passed>>
        BY <1>4 DEF Cache!StoreIndex
    <2>2. \A r : Excused(r)' <=> Excused(r)
        BY <1>0, <2>1 DEF Excused
    <2>3. \A k \in Cache!Keys : \A r \in Misses(log', pages'[k]) : Excused(r)'
        <3>1. \A k \in Cache!Keys : pages'[k] \in {loading, pages[k]}
            BY <1>0, <2>1
        <3> QED BY <2>1, <2>2, <3>1, PagesInvIs
    <2>4. \A r \in Misses(log', loading') : Excused(r)'
        BY <2>1 DEF Misses
    <2>5. kind' = "simple" =>
              entries' = {} /\ \A k \in Cache!Keys \ {Anonymous} : pages'[k] = Empty
        BY <1>0, <2>1 DEF PagesInv
    <2> QED BY <2>1, <2>3, <2>4, <2>5, PagesInvNext
<1>5. CASE Cache!SetPosts
    <2>1. PICK e \in entries :
              /\ pages' = [pages EXCEPT ![e[1]] = e[2]]
              /\ entries' = entries \ {e}
              /\ passed' = passed \cup (Cache!Missed(e[2]) \ actions)
              /\ UNCHANGED <<log, kind, loading, actions, recent, muted>>
        BY <1>5 DEF Cache!SetPosts
    <2>2. kind = "big" /\ loading = Empty
        BY <2>1 DEF PagesInv, TypeOK
    <2>3. \A r : Excused(r) => Excused(r)'
        BY <1>0, <2>1 DEF Excused
    <2>4. \A r \in Misses(log, e[2]) : Excused(r)'
        <3>1. \A r \in Misses(log, e[2]) : r \in passed' \/ r \in actions'
            BY <2>1, MissedIs
        <3> QED BY <2>1, <2>2, <3>1 DEF Excused
    <2>5. \A k \in Cache!Keys : \A r \in Misses(log', pages'[k]) : Excused(r)'
        <3>1. \A k \in Cache!Keys : pages'[k] \in {e[2], pages[k]}
            BY <1>0, <2>1
        <3> QED BY <2>1, <2>3, <2>4, <3>1, PagesInvIs
    <2>6. \A r \in Misses(log', loading') : Excused(r)'
        BY <2>1, <2>2 DEF Misses
    <2> QED BY <2>1, <2>2, <2>5, <2>6, PagesInvNext
<1>6. CASE Cache!Expire \/ Cache!PreventDurationPasses \/ \E k \in Cache!Keys : Cache!IndexPosts(k)
    <2>1. /\ UNCHANGED <<log, kind, loading, actions, muted, passed>>
          /\ kind = "simple" => entries' \subseteq entries
          /\ \A k \in Cache!Keys : pages'[k] \in {Empty, pages[k]}
        BY <1>0, <1>6 DEF Cache!Expire, Cache!PreventDurationPasses, Cache!IndexPosts
    <2>2. \A r : Excused(r) => Excused(r)'
        BY <1>0, <2>1 DEF Excused
    <2> QED BY <2>1, <2>2, PagesKept
<1> QED BY <1>1, <1>2, <1>3, <1>4, <1>5, <1>6 DEF CacheStep, Receive

LEMMA PagesNextKeeps ==
    ASSUME TypeOK, Begun, PagesInv, [Next]_vars PROVE PagesInv'
<1>1. ASSUME UNCHANGED <<log, cache, op, pc>> PROVE PagesInv'
    <2>1. \A r : Excused(r) => Excused(r)'
        BY <1>1 DEF cache, Excused
    <2> QED BY <1>1, <2>1, PagesKept DEF cache
<1>2. ASSUME HelperStep \/ UNCHANGED vars \/ \E w \in Workers : WorkerStep(w) \/ Refused(w)
      PROVE  UNCHANGED <<log, cache, op, pc>>
    BY <1>2 DEF HelperStep, WorkerStep, Refused, vars, post
<1>3. CASE Restart
    <2>1. /\ loading' = Empty /\ UNCHANGED <<log, kind>> /\ entries' = {}
          /\ \A k \in Cache!Keys : pages'[k] = Empty
        BY <1>3 DEF Restart
    <2> QED BY <2>1, PagesKept
<1> QED BY <1>1, <1>2, <1>3, RequestPages, CachePages DEF Next

-----------------------------------------------------------------------------
(* What is pushed. *)

\* Steps that leave the requests and what was sent alone.
LEMMA PushFrame ==
    ASSUME PushInv, UNCHANGED <<there, stored, op, pc, apart, sent>>,
           sent = <<>> => UNCHANGED index, dropped' = 0 => dropped = 0
    PROVE  PushInv'
<1>1. Latest' = Latest
    BY DEF Latest, Bridge!Effect
<1> QED BY <1>1 DEF PushInv, Pushing, Right

\* What a push leaves to be found is what it says.
LEMMA PushedIs ==
    ASSUME TypeOK, NEW d \in Update, sent' = Append(sent, d)
    PROVE  Latest' = Bridge!Effect(d)
<1>1. sent \in Seq(Update)
    BY DEF TypeOK
<1>2. sent' # <<>> /\ sent'[Len(sent')] = d
    BY <1>1
<1> QED BY <1>2 DEF Latest, Bridge!Effect

LEMMA RequestPushes ==
    ASSUME TypeOK, Begun, PushInv, NEW r \in Requests,
           Call(r) \/ PushPostsToSearch(r) \/ RequestStep(r)
    PROVE  PushInv'
<1> USE DEF Goto, cache, bridge
<1>0. SUFFICES ASSUME apart', dropped' = 0
               PROVE  /\ \A q \in Requests : pc'[q] = "store" /\ op'[q] \notin Creating => there'
                      /\ \A q \in Pushing' : stored' = q /\ (there' <=> op'[q] # "delete")
                      /\ Pushing' = {} =>
                            \/ Latest' = Right'
                            \/ stored' \in Requests /\ op'[stored'] \in {"stick", "uncomment"}
    BY DEF PushInv
<1> USE <1>0
<1>1. dropped = 0
    BY DEF Call, PushPostsToSearch, RequestStep, Store, StoreFails, StoreIgnored, Tell, Unpush,
       PushToSearch, Refill, Bridge!UpdateDocs, Bridge!AddElsewhere
<1>2. apart
    BY DEF Call, PushPostsToSearch, RequestStep, Store, StoreFails, StoreIgnored, Tell, Unpush,
       PushToSearch, Refill, TypeOK
<1>3. /\ \A q \in Requests : pc[q] = "store" /\ op[q] \notin Creating => there
      /\ \A q \in Pushing : stored = q /\ (there <=> op[q] # "delete")
      /\ Pushing = {} =>
            \/ Latest = Right
            \/ stored \in Requests /\ op[stored] \in {"stick", "uncomment"}
    BY <1>1, <1>2 DEF PushInv
<1>4. CASE Call(r) \/ PushPostsToSearch(r) \/ StoreFails(r)
    <2>1. /\ UNCHANGED <<there, stored, sent, index>>
          /\ \A q \in Requests \ {r} : pc'[q] = pc[q] /\ op'[q] = op[q]
          /\ pc[r] \in {"idle", "store"} /\ pc'[r] \in {"store", "refill", "done"}
          /\ pc[r] = "idle" \/ op'[r] = op[r]
          /\ pc'[r] = "store" => op'[r] \in Creating \/ there
        BY <1>4 DEF Call, PushPostsToSearch, StoreFails, TypeOK
    <2>2. Pushing' = Pushing
        BY <2>1 DEF Pushing
    <2>3. Latest' = Latest /\ Right' = Right
        BY <2>1 DEF Latest, Right, Bridge!Effect
    <2>4. stored \in Requests => op'[stored] = op[stored]
        BY <2>1 DEF Begun
    <2>5. \A q \in Pushing : op'[q] = op[q]
        BY <2>1 DEF Pushing
    <2> QED BY <1>3, <2>1, <2>2, <2>3, <2>4, <2>5
<1>5. CASE Store(r)
    <2>1. Underway(r) = {} /\ pc[r] = "store"
        BY <1>5 DEF Store, TypeOK
    <2>2. op[r] \in Creating \/ there
        BY <1>3, <2>1
    <2>3. /\ there' = (op[r] # "delete") /\ stored' = r /\ op' = op
          /\ pc'[r] \in {"tell", "push"} /\ \A q \in Requests \ {r} : pc'[q] = pc[q]
        BY <1>5, <2>2 DEF Store, TypeOK
    <2>4. \A q \in Requests \ {r} : pc[q] \notin {"store", "tell", "unpush", "push"}
        BY <2>1 DEF Underway
    <2>5. Pushing' = {r}
        BY <2>3, <2>4 DEF Pushing
    <2> QED BY <2>3, <2>4, <2>5
<1>6. CASE Tell(r)
    <2>1. /\ UNCHANGED <<there, stored, op, sent, index>>
          /\ \A q \in Requests \ {r} : pc'[q] = pc[q]
          /\ pc[r] = "tell" /\ pc'[r] \in {"unpush", "push", "done"}
          /\ pc'[r] = "done" => op[r] \in {"stick", "uncomment"}
        BY <1>6 DEF Tell, Pushed, TypeOK
    <2>2. Pushing' \subseteq Pushing /\ r \in Pushing
        BY <2>1 DEF Pushing
    <2>3. pc'[r] # "done" => r \in Pushing'
        BY <2>1 DEF Pushing
    <2>4. stored = r
        BY <1>3, <2>2
    <2> QED BY <1>3, <2>1, <2>2, <2>3, <2>4
<1>7. CASE Unpush(r)
    <2>1. /\ UNCHANGED <<there, stored, op>>
          /\ \A q \in Requests \ {r} : pc'[q] = pc[q]
          /\ pc[r] = "unpush" /\ pc'[r] = "push"
        BY <1>7 DEF Unpush, TypeOK
    <2>2. Pushing' = Pushing /\ r \in Pushing
        BY <2>1 DEF Pushing
    <2> QED BY <1>3, <2>1, <2>2
<1>8. CASE PushToSearch(r)
    <2>1. /\ UNCHANGED <<there, stored, op>>
          /\ \A q \in Requests \ {r} : pc'[q] = pc[q]
          /\ pc[r] = "push" /\ pc'[r] = "done"
          /\ sent' = Append(sent, Push(r))
        BY <1>8 DEF PushToSearch, Bridge!UpdateDocs, TypeOK
    <2>2. Pushing' = Pushing \ {r} /\ r \in Pushing
        BY <2>1 DEF Pushing
    <2>3. stored = r /\ (there <=> op[r] # "delete")
        BY <1>3, <2>2
    <2>4. Latest' = Right'
        <3>1. Latest' = Bridge!Effect(Push(r))
            BY <2>1, PushTyped, PushedIs
        <3> QED BY <2>1, <2>3, <3>1 DEF Right, Push, Bridge!Effect, Bridge!Adds, Bridge!Deletes
    <2> QED BY <1>3, <2>1, <2>2, <2>4
<1>9. CASE Refill(r)
    <2>1. /\ UNCHANGED <<there, stored, op>>
          /\ \A q \in Requests \ {r} : pc'[q] = pc[q]
          /\ pc[r] = "refill" /\ pc'[r] = "done"
        BY <1>9 DEF Refill, TypeOK
    <2>2. Pushing' = Pushing /\ Right' = Right
        BY <2>1 DEF Pushing, Right
    <2>3. CASE UNCHANGED bridge
        <3>1. Latest' = Latest
            BY <2>3 DEF Latest, Bridge!Effect
        <3> QED BY <1>3, <2>1, <2>2, <3>1
    <2>4. CASE Bridge!AddElsewhere(Bridge!Adds(copy[r]))
               /\ apart' = (apart /\ there /\ stored = copy[r])
        <3>1. there /\ stored = copy[r] /\ copy[r] \in Writers
            BY <2>4 DEF TypeOK
        <3>2. Latest' = Bridge!Effect(Bridge!Adds(copy[r]))
            BY <2>4, <3>1, UpdatesAre, PushedIs DEF Bridge!AddElsewhere
        <3>3. Latest' = Right'
            BY <2>2, <3>1, <3>2 DEF Right, Bridge!Effect, Bridge!Adds
        <3> QED BY <1>3, <2>1, <2>2, <3>3
    <2> QED BY <1>9, <2>3, <2>4 DEF Refill
<1>10. CASE StoreIgnored(r)
    BY <1>10 DEF StoreIgnored
<1> QED BY <1>4, <1>5, <1>6, <1>7, <1>8, <1>9, <1>10 DEF RequestStep

LEMMA PushKeeps ==
    ASSUME TypeOK, Begun, BridgeInv, PushInv, [Next]_vars PROVE PushInv'
<1>1. ASSUME UNCHANGED <<post, bridge>> PROVE PushInv'
    BY <1>1, PushFrame DEF post, bridge
<1>2. ASSUME \/ \E r \in Requests : Receive(r)
             \/ CacheStep \/ UNCHANGED vars
      PROVE  UNCHANGED <<post, bridge>>
    BY <1>2 DEF Receive, CacheStep, vars
<1>3. ASSUME HelperStep \/ \E w \in Workers : WorkerStep(w) \/ Refused(w) PROVE PushInv'
    <2>1. UNCHANGED <<there, stored, op, pc, apart, sent>> /\ (dropped' = 0 => dropped = 0)
        BY <1>3 DEF HelperStep, WorkerStep, Refused, post, TypeOK, Bridge!HandleAlone, Bridge!Take,
           Bridge!HandleUpdate, Bridge!Refuse
    <2>2. sent = <<>> => FALSE
        BY <1>3 DEF HelperStep, WorkerStep, Refused, BridgeInv, Bridge!InHand, Bridge!HandleAlone,
           Bridge!Take, Bridge!HandleUpdate, Bridge!Refuse
    <2> QED BY <2>1, <2>2, PushFrame
<1>4. CASE Restart
    <2>1. dropped' # 0
        BY <1>4 DEF Restart, Bridge!Exit, TypeOK
    <2> QED BY <2>1 DEF PushInv
<1> QED BY <1>1, <1>2, <1>3, <1>4, RequestPushes DEF Next

-----------------------------------------------------------------------------
(* The theorems. *)

LEMMA InitHolds == Init => IInv
<1> SUFFICES ASSUME Init PROVE IInv
    OBVIOUS
<1> USE DEF Init, Cache!CacheInit, Bridge!BridgeInit
<1>1. TypeOK
    <2>1. stored \in Writers /\ copy \in [Requests -> Writers] /\ index \in Writers \cup {"absent"}
        BY DEF Writers
    <2>2. pages \in [Cache!Keys -> Page] /\ loading \in Page
        BY DEF Page
    <2>3. op \in [Requests -> Changes \cup {"none", "refill"}]
        OBVIOUS
    <2>4. log \in Seq(Requests)
        OBVIOUS
    <2>5. main \in Seq(Update) /\ temp \in Seq(Update) /\ sent \in Seq(Update)
        OBVIOUS
    <2>6. hand \in [Workers -> Update \cup {Idle}] /\ helpers \subseteq Update
        OBVIOUS
    <2>7. pc \in [Requests -> {"idle", "store", "tell", "unpush", "push", "refill", "done"}]
        OBVIOUS
    <2>8. /\ there \in BOOLEAN /\ apart \in BOOLEAN /\ orderly \in BOOLEAN /\ recent \in BOOLEAN
          /\ kind \in {"simple", "big"} /\ dropped \in Nat
          /\ entries = {} /\ actions = {}
        OBVIOUS
    <2> QED BY <2>1, <2>2, <2>3, <2>4, <2>5, <2>6, <2>7, <2>8 DEF TypeOK
<1>2. Begun
    BY FeedAssumption DEF Begun
<1>3. PagesInv
    BY DEF PagesInv, Cache!Missed
<1>4. BridgeInv
    BY DEF BridgeInv, Bridge!InHand, Taken
<1>5. PushInv
    BY DEF PushInv, Pushing, Latest, Right
<1> QED BY <1>1, <1>2, <1>3, <1>4, <1>5 DEF IInv

LEMMA NextKeeps == IInv /\ [Next]_vars => IInv'
<1> SUFFICES ASSUME IInv, [Next]_vars PROVE IInv'
    OBVIOUS
<1>1. TypeOK'
    <2>1. CASE UNCHANGED vars
        BY <2>1 DEF vars, post, cache, bridge, IInv, TypeOK
    <2> QED BY <2>1, RequestTyped, CacheTyped, WorkersTyped DEF IInv, Next
<1> QED BY <1>1, BegunKeeps, PagesNextKeeps, BridgeKeeps, PushKeeps DEF IInv

\* Pages miss only what PageExplained says, the channel holds what was sent last, and what
\* was sent last is the post as it is.
THEOREM Invariant == Spec => []IInv
    BY InitHolds, NextKeeps, PTL DEF Spec

\* Posts, pages, updates and labels stay what they are typed to be.
THEOREM TypeCorrect == Spec => []TypeOK
<1>1. IInv => TypeOK
    BY DEF IInv
<1> QED BY <1>1, Invariant, PTL

\* What a reader of the index of posts is shown misses only changes that are on their way,
\* deletions, and, with BigCacheIndex, what its pages of others and its resets leave.
THEOREM PagesAreExplained == Spec => []PageExplained
<1>1. ASSUME IInv PROVE PageExplained
    <2>1. ASSUME NEW k \in Cache!Keys, NEW r \in Cache!Missed(Cache!Shown(k)) PROVE Excused(r)
        <3>1. CASE pages[k] # Empty
            BY <1>1, <3>1, <2>1 DEF IInv, PagesInv, Cache!Shown
        <3>2. CASE pages[k] = Empty
            <4>1. Cache!Missed(Cache!Shown(k)) = Misses(log, Len(log))
                BY <3>2, MissedIs DEF Cache!Shown
            <4> QED BY <1>1, <2>1, <4>1, NoneMissed DEF IInv, TypeOK
        <3> QED BY <3>1, <3>2
    <2> QED BY <2>1 DEF PageExplained, Excused
<1> QED BY <1>1, Invariant, PTL

\* Once the workers have nothing left, the index holds what was sent last.
LEMMA SettledIs ==
    ASSUME IInv, Bridge!Settled, orderly, dropped = 0, sent # <<>>
    PROVE  index = Bridge!Effect(sent[Len(sent)])
<1>1. sent \in Seq(Update)
    BY DEF IInv, TypeOK
<1>2. Len(sent) \in Nat \ {0} /\ Len(main) = 0
    BY <1>1 DEF Bridge!Settled
<1>3. Taken = Len(sent) /\ Taken # 0
    BY <1>2 DEF Taken
<1> QED BY <1>3 DEF IInv, BridgeInv, Bridge!Settled

\* The bridge with one update in anyone's hands at a time, through the channel alone, makes
\* the index what was sent last.
THEOREM IndexIsSettled == Spec => []IndexSettled
<1>1. IInv => IndexSettled
    BY SettledIs DEF IndexSettled
<1> QED BY <1>1, Invariant, PTL

\* Search shows the post as it is when no request stored it during another, and the bridge
\* kept the order; but for a pin, a repost or the deletion of a comment that was last.
THEOREM SearchIsRight == Spec => []SearchShowsPost
<1>1. ASSUME IInv, Bridge!Settled, orderly, dropped = 0, apart,
             \A r \in Requests : pc[r] \in {"idle", "done"}
      PROVE  \/ index = (IF there THEN stored ELSE "absent")
             \/ stored \in Requests /\ op[stored] \in {"stick", "uncomment"}
    <2>1. Pushing = {}
        BY <1>1 DEF Pushing
    <2>2. Latest = Right \/ (stored \in Requests /\ op[stored] \in {"stick", "uncomment"})
        BY <1>1, <2>1 DEF IInv, PushInv
    <2>3. Latest = index
        BY <1>1, SettledIs DEF Latest
    <2> QED BY <2>2, <2>3 DEF Right
<1>2. IInv => SearchShowsPost
    BY <1>1 DEF SearchShowsPost
<1> QED BY <1>2, Invariant, PTL
=============================================================================
