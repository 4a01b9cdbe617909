------------------------------ MODULE PostFeed ------------------------------
(***************************************************************************)
(* What becomes of a change of a post: it is stored, told to the cache of  *)
(* the index of posts, and pushed to the search engine                     *)
(* (internal/service/post.go, comment.go, tasks.go, user.go,               *)
(* internal/dao/monogo/tweets.go).                                         *)
(*                                                                         *)
(* The three are not made together: other requests, the goroutine of the   *)
(* cache and the workers of the bridge come in between, and what is pushed *)
(* is the request's own copy of the post.  Not every change is told to     *)
(* everybody.  PageCache and SearchBridge say what the two do.             *)
(***************************************************************************)
EXTENDS Integers, Sequences, FiniteSets

CONSTANTS
    Requests,   \* calls of the API, a run of the task that unpins, a cancellation
    Author,     \* the post's author
    Anonymous, Empty, MaxEntries,       \* of PageCache
    Workers, MainSize, TempSize, Idle,  \* of SearchBridge
    MaxTrouble  \* bound: updates that the search engine refuses, and restarts

ASSUME FeedAssumption ==
    /\ Author # Anonymous
    /\ Empty \notin Nat
    /\ MaxEntries \in Nat
    /\ MainSize \in Nat \ {0}
    /\ TempSize \in Nat \ {0}
    /\ MaxTrouble \in Nat
    /\ "old" \notin Requests
    /\ \A r \in Requests \cup {"old"}, b \in BOOLEAN : Idle # [by |-> r, add |-> b]

VARIABLES
    there,  \* the post is in the database and not deleted
    stored, \* the request that wrote it last
    op,     \* what each request does
    pc,     \* where it is
    copy,   \* what wrote the post that a refill of the index has read
    apart,  \* FALSE after a request stored something while another was between its
            \* reading of the post and its push
    log, kind, pages, loading, entries, actions, recent, muted, passed,
    main, temp, hand, helpers, index, sent, orderly, dropped

Viewers == {Author}

Cache == INSTANCE PageCache
Bridge == INSTANCE SearchBridge

post   == <<there, stored, op, pc, copy, apart>>
cache  == <<kind, pages, loading, entries, actions, recent, muted, passed>>
bridge == <<main, temp, hand, helpers, index, sent, orderly, dropped>>
vars   == <<post, log, cache, bridge>>

-----------------------------------------------------------------------------
(* The changes there are. *)

\* A new post, public or private; what is pushed with its change (visibility, stars,
\* views, collections, comments and replies made, replies deleted); what is not (a pin
\* by hand and the repost that counts on it, and the deletion of a comment); the task
\* that unpins; and the deletion, by its author or with the account.
Changes == {"create", "createprivate", "update", "stick", "uncomment", "unpin", "delete"}
Creating == {"create", "createprivate"}

\* The changes that are told to the cache: SendAction is commented out in DeletePost,
\* and the cancellation has none.
Told(o) == o # "delete"

\* The changes that are pushed to the search engine: StickPost and CreatePost push nothing
\* of the post they change, and DeletePostComment has no push, as the other three that
\* count comments have.
Pushed(o) == o \notin {"stick", "uncomment"}

Init ==
    /\ there \in BOOLEAN
    /\ stored = "old"
    /\ op = [r \in Requests |-> "none"]
    /\ pc = [r \in Requests |-> "idle"]
    /\ copy = [r \in Requests |-> "old"]
    /\ apart = TRUE
    /\ log = <<>>
    /\ Cache!CacheInit
    /\ Bridge!BridgeInit
    /\ index = IF there THEN "old" ELSE "absent"

Goto(r, label) == pc' = [pc EXCEPT ![r] = label]

-----------------------------------------------------------------------------
(* The steps of a request. *)

\* The first post is made by the first to make one.  Everything else begins with
\* reading the post; the cancellation finds it whether or not it is deleted.
Call(r) ==
    /\ pc[r] = "idle"
    /\ \E o \in Changes :
          /\ IF o \in Creating THEN stored = "old" /\ ~there ELSE there
          /\ o \in Creating => \A q \in Requests : op[q] \notin Creating
          /\ op' = [op EXCEPT ![r] = o]
    /\ Goto(r, "store")
    /\ UNCHANGED <<there, stored, copy, apart, log, cache, bridge>>

\* Requests whose copy of the post is under way.
Underway(r) == {q \in Requests \ {r} : pc[q] \in {"store", "tell", "unpush", "push"}}

\* Post.Update changes a post that is not deleted, and says nothing when there is none.
Store(r) ==
    /\ pc[r] = "store"
    /\ IF op[r] \in Creating \/ there
       THEN /\ there' = (op[r] # "delete")
            /\ stored' = r
            /\ log' = Append(log, r)
       ELSE UNCHANGED <<there, stored, log>>
    /\ apart' = (apart /\ Underway(r) = {})
    /\ Goto(r, IF Told(op[r]) THEN "tell" ELSE "push")
    /\ UNCHANGED <<op, copy, cache, bridge>>

\* The transaction or the write fails; a repost also when the post is gone.
StoreFails(r) ==
    /\ pc[r] = "store"
    /\ Goto(r, "done")
    /\ UNCHANGED <<there, stored, op, copy, apart, log, cache, bridge>>

\* The counters are pushed also when their write failed.
StoreIgnored(r) ==
    /\ pc[r] = "store"
    /\ op[r] = "update"
    /\ apart' = FALSE
    /\ Goto(r, "push")
    /\ UNCHANGED <<there, stored, op, copy, log, cache, bridge>>

Tell(r) ==
    /\ pc[r] = "tell"
    /\ Cache!SendAction(r)
    /\ Goto(r, IF Pushed(op[r]) THEN IF op[r] = "unpin" THEN "unpush" ELSE "push" ELSE "done")
    /\ UNCHANGED <<there, stored, op, copy, apart, log, kind, pages, loading, entries, recent,
                   muted, passed, bridge>>

\* The task that unpins deletes the document before it pushes the post.
Unpush(r) ==
    /\ pc[r] = "unpush"
    /\ Bridge!UpdateDocs(Bridge!Deletes(r))
    /\ Goto(r, "push")
    /\ UNCHANGED <<there, stored, op, copy, apart, log, cache>>

\* MUTANT: a deletion pushes the post.
PushPost(r) == Bridge!Adds(r)

\* PushPostToSearch or DeleteSearchPost.
Push(r) == IF op[r] = "delete" THEN Bridge!Deletes(r) ELSE Bridge!Adds(r)

PushToSearch(r) ==
    /\ pc[r] = "push"
    /\ Bridge!UpdateDocs(Push(r))
    /\ Goto(r, "done")
    /\ UNCHANGED <<there, stored, op, copy, apart, log, cache>>

\* The -push-search run reads all posts that are there and sends them through a
\* bridge of its own.  It returns at once: what has not been added by then is lost.
PushPostsToSearch(r) ==
    /\ pc[r] = "idle"
    /\ there
    /\ op' = [op EXCEPT ![r] = "refill"]
    /\ copy' = [copy EXCEPT ![r] = stored]
    /\ Goto(r, "refill")
    /\ UNCHANGED <<there, stored, apart, log, cache, bridge>>

Refill(r) ==
    /\ pc[r] = "refill"
    /\ Goto(r, "done")
    /\ \/ /\ Bridge!AddElsewhere(Bridge!Adds(copy[r]))
          /\ apart' = (apart /\ there /\ stored = copy[r])
       \/ UNCHANGED <<apart, bridge>>
    /\ UNCHANGED <<there, stored, op, copy, log, cache>>

RequestStep(r) ==
    \/ Store(r) \/ StoreFails(r) \/ StoreIgnored(r) \/ Tell(r)
    \/ Unpush(r) \/ PushToSearch(r) \/ Refill(r)

\* The goroutine of the cache.
Receive(r) ==
    /\ UNCHANGED <<post, bridge>>
    /\ \/ Cache!Remove(r)
       \/ Cache!HandleIndexAction(r, op[r] = "createprivate")

CacheStep ==
    /\ UNCHANGED <<post, bridge>>
    /\ \/ Cache!Check \/ Cache!StoreIndex \/ Cache!SetPosts
       \/ Cache!Expire \/ Cache!PreventDurationPasses
       \/ \E k \in Cache!Keys : Cache!IndexPosts(k)

\* The workers of the bridge.
WorkerStep(w) ==
    /\ UNCHANGED <<post, log, cache>>
    /\ Bridge!Take(w) \/ Bridge!HandleUpdate(w)

Refused(w) ==
    /\ dropped < MaxTrouble
    /\ Bridge!Refuse(w)
    /\ UNCHANGED <<post, log, cache>>

HelperStep ==
    /\ Bridge!HandleAlone
    /\ UNCHANGED <<post, log, cache>>

\* The server is restarted: what is not in the database is gone.
Restart ==
    /\ dropped < MaxTrouble
    /\ Bridge!Exit
    /\ pc' = [r \in Requests |-> IF pc[r] = "idle" THEN "idle" ELSE "done"]
    /\ pages' = [k \in Cache!Keys |-> Empty]
    /\ loading' = Empty
    /\ entries' = {} /\ actions' = {}
    /\ recent' = FALSE
    /\ UNCHANGED <<there, stored, op, copy, apart, log, kind, muted, passed>>

Next ==
    \/ \E r \in Requests : Call(r) \/ PushPostsToSearch(r) \/ RequestStep(r) \/ Receive(r)
    \/ \E w \in Workers : WorkerStep(w) \/ Refused(w)
    \/ CacheStep \/ HelperStep \/ Restart

Spec == Init /\ [][Next]_vars

-----------------------------------------------------------------------------
(* Properties. *)

\* What a reader is shown misses a change only while word of it is on the way, or if it was a
\* deletion, of which there is no word.  BigCacheIndex also keeps pages that a private
\* post does not show on, those that were fetched before a change and stored after
\* word of it, and, soon after a reset, any page at all.
PageExplained ==
    \A k \in Cache!Keys : \A r \in Cache!Missed(Cache!Shown(k)) :
        \/ pc[r] = "tell" \/ r \in actions
        \/ op[r] = "delete"
        \/ kind = "big" /\ (op[r] = "createprivate" \/ r \in muted \cup passed)

\* When the workers have nothing left, the index holds what was sent last, if no
\* two updates were in anyone's hands at once, none overflowed and none was refused.
IndexSettled ==
    Bridge!Settled /\ orderly /\ dropped = 0 /\ sent # <<>> =>
        index = Bridge!Effect(sent[Len(sent)])

\* Then search shows the post as it is, and not when it is deleted, provided that no
\* request stored the post while another was between its reading and its push; all
\* but what a pin, a repost or the deletion of a comment changed last.
SearchShowsPost ==
    /\ Bridge!Settled /\ orderly /\ dropped = 0
    /\ apart /\ \A r \in Requests : pc[r] \in {"idle", "done"}
    => \/ index = (IF there THEN stored ELSE "absent")
       \/ stored \in Requests /\ op[stored] \in {"stick", "uncomment"}

-----------------------------------------------------------------------------
(* The invariant that the proofs use. *)

Writers == Requests \cup {"old"}
Update == [by : Writers, add : BOOLEAN]
Page == Nat \cup {Empty}

TypeOK ==
    /\ there \in BOOLEAN /\ apart \in BOOLEAN /\ orderly \in BOOLEAN /\ recent \in BOOLEAN
    /\ stored \in Writers
    /\ op \in [Requests -> Changes \cup {"none", "refill"}]
    /\ pc \in [Requests -> {"idle", "store", "tell", "unpush", "push", "refill", "done"}]
    /\ copy \in [Requests -> Writers]
    /\ log \in Seq(Requests)
    /\ kind \in {"simple", "big"}
    /\ pages \in [Cache!Keys -> Page] /\ loading \in Page
    /\ entries \subseteq Cache!Keys \X Nat
    /\ actions \subseteq Requests
    /\ main \in Seq(Update) /\ temp \in Seq(Update) /\ sent \in Seq(Update)
    /\ hand \in [Workers -> Update \cup {Idle}]
    /\ helpers \subseteq Update
    /\ index \in Writers \cup {"absent"}
    /\ dropped \in Nat

\* Who has stored something has begun; a call that is under way knows what it does.
Begun ==
    /\ stored \in Requests => pc[stored] # "idle"
    /\ \A i \in 1..Len(log) : pc[log[i]] # "idle"

\* A page that is kept, or about to be, misses what PageExplained says; each service
\* keeps what is its own.
Excused(r) ==
    \/ pc[r] = "tell" \/ r \in actions
    \/ op[r] = "delete"
    \/ kind = "big" /\ (op[r] = "createprivate" \/ r \in muted \cup passed)

PagesInv ==
    /\ \A k \in Cache!Keys : \A r \in Cache!Missed(pages[k]) : Excused(r)
    /\ \A r \in Cache!Missed(loading) : Excused(r)
    /\ kind = "simple" =>
          entries = {} /\ \A k \in Cache!Keys \ {Anonymous} : pages[k] = Empty
    /\ kind = "big" => loading = Empty

\* How many updates have left the channel.
Taken == Len(sent) - Len(main)

\* As long as one update is in anyone's hands at a time the channel holds the last ones
\* sent, a worker the one before them, and the index what that one says once it is done.
BridgeInv ==
    /\ sent = <<>> => main = <<>> /\ Bridge!InHand = {} /\ helpers = {}
    /\ orderly /\ dropped = 0 =>
          /\ Taken \in Nat
          /\ \A i \in 1..Len(main) : main[i] = sent[Taken + i]
          /\ \A v, w \in Bridge!InHand : v = w
          /\ \A w \in Bridge!InHand : Taken # 0 /\ hand[w] = sent[Taken]
          /\ Bridge!InHand = {} /\ Taken # 0 => index = Bridge!Effect(sent[Taken])
          /\ helpers = {}

\* What the index is to hold: what the last update says, and the post as it is.
Latest == IF sent = <<>> THEN index ELSE Bridge!Effect(sent[Len(sent)])
Right == IF there THEN stored ELSE "absent"

\* As long as no request stored something during another, who has stored and not yet
\* pushed is the last to have stored, and when nobody is, what was sent last is right.
Pushing == {r \in Requests : pc[r] \in {"tell", "unpush", "push"}}
PushInv ==
    apart /\ dropped = 0 =>
        /\ \A r \in Requests : pc[r] = "store" /\ op[r] \notin Creating => there
        /\ \A r \in Pushing : stored = r /\ (there <=> op[r] # "delete")
        /\ Pushing = {} =>
              \/ Latest = Right
              \/ stored \in Requests /\ op[stored] \in {"stick", "uncomment"}

IInv == TypeOK /\ Begun /\ PagesInv /\ BridgeInv /\ PushInv
=============================================================================
