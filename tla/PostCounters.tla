---------------------------- MODULE PostCounters ----------------------------
(***************************************************************************)
(* One post and everything that counts on it: stars, views, comments,      *)
(* replies and reposts, beside pinning, visibility and deletion            *)
(* (internal/service/post.go, comment.go, tasks.go,                        *)
(* internal/dao/monogo/tweets.go, internal/model/post.go).                 *)
(*                                                                         *)
(* Every operation reads the post, changes a field of its copy and writes  *)
(* the whole copy back.  Only a repost reads and writes in a transaction   *)
(* (VisiblePost opens one for the write alone, of a copy read before); the *)
(* others have nothing around the two, nor around the star, comment or     *)
(* reply they make or remove.  Each of Requests is one call of the API (or *)
(* one run of the PostUnpin task), and what it inserts bears its name.     *)
(*                                                                         *)
(* A retweet may be made of the post or of one of its retweets.  It refers *)
(* to the post either way, but the document it counts on, and conflicts    *)
(* about, is the one that it was made of.                                  *)
(***************************************************************************)
EXTENDS Integers, FiniteSets

CONSTANTS
    Requests,        \* calls of the API
    Users,           \* addresses
    Owner,           \* Owner[r] is the caller of r
    Ops,             \* the operations that are called
    None,            \* no star, comment, reply or repost
    MaxCommentCount, \* conf.AppSetting.MaxCommentCount
    MaxTrouble       \* bound: requests that fail half-way

Reposting == {"retweet", "quote"}
OnPost == {"view", "comment", "stick", "unpin", "visible", "delete"} \cup Reposting
Operations == OnPost \cup {"star", "reply", "delcomment", "delreply", "unrepost"}

ASSUME PostAssumption ==
    /\ IsFiniteSet(Requests)
    /\ Owner \in [Requests -> Users]
    /\ Ops \subseteq Operations
    /\ None \notin Requests
    /\ MaxCommentCount \in Nat
    /\ MaxTrouble \in Nat

VARIABLES
    post,     \* the post's document
    stars,    \* the documents of post_star
    comments, \* the comments that are not deleted
    replies,  \* the replies that are not deleted
    reposts,  \* the posts that refer to this one and are not deleted
    made,     \* all that ever did
    op,       \* what each request does
    pc,       \* where it is
    copy,     \* the post it has read
    seen,     \* the reposts it has read
    doc,      \* the star, comment, reply or repost it is about
    fresh,    \* the requests that have read the last version of their document
    lost,     \* fields that a write put back to what its copy held
    uneven,   \* requests that counted down something else than they removed
    late,     \* retweets made while a deletion knew which retweets it takes along,
              \* and retweets of those
    faults    \* requests that failed half-way

documents == <<stars, comments, replies, reposts, made>>
request   == <<op, pc, copy, seen, doc>>
history   == <<fresh, lost, uneven, late, faults>>
vars      == <<post, documents, request, history>>

-----------------------------------------------------------------------------
Visibility == {"draft", "public", "private"}

\* The fields that change.
Post == [upvote : Int, comment : Int, view : Int, ref : Int, top : {0, 1},
         visibility : Visibility, del : {0, 1}]

\* CreatePost: an author of AlwaysTopAddresses gets a pinned post.
NewPost(visibility, alwaysTop) ==
    [upvote |-> 0, comment |-> 0, view |-> 0, ref |-> 0, top |-> alwaysTop,
     visibility |-> visibility, del |-> 0]

Init ==
    /\ post \in {NewPost(v, top) : v \in Visibility, top \in {0, 1}}
    /\ stars = {} /\ comments = {} /\ replies = {} /\ reposts = {} /\ made = {}
    /\ op = [r \in Requests |-> "none"]
    /\ pc = [r \in Requests |-> "idle"]
    /\ copy = [r \in Requests |-> post]
    /\ seen = [r \in Requests |-> {}]
    /\ doc = [r \in Requests |-> None]
    /\ fresh = {} /\ lost = {} /\ uneven = {} /\ late = {} /\ faults = 0

Goto(r, label) == pc' = [pc EXCEPT ![r] = label]

-----------------------------------------------------------------------------
(* The calls, up to the first access to the post. *)

Call(r, o, d, label) ==
    /\ pc[r] = "idle"
    /\ op' = [op EXCEPT ![r] = o]
    /\ doc' = [doc EXCEPT ![r] = d]
    /\ Goto(r, label)
    /\ UNCHANGED <<post, documents, copy, seen, history>>

\* The handler looks for a star of the caller: one is made, or the one that is
\* there is taken back.
CallStar(r) ==
    /\ "star" \in Ops
    /\ LET mine == {s \in stars : Owner[s] = Owner[r]}
       IN  \/ mine = {} /\ Call(r, "star", None, "read")
           \/ \E s \in mine : Call(r, "unstar", s, "remove")

\* A reply, and the deletion of a comment, begin with the comment.  One deletes
\* only one's own.
CallOnComment(r) ==
    \E c \in comments :
        \/ "reply" \in Ops /\ Call(r, "reply", c, "read")
        \/ "delcomment" \in Ops /\ Owner[c] = Owner[r] /\ Call(r, "delcomment", c, "read")

CallDeleteReply(r) ==
    /\ "delreply" \in Ops
    /\ \E p \in replies : Owner[p] = Owner[r] /\ Call(r, "delreply", p, "remove")

\* The deletion of a repost is the deletion of another post than this one.
CallDeleteRepost(r) ==
    /\ "unrepost" \in Ops
    /\ \E q \in reposts : Owner[q] = Owner[r] /\ Call(r, "unrepost", q, "remove")

\* A retweet of a retweet.
CallRetweet(r) ==
    /\ "retweet" \in Ops
    /\ \E q \in reposts : op[q] = "retweet" /\ Call(r, "retweet", q, "read")

CallOnPost(r) == \E o \in Ops \cap OnPost : Call(r, o, None, "read")

-----------------------------------------------------------------------------
(* What the counters should count. *)

\* The stars that are in UpvoteCount: those of requests that have counted up, until
\* a request that took one back has counted down.
Unstarring == {r \in Requests : op[r] = "unstar" /\ pc[r] \in {"read", "write"}}
Upvoters == {s \in stars \cup {doc[r] : r \in Unstarring} : pc[s] # "write"}

\* The comments and replies that are in CommentCount; a comment is counted down
\* before it is deleted, a reply after.
Uncommenting == {r \in Requests : op[r] = "delcomment" /\ pc[r] = "remove"}
Unreplying == {r \in Requests : op[r] = "delreply" /\ pc[r] \in {"read", "write"}}
Spoken ==
    {d \in (comments \ {doc[r] : r \in Uncommenting})
           \cup replies \cup {doc[r] : r \in Unreplying} : pc[d] # "write"}

-----------------------------------------------------------------------------
(* The steps of a request. *)

\* What follows on the post that was read.
AfterRead(o) ==
    CASE o \in {"star", "comment", "reply"} -> "insert"
      [] o \in Reposting -> "refer"
      [] o = "delete" -> "gather"
      [] OTHER -> "write"

\* The document a request reads and writes: a retweet's, or None, the post's.
Target(r) == IF op[r] = "retweet" THEN doc[r] ELSE None

\* The requests that still have the last version when the documents W are written.
Unwritten(W) == {q \in fresh : Target(q) \notin W}

\* The cap of comments; and the unpin task leaves a post alone that is not pinned.
Refused(o) ==
    \/ o \in {"comment", "reply"} /\ post.comment >= MaxCommentCount
    \/ o = "unpin" /\ post.top = 0

\* The comment a reply answers.
CommentOf(r) == IF op[r] = "delreply" THEN doc[doc[r]] ELSE doc[r]
Answered(r) == op[r] \in {"reply", "delreply"} => CommentOf(r) \in comments

\* What a request reads is not deleted.
Found(r) == IF Target(r) = None THEN post.del = 0 /\ Answered(r) ELSE Target(r) \in reposts

\* GetPostByID and, before it, GetCommentByID.  Only the deletion of a comment goes
\* on when it finds no post; VisiblePost writes nothing when the post has the
\* visibility asked for.  A repost opens its transaction here: it sees the reposts of
\* this moment.
Read(r) ==
    /\ pc[r] = "read"
    /\ \/ /\ Found(r)
          /\ \/ ~Refused(op[r]) /\ Goto(r, AfterRead(op[r]))
             \/ Refused(op[r]) /\ Goto(r, "done")
             \/ op[r] = "visible" /\ Goto(r, "done")
          /\ copy' = [copy EXCEPT ![r] = IF Target(r) = None THEN post ELSE @]
          /\ seen' = [seen EXCEPT ![r] = reposts]
          /\ fresh' = fresh \cup {r}
          /\ UNCHANGED uneven
       \/ /\ ~Found(r)
          /\ Goto(r, IF op[r] = "delcomment" THEN "remove" ELSE "done")
          /\ uneven' = IF op[r] = "delreply" THEN uneven \cup {r} ELSE uneven
          /\ UNCHANGED <<copy, seen, fresh>>
    /\ UNCHANGED <<post, documents, op, doc, lost, late, faults>>

\* The star, the comment (with its contents) or the reply.
Insert(r) ==
    /\ pc[r] = "insert"
    /\ stars' = IF op[r] = "star" THEN stars \cup {r} ELSE stars
    /\ comments' = IF op[r] = "comment" THEN comments \cup {r} ELSE comments
    /\ replies' = IF op[r] = "reply" THEN replies \cup {r} ELSE replies
    /\ Goto(r, "write")
    /\ UNCHANGED <<post, reposts, made, op, copy, seen, doc, history>>

\* Deleting a star that is gone is no error, nor is deleting a comment again;
\* deleting a reply again is.
GoesOn(r) == op[r] = "unstar" \/ (op[r] = "delreply" /\ doc[r] \in replies)

\* The deletion of a star, a comment, a reply or a repost.
Remove(r) ==
    /\ pc[r] = "remove"
    /\ stars' = IF op[r] = "unstar" THEN stars \ {doc[r]} ELSE stars
    /\ comments' = IF op[r] = "delcomment" THEN comments \ {doc[r]} ELSE comments
    /\ replies' = IF op[r] = "delreply" THEN replies \ {doc[r]} ELSE replies
    /\ reposts' = IF op[r] = "unrepost" THEN reposts \ {doc[r]} ELSE reposts
    /\ uneven' = IF op[r] = "unstar" /\ doc[r] \notin stars THEN uneven \cup {r} ELSE uneven
    /\ Goto(r, IF GoesOn(r) THEN "read" ELSE "done")
    /\ fresh' = Unwritten({doc[r]})
    /\ UNCHANGED <<post, made, op, copy, seen, doc, lost, late, faults>>

\* MUTANT: what is taken back is still counted.
CountedOn(n) == n

\* What is taken back is counted down.
CountedDown(n) == n - 1

\* StickPost.
Toggled(top) == 1 - top

\* VisiblePost unpins what becomes private.
Shown(p, v) == [p EXCEPT !.visibility = v, !.top = IF v = "private" THEN 0 ELSE @]

\* The copy as the operation changes it.
Changed(p, o) ==
    CASE o = "star" -> {[p EXCEPT !.upvote = @ + 1]}
      [] o = "unstar" -> {[p EXCEPT !.upvote = CountedDown(@)]}
      [] o \in {"comment", "reply"} -> {[p EXCEPT !.comment = @ + 1]}
      [] o \in {"delcomment", "delreply"} -> {[p EXCEPT !.comment = CountedDown(@)]}
      [] o = "view" -> {[p EXCEPT !.view = @ + 1]}
      [] o \in {"stick", "unpin"} -> {[p EXCEPT !.top = Toggled(@)]}
      [] o \in Reposting -> {[p EXCEPT !.ref = @ + 1]}
      [] o = "visible" -> {Shown(p, v) : v \in Visibility \ {p.visibility}}
      [] OTHER -> {p}

\* Post.Update: $set of the whole copy, where is_del is 0.
Stored(p) == IF post.del = 1 THEN post ELSE p

\* UpdatePost, StickPost and VisiblePost; the driver repeats the transaction of the
\* latter, which holds this write alone, until it meets no conflict.  A write that
\* changes nothing makes no new version.
Write(r) ==
    /\ pc[r] = "write"
    /\ \E p \in Changed(copy[r], op[r]) : post' = Stored(p)
    /\ fresh' = IF post' = post THEN fresh ELSE Unwritten({None})
    /\ lost' = lost \cup {f \in DOMAIN post : copy[r][f] # post[f]}
    /\ uneven' = IF \/ op[r] = "unstar" /\ doc[r] \notin Upvoters
                    \/ op[r] \in {"delcomment", "delreply"} /\ doc[r] \notin Spoken
                 THEN uneven \cup {r} ELSE uneven
    /\ Goto(r, IF op[r] = "delcomment" THEN "remove" ELSE "done")
    /\ UNCHANGED <<documents, op, copy, seen, doc, late, faults>>

\* MUTANT: no write conflict.
CommitsBlindly(r) == post.del = 0

\* First updater wins: a transaction whose snapshot of the document it counts on is
\* stale conflicts, and util.MongoTransaction does not try again.
Commits(r) == r \in fresh

\* MUTANT: the transaction does not look for an earlier repost.
RetweetedNever(r) == FALSE

\* "check user has retweeted this post": any live repost of the caller's that refers
\* to the post, as the new one will whatever retweet it is made of.
Retweeted(r) == op[r] = "retweet" /\ \E q \in seen[r] : Owner[q] = Owner[r]

\* CreatePost with a RefId: the counter of the post or retweet that is reposted, and
\* the new post, in a transaction.  Others write a retweet's document who are not
\* here: any transaction about one may conflict.
Refer(r) ==
    /\ pc[r] = "refer"
    /\ Goto(r, "done")
    /\ \/ /\ Commits(r) /\ ~Retweeted(r)
          /\ post' \in IF Target(r) = None THEN Changed(copy[r], op[r]) ELSE {post}
          /\ reposts' = reposts \cup {r}
          /\ made' = made \cup {r}
          /\ fresh' = Unwritten({Target(r)})
          /\ late' = IF /\ op[r] = "retweet"
                        /\ Target(r) \in late \/ \E d \in Requests : pc[d] = "mark"
                     THEN late \cup {r} ELSE late
       \/ /\ ~Commits(r) \/ Retweeted(r) \/ Target(r) # None
          /\ UNCHANGED <<post, reposts, made, fresh, late>>
    /\ UNCHANGED <<stars, comments, replies, op, copy, seen, doc, lost, uneven, faults>>

\* findAllRefPosts: posts that refer to this one.
Gather(r) ==
    /\ pc[r] = "gather"
    /\ seen' = [seen EXCEPT ![r] = reposts]
    /\ Goto(r, "mark")
    /\ UNCHANGED <<post, documents, op, copy, doc, history>>

\* MUTANT: only the post itself is deleted.
MarkedAlone(r) == {}

\* Post.Delete marks the posts it has found that have no contents.
Marked(r) == {q \in seen[r] : op[q] = "retweet"}

Mark(r) ==
    /\ pc[r] = "mark"
    /\ Goto(r, "done")
    /\ post' = [post EXCEPT !.del = 1]
    /\ reposts' = reposts \ Marked(r)
    /\ fresh' = Unwritten(Marked(r) \cup {None})
    /\ UNCHANGED <<stars, comments, replies, made, op, copy, seen, doc, lost, uneven, late, faults>>

\* A database error, a panic or a restart ends the request; a comment whose post
\* cannot be read is deleted all the same.
Fail(r) ==
    /\ faults < MaxTrouble
    /\ faults' = faults + 1
    /\ pc[r] \notin {"idle", "done"}
    /\ \/ Goto(r, "done")
       \/ op[r] = "delcomment" /\ pc[r] = "read" /\ Goto(r, "remove")
    /\ UNCHANGED <<post, documents, op, copy, seen, doc, fresh, lost, uneven, late>>

Step(r) == Read(r) \/ Insert(r) \/ Remove(r) \/ Write(r) \/ Refer(r) \/ Gather(r) \/ Mark(r)

Next ==
    \E r \in Requests :
        \/ CallStar(r) \/ CallOnComment(r) \/ CallDeleteReply(r)
        \/ CallDeleteRepost(r) \/ CallRetweet(r) \/ CallOnPost(r)
        \/ Step(r) \/ Fail(r)

Spec == Init /\ [][Next]_vars

-----------------------------------------------------------------------------
(* Properties. *)

Labels == {"idle", "read", "insert", "remove", "write", "refer", "gather", "mark", "done"}

\* The variables have their types.
TypeOK ==
    /\ post \in Post
    /\ stars \subseteq Requests /\ comments \subseteq Requests
    /\ replies \subseteq Requests /\ reposts \subseteq Requests /\ made \subseteq Requests
    /\ op \in [Requests -> Operations \cup {"none", "unstar"}]
    /\ pc \in [Requests -> Labels]
    /\ copy \in [Requests -> Post]
    /\ seen \in [Requests -> SUBSET Requests]
    /\ doc \in [Requests -> Requests \cup {None}]
    /\ fresh \subseteq Requests
    /\ lost \subseteq DOMAIN post
    /\ uneven \subseteq Requests /\ late \subseteq Requests
    /\ faults \in Nat

\* Nothing has happened that the counter f of the post does not survive: no write
\* from a stale copy of it, nothing counted twice, no request cut off.
Undisturbed(f) == f \notin lost /\ uneven = {} /\ faults = 0 /\ post.del = 0

\* UpvoteCount is the number of stars counted, through any interleaving of requests
\* that make, take back and double stars, unless a copy was stale.
UpvotesCounted == Undisturbed("upvote") => post.upvote = Cardinality(Upvoters)

\* CommentCount is the number of comments and replies, those of deleted comments
\* included, though comments are counted down before they go and replies after.
CommentsCounted == Undisturbed("comment") => post.comment = Cardinality(Spoken)

\* As long as the counter is right, no more comments than the cap are counted.
CapKept == Undisturbed("comment") => Cardinality(Spoken) <= MaxCommentCount

\* The reposts made of the post itself.
OfPost == {q \in made : Target(q) = None}

\* RefCount is the number of reposts ever made of the post itself: what the
\* transaction counts is only lost to the writes outside transactions.
RefsCounted == "ref" \notin lost => post.ref = Cardinality(OfPost)

\* No index gives a user one live retweet of the post: two retweets at once conflict
\* on the counter.  But retweets made of the post and of a retweet of it count on
\* different documents, and both stay when neither transaction sees the other's.
RetweetOnce ==
    \A q1, q2 \in reposts :
        /\ op[q1] = "retweet" /\ op[q2] = "retweet" /\ Owner[q1] = Owner[q2]
        /\ Target(q1) = Target(q2) \/ q1 \in seen[q2]
        => q1 = q2

\* A retweet outlives the post only if it was made between the deletion's look-up
\* of the retweets and the deletion, or of such a retweet.
OrphanIsLate == post.del = 1 => \A q \in reposts : op[q] = "retweet" => q \in late

\* Nobody changes a deleted post or brings it back, whatever copy he still holds.
StaysDeleted == [][post.del = 1 => post' = post]_vars

-----------------------------------------------------------------------------
(* The invariant that the proofs use. *)

\* Where a request can be, by what it does.
PlacesFit ==
    \A r \in Requests :
        /\ pc[r] = "idle" <=> op[r] = "none"
        /\ pc[r] = "insert" => op[r] \in {"star", "comment", "reply"}
        /\ pc[r] = "remove" => op[r] \in {"unstar", "delcomment", "delreply", "unrepost"}
        /\ pc[r] = "refer" => op[r] \in Reposting
        /\ pc[r] \in {"gather", "mark"} => op[r] = "delete"
        /\ pc[r] = "read" => op[r] # "unrepost"
        /\ pc[r] = "write" => op[r] \notin Reposting \cup {"delete", "unrepost"}

\* A document bears the name of the request that made it.
DocumentsNamed ==
    /\ \A s \in stars : op[s] = "star" /\ pc[s] \in {"write", "done"}
    /\ \A c \in comments : op[c] = "comment" /\ pc[c] \in {"write", "done"}
    /\ \A p \in replies : op[p] = "reply" /\ pc[p] \in {"write", "done"}
    /\ \A q \in made : op[q] \in Reposting /\ pc[q] = "done"
    /\ reposts \subseteq made

\* What a request is about was there.
DocsNamed ==
    \A r \in Requests :
        /\ op[r] = "unstar" =>
               doc[r] \in Requests /\ op[doc[r]] = "star" /\ pc[doc[r]] \in {"write", "done"}
        /\ op[r] \in {"delcomment", "reply"} =>
               doc[r] \in Requests /\ op[doc[r]] = "comment" /\ pc[doc[r]] \in {"write", "done"}
        /\ op[r] = "delreply" =>
               doc[r] \in Requests /\ op[doc[r]] = "reply" /\ pc[doc[r]] \in {"write", "done"}
        /\ Target(r) # None => Target(r) \in made /\ op[Target(r)] = "retweet"

\* No request holds a copy of a deleted post, and a fresh copy is the post.  Nobody has
\* seen a repost that was not made.
CopiesFit ==
    /\ \A r \in Requests : copy[r].del = 0
    /\ \A r \in fresh : Target(r) = None => copy[r] = post
    /\ \A r \in Requests : seen[r] \subseteq made

\* A transaction that can still commit sees every live repost made of the document it
\* was made of itself, and that document is still there.
FreshSeen ==
    \A r \in fresh : pc[r] = "refer" =>
        /\ \A q \in reposts : Target(q) = Target(r) => q \in seen[r]
        /\ Target(r) # None => Target(r) \in reposts

\* A deletion about to happen takes along every retweet that is not late.
GatheredOrLate ==
    \A d \in Requests : pc[d] = "mark" =>
        \A q \in reposts : op[q] = "retweet" => q \in seen[d] \cup late

\* No counter goes over the cap, nor does a copy about to count a comment.
CapHolds ==
    /\ post.comment <= MaxCommentCount
    /\ \A r \in Requests :
        /\ copy[r].comment <= MaxCommentCount
        /\ op[r] \in {"comment", "reply"} /\ pc[r] \in {"insert", "write"} =>
               copy[r].comment < MaxCommentCount

Regular == uneven = {} /\ faults = 0 /\ post.del = 0

\* A star not yet counted is there, or about to be counted down, by one request.
StarsAccounted ==
    Regular =>
        /\ \A s \in Requests : op[s] = "star" /\ pc[s] = "write" =>
               s \in stars \cup {doc[r] : r \in Unstarring}
        /\ \A r \in Unstarring : doc[r] \notin stars
        /\ \A r, q \in Unstarring : doc[r] = doc[q] => r = q

\* The same of replies; a comment not yet counted is there, and one that is counted
\* down is there until one request deletes it.
CommentsAccounted ==
    Regular =>
        /\ \A c \in Requests : op[c] = "comment" /\ pc[c] = "write" =>
               c \in comments \ {doc[r] : r \in Uncommenting}
        /\ \A r, q \in Uncommenting : doc[r] = doc[q] => r = q
        /\ \A p \in Requests : op[p] = "reply" /\ pc[p] = "write" =>
               p \in replies \cup {doc[r] : r \in Unreplying}
        /\ \A r \in Unreplying : doc[r] \notin replies
        /\ \A r, q \in Unreplying : doc[r] = doc[q] => r = q

Structure == TypeOK /\ PlacesFit /\ DocumentsNamed /\ DocsNamed /\ CopiesFit

IInv ==
    /\ Structure
    /\ FreshSeen /\ GatheredOrLate /\ RetweetOnce /\ OrphanIsLate /\ RefsCounted
    /\ CapHolds
    /\ StarsAccounted /\ UpvotesCounted
    /\ CommentsAccounted /\ CommentsCounted
=============================================================================
