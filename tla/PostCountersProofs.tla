------------------------- MODULE PostCountersProofs -------------------------
(***************************************************************************)
(* TLAPS proofs about PostCounters, for any number of requests and users:  *)
(* the invariant IInv is inductive, and the counters, the uniqueness of    *)
(* retweets and the finality of a deletion follow from it.                 *)
(***************************************************************************)
EXTENDS PostCounters, FiniteSetTheorems, TLAPS

-----------------------------------------------------------------------------
(* A call, whichever handler it comes from: what it does, and about what. *)

CallOf(o, d, label) ==
    /\ o \in Operations \cup {"unstar"}
    /\ d \in Requests \cup {None}
    /\ label \in {"read", "remove"}
    /\ label = "remove" <=> o \in {"unstar", "delreply", "unrepost"}
    /\ o = "unstar" => d \in stars
    /\ o \in {"delcomment", "reply"} => d \in comments
    /\ o = "delreply" => d \in replies
    /\ o = "retweet" /\ d # None => d \in reposts /\ op[d] = "retweet"

\* Every handler makes such a call.
LEMMA Calls ==
    ASSUME TypeOK, NEW r \in Requests,
           CallStar(r) \/ CallOnComment(r) \/ CallDeleteReply(r)
           \/ CallDeleteRepost(r) \/ CallRetweet(r) \/ CallOnPost(r)
    PROVE  \E o, d, label : CallOf(o, d, label) /\ Call(r, o, d, label)
<1>1. CASE CallStar(r)
    BY <1>1 DEF CallStar, CallOf, Operations, OnPost, Reposting, TypeOK
<1>2. CASE CallOnComment(r)
    BY <1>2 DEF CallOnComment, CallOf, Operations, OnPost, Reposting, TypeOK
<1>3. CASE CallDeleteReply(r)
    BY <1>3 DEF CallDeleteReply, CallOf, Operations, OnPost, Reposting, TypeOK
<1>4. CASE CallDeleteRepost(r)
    BY <1>4 DEF CallDeleteRepost, CallOf, Operations, OnPost, Reposting, TypeOK
<1>5. CASE CallRetweet(r)
    BY <1>5 DEF CallRetweet, CallOf, Operations, OnPost, Reposting, TypeOK
<1>6. CASE CallOnPost(r)
    BY <1>6 DEF CallOnPost, CallOf, Operations, OnPost, Reposting
<1> QED BY <1>1, <1>2, <1>3, <1>4, <1>5, <1>6

-----------------------------------------------------------------------------
(* Structure. *)

LEMMA StructureInit == ASSUME Init PROVE Structure
<1>1. post \in Post /\ post.del = 0
    BY DEF Init, NewPost, Post, Visibility
<1>2. TypeOK
    BY <1>1 DEF Init, TypeOK, Labels
<1>3. PlacesFit /\ DocumentsNamed /\ DocsNamed
    BY DEF Init, PlacesFit, DocumentsNamed, DocsNamed, Reposting, Target
<1>4. CopiesFit
    BY <1>1 DEF Init, CopiesFit
<1> QED BY <1>2, <1>3, <1>4 DEF Structure

\* What an operation makes of a copy is a post, deleted or not as the copy was.
LEMMA ChangedIsPost ==
    ASSUME NEW p \in Post, NEW o, NEW q \in Changed(p, o)
    PROVE  q \in Post /\ q.del = p.del
<1> USE DEF Post, Visibility
<1>1. CASE o \in {"star", "unstar"}
    BY <1>1 DEF Changed, CountedDown
<1>2. CASE o \in {"comment", "reply", "delcomment", "delreply"}
    BY <1>2 DEF Changed, CountedDown
<1>3. CASE o \in {"view"} \cup Reposting
    BY <1>3 DEF Changed, Reposting
<1>4. CASE o \in {"stick", "unpin"}
    BY <1>4 DEF Changed, Toggled
<1>5. CASE o = "visible"
    <2>1. PICK v \in Visibility : q = Shown(p, v)
        BY <1>5 DEF Changed, Reposting
    <2> QED BY <2>1 DEF Shown
<1>6. CASE o \notin {"star", "unstar", "comment", "reply", "delcomment", "delreply",
                     "view", "stick", "unpin", "visible"} \cup Reposting
    BY <1>6 DEF Changed
<1> QED BY <1>1, <1>2, <1>3, <1>4, <1>5, <1>6

LEMMA StructureCall ==
    ASSUME Structure, NEW r \in Requests, NEW o, NEW d, NEW label,
           CallOf(o, d, label), Call(r, o, d, label)
    PROVE  Structure'
<1> USE DEF Call, Goto, documents, history, Structure
<1>1. TypeOK' BY DEF TypeOK, CallOf, Labels
<1>2. PlacesFit' BY DEF TypeOK, PlacesFit, CallOf, Operations, OnPost, Reposting
<1>3. DocumentsNamed' BY DEF TypeOK, PlacesFit, DocumentsNamed
<1>4. DocsNamed' BY DEF TypeOK, DocsNamed, DocumentsNamed, CallOf, Target
<1>5. CopiesFit' BY DEF TypeOK, CopiesFit, Target, PlacesFit
<1> QED BY <1>1, <1>2, <1>3, <1>4, <1>5

LEMMA StructureRead ==
    ASSUME Structure, NEW r \in Requests, Read(r)
    PROVE  Structure'
<1> USE DEF Read, Goto, documents, Structure
<1>1. TypeOK' BY DEF TypeOK, AfterRead, Labels
<1>2. PlacesFit' BY DEF TypeOK, PlacesFit, AfterRead, Operations, OnPost, Reposting
<1>3. DocumentsNamed' BY DEF TypeOK, DocumentsNamed, AfterRead, Reposting
<1>4. DocsNamed' BY DEF TypeOK, DocsNamed, AfterRead, Reposting, Target
<1>5. CopiesFit' BY DEF TypeOK, CopiesFit, Target, DocumentsNamed, Found
<1> QED BY <1>1, <1>2, <1>3, <1>4, <1>5

LEMMA StructureInsert ==
    ASSUME Structure, NEW r \in Requests, Insert(r)
    PROVE  Structure'
<1> USE DEF Insert, Goto, history, Structure
<1>1. TypeOK' BY DEF TypeOK, Labels
<1>2. PlacesFit' BY DEF TypeOK, PlacesFit, Reposting
<1>3. DocumentsNamed' BY DEF TypeOK, PlacesFit, DocumentsNamed
<1>4. DocsNamed' BY DEF TypeOK, DocsNamed, Target
<1>5. CopiesFit' BY DEF TypeOK, CopiesFit, Target
<1> QED BY <1>1, <1>2, <1>3, <1>4, <1>5

LEMMA StructureRemove ==
    ASSUME Structure, NEW r \in Requests, Remove(r)
    PROVE  Structure'
<1> USE DEF Remove, Unwritten, Goto, Structure
<1>1. TypeOK' BY DEF TypeOK, Labels
<1>2. PlacesFit' BY DEF TypeOK, PlacesFit, GoesOn, Reposting
<1>3. DocumentsNamed' BY DEF TypeOK, PlacesFit, DocumentsNamed, GoesOn
<1>4. DocsNamed' BY DEF TypeOK, DocsNamed, PlacesFit, GoesOn, Target
<1>5. CopiesFit' BY DEF TypeOK, CopiesFit, Target
<1> QED BY <1>1, <1>2, <1>3, <1>4, <1>5

LEMMA StructureWrite ==
    ASSUME Structure, NEW r \in Requests, Write(r)
    PROVE  Structure'
<1> USE DEF Write, Unwritten, Goto, documents, Structure
<1>1. post' \in Post BY ChangedIsPost DEF TypeOK, Stored
<1>2. TypeOK' BY <1>1 DEF TypeOK, Labels, Post
<1>3. PlacesFit' BY DEF TypeOK, PlacesFit, Reposting
<1>4. DocumentsNamed' BY DEF TypeOK, DocumentsNamed, Reposting
<1>5. DocsNamed' BY DEF TypeOK, DocsNamed, Target
<1>6. CopiesFit' BY DEF TypeOK, CopiesFit, Target
<1> QED BY <1>2, <1>3, <1>4, <1>5, <1>6

LEMMA StructureRefer ==
    ASSUME Structure, NEW r \in Requests, Refer(r)
    PROVE  Structure'
<1> USE DEF Refer, Unwritten, Goto, Structure
<1>1. post' \in Post BY ChangedIsPost DEF TypeOK
<1>2. TypeOK' BY <1>1 DEF TypeOK, Labels, Post
<1>3. PlacesFit' BY DEF TypeOK, PlacesFit
<1>4. DocumentsNamed' BY DEF TypeOK, PlacesFit, DocumentsNamed
<1>5. DocsNamed' BY DEF TypeOK, DocsNamed, Target
<1>6. CopiesFit' BY DEF TypeOK, CopiesFit, Target
<1> QED BY <1>2, <1>3, <1>4, <1>5, <1>6

LEMMA StructureDelete ==
    ASSUME Structure, NEW r \in Requests, Gather(r) \/ Mark(r)
    PROVE  Structure'
<1> USE DEF Gather, Mark, Marked, Unwritten, Goto, documents, history, Structure
<1>1. post' \in Post BY DEF TypeOK, Post
<1>2. TypeOK'
    <2>1. CASE Gather(r) BY <2>1 DEF TypeOK, Labels
    <2>2. CASE Mark(r) BY <2>2, <1>1 DEF TypeOK, Labels, Post
    <2> QED BY <2>1, <2>2
<1>3. PlacesFit' BY DEF TypeOK, PlacesFit
<1>4. DocumentsNamed' BY DEF TypeOK, DocumentsNamed
<1>5. DocsNamed' BY DEF TypeOK, DocsNamed, Target
<1>6. CopiesFit' BY DEF TypeOK, CopiesFit, Target, DocumentsNamed
<1> QED BY <1>2, <1>3, <1>4, <1>5, <1>6

LEMMA StructureFail ==
    ASSUME Structure, NEW r \in Requests, Fail(r)
    PROVE  Structure'
<1> USE DEF Fail, Goto, documents, Structure
<1>1. TypeOK' BY DEF TypeOK, Labels
<1>2. PlacesFit' BY DEF TypeOK, PlacesFit
<1>3. DocumentsNamed' BY DEF TypeOK, DocumentsNamed
<1>4. DocsNamed' BY DEF TypeOK, DocsNamed, Target
<1>5. CopiesFit' BY DEF TypeOK, CopiesFit, Target
<1> QED BY <1>1, <1>2, <1>3, <1>4, <1>5

-----------------------------------------------------------------------------
(* Reposts. *)

ReferFacts == FreshSeen /\ GatheredOrLate /\ RetweetOnce /\ OrphanIsLate

\* A repost that commits was made of another document than any retweet its user has, and
\* it is no orphan unless what it was made of is one.
LEMMA RepostsRefer ==
    ASSUME Structure, ReferFacts, NEW r \in Requests, Refer(r)
    PROVE  ReferFacts'
<1> USE DEF Refer, Commits, Retweeted, Unwritten, Goto, ReferFacts, Structure
<1>1. \A q : Target(q)' = Target(q)
    BY DEF Target
<1>2. FreshSeen'
    BY <1>1 DEF TypeOK, FreshSeen
<1>3. GatheredOrLate'
    BY DEF TypeOK, GatheredOrLate
<1>4. RetweetOnce'
    <2>1. r \notin made
        BY DEF DocumentsNamed
    <2>2. \A q \in reposts : r \notin seen[q]
        BY <2>1 DEF CopiesFit, DocumentsNamed, TypeOK
    <2>3. r \in fresh => \A q \in reposts : Target(q) = Target(r) => q \in seen[r]
        BY DEF FreshSeen
    <2> QED BY <1>1, <2>2, <2>3 DEF TypeOK, RetweetOnce
<1>5. OrphanIsLate'
    <2>1. CASE UNCHANGED <<post, reposts, late>>
        BY <2>1 DEF OrphanIsLate
    <2>2. CASE r \in fresh /\ Target(r) = None /\ post' \in Changed(copy[r], op[r])
        <3>1. post'.del = 0 BY <2>2, ChangedIsPost DEF TypeOK, CopiesFit
        <3> QED BY <3>1 DEF OrphanIsLate
    <2>3. CASE /\ r \in fresh /\ Target(r) # None
               /\ post' = post /\ reposts' = reposts \cup {r}
               /\ late' = IF /\ op[r] = "retweet"
                             /\ Target(r) \in late \/ \E d \in Requests : pc[d] = "mark"
                          THEN late \cup {r} ELSE late
        <3>1. Target(r) \in reposts /\ op[Target(r)] = "retweet"
            BY <2>3 DEF FreshSeen, DocsNamed
        <3>2. post.del = 1 => Target(r) \in late
            BY <3>1 DEF OrphanIsLate
        <3> QED BY <2>3, <3>2 DEF OrphanIsLate
    <2> QED BY <2>1, <2>2, <2>3
<1> QED BY <1>2, <1>3, <1>4, <1>5

\* The other steps make no repost.
LEMMA RepostsOther ==
    ASSUME Structure, ReferFacts, NEW r \in Requests,
           \/ \E o, d, label : CallOf(o, d, label) /\ Call(r, o, d, label)
           \/ Read(r) \/ Insert(r) \/ Remove(r) \/ Write(r) \/ Gather(r) \/ Mark(r) \/ Fail(r)
    PROVE  ReferFacts'
<1> USE DEF Goto, documents, history, ReferFacts, Structure
<1>1. ASSUME NEW o, NEW d, NEW label, CallOf(o, d, label), Call(r, o, d, label)
      PROVE  ReferFacts'
    <2> USE <1>1 DEF Call, CallOf
    <2>1. \A q \in Requests : pc[q] # "idle" => Target(q)' = Target(q)
        BY DEF TypeOK, Target
    <2>2. r \notin reposts
        BY DEF DocumentsNamed
    <2>3. FreshSeen'
        BY <2>1, <2>2 DEF TypeOK, FreshSeen, DocumentsNamed
    <2>4. GatheredOrLate' BY DEF TypeOK, GatheredOrLate, DocumentsNamed, PlacesFit
    <2>5. RetweetOnce'
        BY <2>1, <2>2 DEF TypeOK, RetweetOnce, DocumentsNamed
    <2>6. OrphanIsLate'
        BY <2>2 DEF TypeOK, OrphanIsLate
    <2> QED BY <2>3, <2>4, <2>5, <2>6
<1>2. ASSUME UNCHANGED <<op, doc>>
      PROVE  \A q : Target(q)' = Target(q)
    BY <1>2 DEF Target
<1>3. CASE Read(r)
    <2> USE <1>3 DEF Read
    <2>1. FreshSeen' BY <1>2 DEF TypeOK, FreshSeen, Found
    <2>2. GatheredOrLate' /\ OrphanIsLate'
        BY DEF TypeOK, GatheredOrLate, OrphanIsLate, AfterRead
    <2>3. r \notin reposts BY DEF DocumentsNamed
    <2>4. RetweetOnce' BY <1>2, <2>3 DEF TypeOK, RetweetOnce
    <2> QED BY <2>1, <2>2, <2>4
<1>4. CASE Insert(r)
    BY <1>2, <1>4 DEF Insert, TypeOK, FreshSeen, GatheredOrLate, RetweetOnce, OrphanIsLate
<1>5. CASE Remove(r)
    <2> USE <1>5 DEF Remove, Unwritten
    <2>1. FreshSeen' BY <1>2 DEF TypeOK, FreshSeen
    <2>2. GatheredOrLate' /\ RetweetOnce' /\ OrphanIsLate'
        BY <1>2 DEF TypeOK, GatheredOrLate, RetweetOnce, OrphanIsLate
    <2> QED BY <2>1, <2>2
<1>6. CASE Write(r)
    <2> USE <1>6 DEF Write, Unwritten
    <2>1. FreshSeen' BY <1>2 DEF TypeOK, FreshSeen
    <2>2. GatheredOrLate' /\ RetweetOnce' BY <1>2 DEF TypeOK, GatheredOrLate, RetweetOnce
    <2>3. post.del = 0 => post'.del = 0
        BY ChangedIsPost DEF TypeOK, CopiesFit, Stored
    <2>4. post.del \in {0, 1} BY DEF TypeOK, Post
    <2>5. OrphanIsLate' BY <2>3, <2>4 DEF OrphanIsLate
    <2> QED BY <2>1, <2>2, <2>5
<1>7. CASE Gather(r)
    <2> USE <1>7 DEF Gather
    <2>1. FreshSeen' BY <1>2 DEF TypeOK, FreshSeen
    <2>2. GatheredOrLate' /\ OrphanIsLate' BY DEF TypeOK, GatheredOrLate, OrphanIsLate
    <2>3. r \notin reposts BY DEF DocumentsNamed
    <2>4. RetweetOnce' BY <1>2, <2>3 DEF TypeOK, RetweetOnce
    <2> QED BY <2>1, <2>2, <2>4
<1>8. CASE Mark(r)
    <2> USE <1>8 DEF Mark, Marked, Unwritten
    <2>1. FreshSeen' /\ RetweetOnce' BY <1>2 DEF TypeOK, FreshSeen, RetweetOnce
    <2>2. GatheredOrLate' /\ OrphanIsLate' BY DEF TypeOK, GatheredOrLate, OrphanIsLate
    <2> QED BY <2>1, <2>2
<1>9. CASE Fail(r)
    BY <1>2, <1>9 DEF Fail, TypeOK, FreshSeen, GatheredOrLate, RetweetOnce, OrphanIsLate
<1> QED BY <1>1, <1>3, <1>4, <1>5, <1>6, <1>7, <1>8, <1>9

-----------------------------------------------------------------------------
(* What a write does to the counters. *)

\* An operation changes the counter it is about by one, and no other.
LEMMA ChangedCounters ==
    ASSUME NEW p \in Post, NEW o, NEW q \in Changed(p, o)
    PROVE  /\ q.upvote = IF o = "star" THEN p.upvote + 1
                         ELSE IF o = "unstar" THEN p.upvote - 1 ELSE p.upvote
           /\ q.comment = IF o \in {"comment", "reply"} THEN p.comment + 1
                          ELSE IF o \in {"delcomment", "delreply"} THEN p.comment - 1
                          ELSE p.comment
           /\ q.ref = IF o \in Reposting THEN p.ref + 1 ELSE p.ref
<1> USE DEF Post, Reposting
<1>1. CASE o \in {"star", "unstar"}
    BY <1>1 DEF Changed, CountedDown
<1>2. CASE o \in {"comment", "reply", "delcomment", "delreply"}
    BY <1>2 DEF Changed, CountedDown
<1>3. CASE o \in {"view"} \cup Reposting
    BY <1>3 DEF Changed
<1>4. CASE o \in {"stick", "unpin"}
    BY <1>4 DEF Changed
<1>5. CASE o = "visible"
    <2>1. PICK v \in Visibility : q = Shown(p, v)
        BY <1>5 DEF Changed
    <2> QED BY <1>5, <2>1 DEF Shown
<1>6. CASE o \notin {"star", "unstar", "comment", "reply", "delcomment", "delreply",
                     "view", "stick", "unpin", "visible"} \cup Reposting
    BY <1>6 DEF Changed
<1> QED BY <1>1, <1>2, <1>3, <1>4, <1>5, <1>6

\* A write to a post that is not deleted stores the changed copy, which holds every
\* field that is not lost; one to a deleted post stores nothing.
LEMMA WriteStores ==
    ASSUME Structure, NEW r \in Requests, Write(r)
    PROVE  /\ post.del = 0 => post' \in Changed(copy[r], op[r])
           /\ post.del = 1 => post' = post
           /\ copy[r] \in Post
           /\ "upvote" \notin lost' => copy[r].upvote = post.upvote
           /\ "comment" \notin lost' => copy[r].comment = post.comment
           /\ "ref" \notin lost' => copy[r].ref = post.ref
<1>1. DOMAIN post = {"upvote", "comment", "view", "ref", "top", "visibility", "del"}
    BY DEF Structure, TypeOK, Post
<1>2. copy[r] \in Post
    BY DEF Structure, TypeOK
<1>3. lost' = lost \cup {f \in DOMAIN post : copy[r][f] # post[f]}
    BY DEF Write
<1>4. \A f \in DOMAIN post : f \notin lost' => copy[r][f] = post[f]
    BY <1>3
<1>5. /\ post.del = 0 => post' \in Changed(copy[r], op[r])
      /\ post.del = 1 => post' = post
    BY DEF Write, Stored
<1> QED BY <1>1, <1>2, <1>4, <1>5

\* A repost changes nothing, or a retweet's document and not the post, or the post,
\* which is not deleted, from its last version.
LEMMA ReferStores ==
    ASSUME Structure, NEW r \in Requests, Refer(r)
    PROVE  /\ op[r] \in Reposting /\ post \in Post /\ r \notin made
           /\ post'.upvote = post.upvote /\ post'.comment = post.comment
           /\ \/ post' = post /\ made' = made
              \/ post' = post /\ made' = made \cup {r} /\ Target(r) # None
              \/ /\ post' \in Changed(post, op[r]) /\ made' = made \cup {r}
                 /\ Target(r) = None /\ post.del = 0
<1>1. op[r] \in Reposting /\ post \in Post /\ r \notin made
    BY DEF Refer, Structure, TypeOK, PlacesFit, DocumentsNamed
<1>2. r \in fresh /\ Target(r) = None => copy[r] = post /\ post.del = 0
    BY DEF Structure, CopiesFit
<1>3. \A q \in Changed(post, op[r]) : q.upvote = post.upvote /\ q.comment = post.comment
    BY <1>1, ChangedCounters DEF Reposting
<1> QED BY <1>1, <1>2, <1>3 DEF Refer, Commits

\* A deleted post is never written.
LEMMA DeletedStays ==
    ASSUME Structure, [Next]_vars
    PROVE  post.del = 1 => post' = post
<1> SUFFICES ASSUME post.del = 1 PROVE post' = post
    OBVIOUS
<1>1. CASE UNCHANGED vars
    BY <1>1 DEF vars
<1>2. ASSUME NEW r \in Requests,
             CallStar(r) \/ CallOnComment(r) \/ CallDeleteReply(r)
             \/ CallDeleteRepost(r) \/ CallRetweet(r) \/ CallOnPost(r)
      PROVE  post' = post
    BY <1>2, Calls DEF Structure, Call
<1>3. ASSUME NEW r \in Requests, Step(r) \/ Fail(r)
      PROVE  post' = post
    <2>1. CASE Write(r)
        BY <2>1, WriteStores
    <2>2. CASE Refer(r)
        BY <2>2, ReferStores
    <2>3. CASE Mark(r)
        BY <2>3 DEF Mark, Structure, TypeOK, Post
    <2>4. CASE Read(r) \/ Insert(r) \/ Remove(r) \/ Gather(r) \/ Fail(r)
        BY <2>4 DEF Read, Insert, Remove, Gather, Fail
    <2> QED BY <1>3, <2>1, <2>2, <2>3, <2>4 DEF Step
<1> QED BY <1>1, <1>2, <1>3 DEF Next

-----------------------------------------------------------------------------
(* Cardinalities. *)

\* Adding an element to a set of requests, or removing one, counts.
LEMMA Counted ==
    ASSUME NEW S, S \subseteq Requests, NEW r
    PROVE  /\ Cardinality(S) \in Nat
           /\ r \notin S => Cardinality(S \cup {r}) = Cardinality(S) + 1
           /\ r \in S => Cardinality(S \ {r}) = Cardinality(S) - 1
<1>1. IsFiniteSet(S)
    BY PostAssumption, FS_Subset
<1> QED BY <1>1, FS_CardinalityType, FS_AddElement, FS_RemoveElement

\* RefCount: a repost that commits counts itself, and no write that loses nothing
\* changes it.
LEMMA RefsStep ==
    ASSUME Structure, RefsCounted, [Next]_vars
    PROVE  RefsCounted'
<1> USE DEF RefsCounted
<1>1. CASE UNCHANGED vars
    BY <1>1 DEF vars, documents, request, history, OfPost, Target
<1>2. ASSUME NEW r \in Requests,
             CallStar(r) \/ CallOnComment(r) \/ CallDeleteReply(r)
             \/ CallDeleteRepost(r) \/ CallRetweet(r) \/ CallOnPost(r)
      PROVE  RefsCounted'
    <2>1. PICK o, d, label : Call(r, o, d, label)
        BY <1>2, Calls DEF Structure
    <2>2. made' = made /\ r \notin made
        BY <2>1 DEF Call, documents, Structure, DocumentsNamed
    <2>3. \A q \in made : Target(q)' = Target(q)
        BY <2>1, <2>2 DEF Call, Target, Structure, TypeOK
    <2> QED BY <2>1, <2>2, <2>3 DEF Call, history, OfPost
<1>3. ASSUME NEW r \in Requests, Step(r) \/ Fail(r)
      PROVE  RefsCounted'
    <2> \A q : Target(q)' = Target(q)
        BY <1>3 DEF Step, Read, Insert, Remove, Write, Refer, Gather, Mark, Fail, Target
    <2>0. made' = made => OfPost' = OfPost
        BY DEF OfPost
    <2>1. CASE Write(r)
        <3>1. made' = made /\ ("ref" \notin lost' => "ref" \notin lost)
            BY <2>1 DEF Write, documents
        <3>2. op[r] \notin Reposting
            BY <2>1 DEF Write, Structure, PlacesFit
        <3>3. post.del \in {0, 1}
            BY DEF Structure, TypeOK, Post
        <3>4. "ref" \notin lost' => post'.ref = post.ref
            BY <2>1, <3>2, <3>3, WriteStores, ChangedCounters
        <3> QED BY <2>0, <3>1, <3>4
    <2>2. CASE Refer(r)
        <3>1. CASE post' = post /\ made' = made
            BY <2>0, <2>2, <3>1 DEF Refer
        <3>2. CASE post' = post /\ made' = made \cup {r} /\ Target(r) # None
            <4>1. OfPost' = OfPost
                BY <3>2 DEF OfPost
            <4> QED BY <2>2, <3>2, <4>1 DEF Refer
        <3>3. CASE /\ post' \in Changed(post, op[r]) /\ made' = made \cup {r}
                   /\ Target(r) = None /\ post.del = 0
            <4>1. post'.ref = post.ref + 1
                BY <2>2, <3>3, ReferStores, ChangedCounters
            <4>2. OfPost' = OfPost \cup {r} /\ r \notin OfPost /\ OfPost \subseteq Requests
                BY <2>2, <3>3, ReferStores DEF OfPost, Structure, TypeOK
            <4>3. Cardinality(OfPost') = Cardinality(OfPost) + 1
                BY <4>2, Counted
            <4> QED BY <2>2, <4>1, <4>3 DEF Refer
        <3> QED BY <2>2, <3>1, <3>2, <3>3, ReferStores
    <2>3. CASE Mark(r)
        BY <2>0, <2>3 DEF Mark, Structure, TypeOK, Post
    <2>4. CASE Read(r) \/ Insert(r) \/ Remove(r) \/ Gather(r) \/ Fail(r)
        BY <2>0, <2>4 DEF Read, Insert, Remove, Gather, Fail, documents, history
    <2> QED BY <1>3, <2>1, <2>2, <2>3, <2>4 DEF Step
<1> QED BY <1>1, <1>2, <1>3 DEF Next

\* The cap: what a request writes is what its copy let through.
LEMMA CapStep ==
    ASSUME Structure, CapHolds, [Next]_vars
    PROVE  CapHolds'
<1> USE DEF CapHolds
<1>0. MaxCommentCount \in Nat /\ post \in Post /\ copy \in [Requests -> Post]
    BY PostAssumption DEF Structure, TypeOK
<1>1. CASE UNCHANGED vars
    BY <1>1 DEF vars, request
<1>2. ASSUME NEW r \in Requests,
             CallStar(r) \/ CallOnComment(r) \/ CallDeleteReply(r)
             \/ CallDeleteRepost(r) \/ CallRetweet(r) \/ CallOnPost(r)
      PROVE  CapHolds'
    <2>1. PICK o, d, label : CallOf(o, d, label) /\ Call(r, o, d, label)
        BY <1>2, Calls DEF Structure
    <2> QED BY <2>1 DEF Call, CallOf, Goto, Structure, TypeOK
<1>3. ASSUME NEW r \in Requests, Step(r) \/ Fail(r)
      PROVE  CapHolds'
    <2>1. CASE Write(r)
        <3>1. post.del \in {0, 1}
            BY <1>0 DEF Post
        <3>2. copy[r].comment \in Int /\ post.comment \in Int
            BY <1>0 DEF Post
        <3>3. CASE post.del = 1
            BY <2>1, <3>3, WriteStores DEF Write, Goto, Structure, TypeOK
        <3>4. CASE post.del = 0
            <4>1. op[r] \in {"comment", "reply"} => copy[r].comment < MaxCommentCount
                BY <2>1 DEF Write
            <4>2. post' \in Changed(copy[r], op[r]) /\ copy[r] \in Post
                BY <2>1, <3>4, WriteStores
            <4>3. post'.comment <= MaxCommentCount
                BY <1>0, <3>2, <4>1, <4>2, ChangedCounters
            <4> QED BY <2>1, <4>3 DEF Write, Goto, Structure, TypeOK
        <3> QED BY <3>1, <3>3, <3>4
    <2>2. CASE Refer(r)
        <3>1. post'.comment = post.comment
            BY <2>2, ReferStores
        <3> QED BY <2>2, <3>1 DEF Refer, Goto, Structure, TypeOK
    <2>3. CASE Mark(r)
        BY <2>3, <1>0 DEF Mark, Goto, Structure, TypeOK, Post
    <2>4. CASE Read(r)
        <3>1. post.comment \in Int
            BY <1>0 DEF Post
        <3> QED
          BY <2>4, <1>0, <3>1
          DEF Read, Goto, Found, Target, Refused, AfterRead, Structure, TypeOK
    <2>5. CASE Insert(r)
        BY <2>5 DEF Insert, Goto, Structure, TypeOK
    <2>6. CASE Remove(r) \/ Gather(r) \/ Fail(r)
        BY <2>6 DEF Remove, Gather, Fail, Goto, Structure, TypeOK
    <2> QED BY <1>3, <2>1, <2>2, <2>3, <2>4, <2>5, <2>6 DEF Step
<1> QED BY <1>1, <1>2, <1>3 DEF Next

-----------------------------------------------------------------------------
(* Stars. *)

StarFacts == StarsAccounted /\ UpvotesCounted

\* Only a disturbance that has not happened yet can follow.
LEMMA RegularBefore ==
    ASSUME Structure, [Next]_vars, Regular'
    PROVE  Regular
<1>1. post.del \in {0, 1} /\ faults \in Nat
    BY DEF Structure, TypeOK, Post
<1>2. post.del = 0
    BY <1>1, DeletedStays DEF Regular
<1>3. CASE UNCHANGED vars
    BY <1>3 DEF vars, history, Regular
<1>4. ASSUME NEW r \in Requests,
             CallStar(r) \/ CallOnComment(r) \/ CallDeleteReply(r)
             \/ CallDeleteRepost(r) \/ CallRetweet(r) \/ CallOnPost(r)
      PROVE  Regular
    BY <1>2, <1>4, Calls DEF Structure, Call, history, Regular
<1>5. ASSUME NEW r \in Requests, Step(r)
      PROVE  Regular
    BY <1>2, <1>5 DEF Step, Read, Insert, Remove, Write, Refer, Gather, Mark, history, Regular
<1>6. ASSUME NEW r \in Requests, Fail(r)
      PROVE  Regular
    BY <1>1, <1>6 DEF Fail, Regular
<1> QED BY <1>3, <1>4, <1>5, <1>6 DEF Next

\* What is counted as a star, or is about to be, was made by a request for one.
LEMMA StarsNamed ==
    ASSUME Structure
    PROVE  /\ Upvoters \subseteq Requests
           /\ \A s \in stars \cup {doc[r] : r \in Unstarring} :
                  s \in Requests /\ op[s] = "star" /\ pc[s] \in {"write", "done"}
BY DEF Structure, TypeOK, DocumentsNamed, DocsNamed, Upvoters, Unstarring

\* A step that leaves the stars, those being taken back and the counter as they are.
LEMMA StarsSame ==
    ASSUME Structure, StarFacts, [Next]_vars, Regular',
           stars' = stars, Unstarring' = Unstarring, doc' = doc,
           NEW r \in Requests, op' = op,
           \A q \in Requests : q # r => pc'[q] = pc[q],
           op[r] = "star" => pc[r] # "write" /\ pc'[r] # "write",
           "upvote" \notin lost' => "upvote" \notin lost /\ post'.upvote = post.upvote
    PROVE  StarFacts'
<1>1. Regular
    BY RegularBefore
<1>2. Upvoters' = Upvoters
    BY StarsNamed DEF Upvoters
<1>3. StarsAccounted'
    BY <1>1 DEF StarFacts, StarsAccounted
<1>4. UpvotesCounted'
    BY <1>1, <1>2 DEF StarFacts, UpvotesCounted, Undisturbed, Regular
<1> QED BY <1>3, <1>4 DEF StarFacts

LEMMA StarsCall ==
    ASSUME Structure, StarFacts, [Next]_vars, Regular', NEW r \in Requests,
           NEW o, NEW d, NEW label, CallOf(o, d, label), Call(r, o, d, label)
    PROVE  StarFacts'
<1> USE DEF Call, CallOf, Goto, documents, history, Structure
<1>1. Regular
    BY RegularBefore
<1>2. Unstarring' = Unstarring
    BY DEF Unstarring, TypeOK
<1>3. r \notin Unstarring /\ r \notin stars \cup {doc[q] : q \in Unstarring}
    BY StarsNamed DEF Unstarring
<1>4. \A q \in Unstarring : doc'[q] = doc[q]
    BY <1>3 DEF TypeOK, Unstarring
<1>5. {doc'[q] : q \in Unstarring} = {doc[q] : q \in Unstarring}
    BY <1>4
<1>6. Upvoters' = Upvoters
    BY <1>2, <1>3, <1>5, StarsNamed DEF Upvoters, TypeOK
<1>7. StarsAccounted'
    BY <1>1, <1>2, <1>3, <1>4, <1>5 DEF StarFacts, StarsAccounted, TypeOK
<1>8. UpvotesCounted'
    BY <1>1, <1>6 DEF StarFacts, UpvotesCounted, Undisturbed, Regular
<1> QED BY <1>7, <1>8 DEF StarFacts

\* A star is inserted, but not yet counted.
LEMMA StarsInsert ==
    ASSUME Structure, StarFacts, [Next]_vars, Regular', NEW r \in Requests,
           Insert(r), op[r] = "star"
    PROVE  StarFacts'
<1> USE DEF Insert, Goto, history, Structure
<1>1. Regular
    BY RegularBefore
<1>2. Unstarring' = Unstarring
    BY DEF Unstarring, TypeOK
<1>3. r \notin stars \cup {doc[q] : q \in Unstarring}
    BY StarsNamed
<1>4. Upvoters' = Upvoters
    BY <1>2, <1>3, StarsNamed DEF Upvoters, TypeOK
<1>5. StarsAccounted'
    BY <1>1, <1>2, <1>3 DEF StarFacts, StarsAccounted, TypeOK
<1>6. UpvotesCounted'
    BY <1>1, <1>4 DEF StarFacts, UpvotesCounted, Undisturbed, Regular
<1> QED BY <1>5, <1>6 DEF StarFacts

\* A star is removed, but still counted.
LEMMA StarsRemove ==
    ASSUME Structure, StarFacts, [Next]_vars, Regular', NEW r \in Requests,
           Remove(r), op[r] = "unstar"
    PROVE  StarFacts'
<1> USE DEF Remove, Goto, GoesOn, Structure
<1>1. Regular
    BY RegularBefore
<1>2. doc[r] \in stars
    BY DEF Regular
<1>3. Unstarring' = Unstarring \cup {r} /\ r \notin Unstarring
    BY DEF Unstarring, TypeOK
<1>4. stars' \cup {doc'[q] : q \in Unstarring'} = stars \cup {doc[q] : q \in Unstarring}
    BY <1>2, <1>3
<1>5. Upvoters' = Upvoters
    BY <1>4, StarsNamed DEF Upvoters, TypeOK
<1>6. StarsAccounted'
    BY <1>1, <1>2, <1>3, <1>4 DEF StarFacts, StarsAccounted, TypeOK
<1>7. UpvotesCounted'
    BY <1>1, <1>5 DEF StarFacts, UpvotesCounted, Undisturbed, Regular
<1> QED BY <1>6, <1>7 DEF StarFacts

\* The counter follows.
LEMMA StarsWrite ==
    ASSUME Structure, StarFacts, [Next]_vars, Regular', NEW r \in Requests,
           Write(r), op[r] \in {"star", "unstar"}
    PROVE  StarFacts'
<1> USE DEF Structure
<1>1. Regular
    BY RegularBefore
<1>2. /\ pc[r] = "write" /\ pc' = [pc EXCEPT ![r] = "done"]
      /\ UNCHANGED <<stars, op, doc>>
      /\ "upvote" \notin lost' => "upvote" \notin lost
      /\ op[r] = "unstar" => doc[r] \in Upvoters
    BY DEF Write, Goto, documents, Regular
<1>3. post' \in Changed(copy[r], op[r]) /\ copy[r] \in Post
    BY <1>1, WriteStores DEF Regular
<1>4. "upvote" \notin lost' =>
          post'.upvote = IF op[r] = "star" THEN post.upvote + 1 ELSE post.upvote - 1
    BY <1>3, ChangedCounters, WriteStores
<1>5. CASE op[r] = "star"
    <2>1. Unstarring' = Unstarring
        BY <1>2, <1>5 DEF Unstarring, TypeOK
    <2>2. r \in stars \cup {doc[q] : q \in Unstarring} /\ r \notin Upvoters
        BY <1>1, <1>2, <1>5 DEF StarFacts, StarsAccounted, Upvoters
    <2>3. Upvoters' = Upvoters \cup {r}
        BY <1>2, <2>1, <2>2, StarsNamed DEF Upvoters, TypeOK
    <2>4. /\ Cardinality(Upvoters') = Cardinality(Upvoters) + 1
          /\ Cardinality(Upvoters) \in Nat
        BY <2>2, <2>3, StarsNamed, Counted
    <2>5. StarsAccounted'
        BY <1>1, <1>2, <2>1 DEF StarFacts, StarsAccounted, TypeOK
    <2>6. UpvotesCounted'
        BY <1>1, <1>2, <1>4, <1>5, <2>4 DEF StarFacts, UpvotesCounted, Undisturbed, Regular
    <2> QED BY <2>5, <2>6 DEF StarFacts
<1>6. CASE op[r] = "unstar"
    <2>1. Unstarring' = Unstarring \ {r} /\ r \in Unstarring
        BY <1>2, <1>6 DEF Unstarring, TypeOK
    <2>2. doc[r] \in Upvoters
        BY <1>2, <1>6
    <2>3. doc[r] \notin stars /\ \A q \in Unstarring' : doc[q] # doc[r]
        BY <1>1, <2>1 DEF StarFacts, StarsAccounted
    <2>4. stars' \cup {doc'[q] : q \in Unstarring'}
          = (stars \cup {doc[q] : q \in Unstarring}) \ {doc[r]}
        BY <1>2, <2>1, <2>3
    <2>5. Upvoters' = Upvoters \ {doc[r]}
        BY <1>2, <1>6, <2>4, StarsNamed DEF Upvoters, TypeOK
    <2>6. /\ Cardinality(Upvoters') = Cardinality(Upvoters) - 1
          /\ Cardinality(Upvoters) \in Nat
        BY <2>2, <2>5, StarsNamed, Counted
    <2>7. doc[r] \in Requests /\ pc[doc[r]] # "write"
        BY <2>2, StarsNamed DEF Upvoters
    <2>8. StarsAccounted'
        BY <1>1, <1>2, <1>6, <2>1, <2>4, <2>7 DEF StarFacts, StarsAccounted, TypeOK
    <2>9. UpvotesCounted'
        BY <1>1, <1>2, <1>4, <1>6, <2>6 DEF StarFacts, UpvotesCounted, Undisturbed, Regular
    <2> QED BY <2>8, <2>9 DEF StarFacts
<1> QED BY <1>5, <1>6

LEMMA StarsStep ==
    ASSUME Structure, StarFacts, [Next]_vars
    PROVE  StarFacts'
<1>0. CASE ~Regular'
    BY <1>0 DEF StarFacts, StarsAccounted, UpvotesCounted, Undisturbed, Regular
<1> SUFFICES ASSUME Regular' PROVE StarFacts'
    BY <1>0
<1> USE DEF Structure
<1>1. CASE UNCHANGED vars
    BY <1>1 DEF vars, documents, request, history, StarFacts, StarsAccounted, UpvotesCounted,
       Undisturbed, Regular, Upvoters, Unstarring
<1>2. ASSUME NEW r \in Requests,
             CallStar(r) \/ CallOnComment(r) \/ CallDeleteReply(r)
             \/ CallDeleteRepost(r) \/ CallRetweet(r) \/ CallOnPost(r)
      PROVE  StarFacts'
    BY <1>2, Calls, StarsCall
<1>3. ASSUME NEW r \in Requests, Step(r)
      PROVE  StarFacts'
    <2>1. CASE Read(r)
        <3>1. Regular /\ post.del = 0
            BY RegularBefore DEF Regular
        <3>2. op[r] = "unstar" => pc'[r] = "write"
            BY <2>1, <3>1 DEF Read, Goto, Found, Target, Answered, Refused, AfterRead, Reposting,
               TypeOK
        <3>3. Unstarring' = Unstarring
            BY <2>1, <3>2 DEF Read, Goto, Unstarring, TypeOK
        <3>4. op[r] = "star" => pc'[r] # "write"
            BY <2>1 DEF Read, Goto, AfterRead, TypeOK
        <3>5. /\ stars' = stars /\ doc' = doc /\ op' = op /\ post' = post /\ lost' = lost
              /\ pc[r] = "read" /\ \A q \in Requests : q # r => pc'[q] = pc[q]
            BY <2>1 DEF Read, Goto, documents, TypeOK
        <3> QED BY <3>3, <3>4, <3>5, StarsSame
    <2>2. CASE Insert(r)
        <3>1. CASE op[r] = "star"
            BY <2>2, <3>1, StarsInsert
        <3>2. CASE op[r] # "star"
            <4>1. Unstarring' = Unstarring
                BY <2>2 DEF Insert, Goto, Unstarring, PlacesFit, TypeOK
            <4>2. /\ stars' = stars /\ doc' = doc /\ op' = op /\ post' = post /\ lost' = lost
                  /\ \A q \in Requests : q # r => pc'[q] = pc[q]
                BY <2>2, <3>2 DEF Insert, Goto, history, TypeOK
            <4> QED BY <3>2, <4>1, <4>2, StarsSame
        <3> QED BY <3>1, <3>2
    <2>3. CASE Remove(r)
        <3>1. CASE op[r] = "unstar"
            BY <2>3, <3>1, StarsRemove
        <3>2. CASE op[r] # "unstar"
            <4>1. Unstarring' = Unstarring
                BY <2>3, <3>2 DEF Remove, Goto, Unstarring, TypeOK
            <4>2. op[r] # "star"
                BY <2>3 DEF Remove, PlacesFit
            <4> QED BY <2>3, <3>2, <4>1, <4>2, StarsSame DEF Remove, Goto, TypeOK
        <3> QED BY <3>1, <3>2
    <2>4. CASE Write(r)
        <3>1. CASE op[r] \in {"star", "unstar"}
            BY <2>4, <3>1, StarsWrite
        <3>2. CASE op[r] \notin {"star", "unstar"}
            <4>1. Unstarring' = Unstarring
                BY <2>4, <3>2 DEF Write, Goto, Unstarring, TypeOK
            <4>2. post' \in Changed(copy[r], op[r]) /\ copy[r] \in Post
                BY <2>4, RegularBefore, WriteStores DEF Regular
            <4>3. "upvote" \notin lost' => post'.upvote = post.upvote
                BY <2>4, <3>2, <4>2, ChangedCounters, WriteStores
            <4> QED BY <2>4, <3>2, <4>1, <4>3, StarsSame DEF Write, Goto, documents, TypeOK
        <3> QED BY <3>1, <3>2
    <2>5. CASE Refer(r)
        <3>1. Unstarring' = Unstarring
            BY <2>5 DEF Refer, Goto, Unstarring, TypeOK
        <3>2. op[r] \in Reposting /\ post'.upvote = post.upvote
            BY <2>5, ReferStores
        <3> QED BY <2>5, <3>1, <3>2, StarsSame DEF Refer, Goto, Reposting, TypeOK
    <2>6. CASE Gather(r)
        <3>1. Unstarring' = Unstarring
            BY <2>6 DEF Gather, Goto, Unstarring, TypeOK
        <3> QED BY <2>6, <3>1, StarsSame DEF Gather, Goto, documents, history, TypeOK
    <2>7. ~Mark(r)
        BY DEF Mark, Regular, TypeOK, Post
    <2> QED BY <1>3, <2>1, <2>2, <2>3, <2>4, <2>5, <2>6, <2>7 DEF Step
<1>4. ASSUME NEW r \in Requests PROVE ~Fail(r)
    BY DEF Fail, Regular, TypeOK
<1> QED BY <1>1, <1>2, <1>3, <1>4 DEF Next

-----------------------------------------------------------------------------
(* Comments and replies. *)

CommentFacts == CommentsAccounted /\ CommentsCounted

\* What is counted as a comment or a reply, or is about to be, was made by one.
LEMMA SpokenNamed ==
    ASSUME Structure
    PROVE  /\ Spoken \subseteq Requests
           /\ \A c \in comments \cup {doc[r] : r \in Uncommenting} :
                  c \in Requests /\ op[c] = "comment" /\ pc[c] \in {"write", "done"}
           /\ \A p \in replies \cup {doc[r] : r \in Unreplying} :
                  p \in Requests /\ op[p] = "reply" /\ pc[p] \in {"write", "done"}
BY DEF Structure, TypeOK, DocumentsNamed, DocsNamed, Spoken, Uncommenting, Unreplying

\* A step that leaves comments, replies, deletions and the counter as they are.
LEMMA CommentsSame ==
    ASSUME Structure, CommentFacts, [Next]_vars, Regular',
           comments' = comments, replies' = replies, doc' = doc, op' = op,
           Uncommenting' = Uncommenting, Unreplying' = Unreplying,
           NEW r \in Requests,
           \A q \in Requests : q # r => pc'[q] = pc[q],
           op[r] \in {"comment", "reply"} => pc[r] # "write" /\ pc'[r] # "write",
           "comment" \notin lost' => "comment" \notin lost /\ post'.comment = post.comment
    PROVE  CommentFacts'
<1>1. Regular
    BY RegularBefore
<1>2. Spoken' = Spoken
    BY SpokenNamed DEF Spoken
<1>3. CommentsAccounted'
    BY <1>1 DEF CommentFacts, CommentsAccounted
<1>4. CommentsCounted'
    BY <1>1, <1>2 DEF CommentFacts, CommentsCounted, Undisturbed, Regular
<1> QED BY <1>3, <1>4 DEF CommentFacts

LEMMA CommentsCall ==
    ASSUME Structure, CommentFacts, [Next]_vars, Regular', NEW r \in Requests,
           NEW o, NEW d, NEW label, CallOf(o, d, label), Call(r, o, d, label)
    PROVE  CommentFacts'
<1> USE DEF Call, CallOf, Goto, documents, history, Structure
<1>1. Regular
    BY RegularBefore
<1>2. Uncommenting' = Uncommenting /\ Unreplying' = Unreplying
    BY DEF Uncommenting, Unreplying, TypeOK
<1>3. /\ r \notin Uncommenting \cup Unreplying
      /\ r \notin comments \cup {doc[q] : q \in Uncommenting}
      /\ r \notin replies \cup {doc[q] : q \in Unreplying}
    BY SpokenNamed DEF Uncommenting, Unreplying
<1>4. \A q \in Uncommenting \cup Unreplying : doc'[q] = doc[q]
    BY <1>3 DEF TypeOK, Uncommenting, Unreplying
<1>5. /\ {doc'[q] : q \in Uncommenting} = {doc[q] : q \in Uncommenting}
      /\ {doc'[q] : q \in Unreplying} = {doc[q] : q \in Unreplying}
    BY <1>4
<1>6. Spoken' = Spoken
    BY <1>2, <1>3, <1>5, SpokenNamed DEF Spoken, TypeOK
<1>7. CommentsAccounted'
    BY <1>1, <1>2, <1>3, <1>4, <1>5 DEF CommentFacts, CommentsAccounted, TypeOK
<1>8. CommentsCounted'
    BY <1>1, <1>6 DEF CommentFacts, CommentsCounted, Undisturbed, Regular
<1> QED BY <1>7, <1>8 DEF CommentFacts

\* A comment or reply is inserted, but not yet counted.
LEMMA CommentsInsert ==
    ASSUME Structure, CommentFacts, [Next]_vars, Regular', NEW r \in Requests,
           Insert(r), op[r] \in {"comment", "reply"}
    PROVE  CommentFacts'
<1> USE DEF Insert, Goto, history, Structure
<1>1. Regular
    BY RegularBefore
<1>2. Uncommenting' = Uncommenting /\ Unreplying' = Unreplying
    BY DEF Uncommenting, Unreplying, TypeOK
<1>3. /\ r \notin comments \cup {doc[q] : q \in Uncommenting}
      /\ r \notin replies \cup {doc[q] : q \in Unreplying}
    BY SpokenNamed
<1>4. Spoken' = Spoken
    BY <1>2, <1>3, SpokenNamed DEF Spoken, TypeOK
<1>5. CommentsAccounted'
    BY <1>1, <1>2, <1>3 DEF CommentFacts, CommentsAccounted, TypeOK
<1>6. CommentsCounted'
    BY <1>1, <1>4 DEF CommentFacts, CommentsCounted, Undisturbed, Regular
<1> QED BY <1>5, <1>6 DEF CommentFacts

\* A comment that is removed has been counted down already.
LEMMA CommentsRemoveComment ==
    ASSUME Structure, CommentFacts, [Next]_vars, Regular', NEW r \in Requests,
           Remove(r), op[r] = "delcomment"
    PROVE  CommentFacts'
<1> USE DEF Remove, Goto, GoesOn, Structure
<1>1. Regular
    BY RegularBefore
<1>2. Uncommenting' = Uncommenting \ {r} /\ r \in Uncommenting /\ Unreplying' = Unreplying
    BY DEF Uncommenting, Unreplying, TypeOK
<1>3. \A q \in Uncommenting' : doc[q] # doc[r]
    BY <1>1, <1>2 DEF CommentFacts, CommentsAccounted
<1>4. /\ comments' \ {doc'[q] : q \in Uncommenting'} = comments \ {doc[q] : q \in Uncommenting}
      /\ replies' = replies
      /\ {doc'[q] : q \in Unreplying'} = {doc[q] : q \in Unreplying}
    BY <1>2, <1>3
<1>5. Spoken' = Spoken
    BY <1>4, SpokenNamed DEF Spoken, TypeOK
<1>6. CommentsAccounted'
    BY <1>1, <1>2, <1>4 DEF CommentFacts, CommentsAccounted, TypeOK
<1>7. CommentsCounted'
    BY <1>1, <1>5 DEF CommentFacts, CommentsCounted, Undisturbed, Regular
<1> QED BY <1>6, <1>7 DEF CommentFacts

\* A reply that is removed is still counted; one that was removed before is not
\* counted down again.
LEMMA CommentsRemoveReply ==
    ASSUME Structure, CommentFacts, [Next]_vars, Regular', NEW r \in Requests,
           Remove(r), op[r] = "delreply", doc[r] \in replies
    PROVE  CommentFacts'
<1> USE DEF Remove, Goto, GoesOn, Structure
<1>1. Regular
    BY RegularBefore
<1>2. /\ Unreplying' = Unreplying \cup {r} /\ r \notin Unreplying
      /\ Uncommenting' = Uncommenting
    BY DEF Uncommenting, Unreplying, TypeOK
<1>3. /\ comments' \ {doc'[q] : q \in Uncommenting'} = comments \ {doc[q] : q \in Uncommenting}
      /\ replies' \cup {doc'[q] : q \in Unreplying'} = replies \cup {doc[q] : q \in Unreplying}
    BY <1>2
<1>4. Spoken' = Spoken
    BY <1>3, SpokenNamed DEF Spoken, TypeOK
<1>5. CommentsAccounted'
    BY <1>1, <1>2, <1>3 DEF CommentFacts, CommentsAccounted, TypeOK
<1>6. CommentsCounted'
    BY <1>1, <1>4 DEF CommentFacts, CommentsCounted, Undisturbed, Regular
<1> QED BY <1>5, <1>6 DEF CommentFacts

\* The counter goes up with a comment or a reply.
LEMMA CommentsWriteUp ==
    ASSUME Structure, CommentFacts, [Next]_vars, Regular', NEW r \in Requests,
           Write(r), op[r] \in {"comment", "reply"}
    PROVE  CommentFacts'
<1> USE DEF Structure
<1>1. Regular
    BY RegularBefore
<1>2. /\ pc[r] = "write" /\ pc' = [pc EXCEPT ![r] = "done"]
      /\ UNCHANGED <<comments, replies, op, doc>>
      /\ "comment" \notin lost' => "comment" \notin lost
    BY DEF Write, Goto, documents
<1>3. post' \in Changed(copy[r], op[r]) /\ copy[r] \in Post
    BY <1>1, WriteStores DEF Regular
<1>4. "comment" \notin lost' => post'.comment = post.comment + 1
    BY <1>3, ChangedCounters, WriteStores
<1>5. Uncommenting' = Uncommenting /\ Unreplying' = Unreplying
    BY <1>2 DEF Uncommenting, Unreplying, TypeOK
<1>6. /\ op[r] = "comment" => r \in comments \ {doc[q] : q \in Uncommenting}
      /\ op[r] = "reply" => r \in replies \cup {doc[q] : q \in Unreplying}
      /\ r \notin Spoken
    BY <1>1, <1>2 DEF CommentFacts, CommentsAccounted, Spoken
<1>7. Spoken' = Spoken \cup {r}
    BY <1>2, <1>5, <1>6, SpokenNamed DEF Spoken, TypeOK
<1>8. /\ Cardinality(Spoken') = Cardinality(Spoken) + 1
      /\ Cardinality(Spoken) \in Nat
    BY <1>6, <1>7, SpokenNamed, Counted
<1>9. CommentsAccounted'
    BY <1>1, <1>2, <1>5 DEF CommentFacts, CommentsAccounted, TypeOK
<1>10. CommentsCounted'
    BY <1>1, <1>2, <1>4, <1>8 DEF CommentFacts, CommentsCounted, Undisturbed, Regular
<1> QED BY <1>9, <1>10 DEF CommentFacts

\* The counter goes down with a comment that is still there, or a reply that is not.
LEMMA CommentsWriteDown ==
    ASSUME Structure, CommentFacts, [Next]_vars, Regular', NEW r \in Requests,
           Write(r), op[r] \in {"delcomment", "delreply"}
    PROVE  CommentFacts'
<1> USE DEF Structure
<1>1. Regular
    BY RegularBefore
<1>2. /\ pc[r] = "write"
      /\ pc' = [pc EXCEPT ![r] = IF op[r] = "delcomment" THEN "remove" ELSE "done"]
      /\ UNCHANGED <<comments, replies, op, doc>>
      /\ "comment" \notin lost' => "comment" \notin lost
      /\ doc[r] \in Spoken
    BY DEF Write, Goto, documents, Regular
<1>3. post' \in Changed(copy[r], op[r]) /\ copy[r] \in Post
    BY <1>1, WriteStores DEF Regular
<1>4. "comment" \notin lost' => post'.comment = post.comment - 1
    BY <1>3, ChangedCounters, WriteStores
<1>5. doc[r] \in Requests /\ pc[doc[r]] # "write" /\ doc[r] # r
    BY <1>2, SpokenNamed DEF Spoken
<1>6. Spoken' = Spoken \ {doc[r]} /\ CommentsAccounted'
    <2>1. CASE op[r] = "delcomment"
        <3>1. /\ Uncommenting' = Uncommenting \cup {r} /\ r \notin Uncommenting
              /\ Unreplying' = Unreplying
            BY <1>2, <2>1 DEF Uncommenting, Unreplying, TypeOK
        <3>2. op[doc[r]] = "comment"
            BY <2>1 DEF DocsNamed
        <3>3. doc[r] \in comments \ {doc[q] : q \in Uncommenting}
            BY <1>2, <3>2, SpokenNamed DEF Spoken
        <3>4. /\ comments' \ {doc'[q] : q \in Uncommenting'}
                 = (comments \ {doc[q] : q \in Uncommenting}) \ {doc[r]}
              /\ replies' \cup {doc'[q] : q \in Unreplying'}
                 = replies \cup {doc[q] : q \in Unreplying}
            BY <1>2, <3>1
        <3>5. Spoken' = Spoken \ {doc[r]}
            BY <1>2, <2>1, <3>2, <3>4, SpokenNamed DEF Spoken, TypeOK
        <3>6. CommentsAccounted'
            BY <1>1, <1>2, <1>5, <2>1, <3>1, <3>3, <3>4
            DEF CommentFacts, CommentsAccounted, TypeOK
        <3> QED BY <3>5, <3>6
    <2>2. CASE op[r] = "delreply"
        <3>1. /\ Unreplying' = Unreplying \ {r} /\ r \in Unreplying
              /\ Uncommenting' = Uncommenting
            BY <1>2, <2>2 DEF Uncommenting, Unreplying, TypeOK
        <3>2. op[doc[r]] = "reply"
            BY <2>2 DEF DocsNamed
        <3>3. doc[r] \notin replies /\ \A q \in Unreplying' : doc[q] # doc[r]
            BY <1>1, <3>1 DEF CommentFacts, CommentsAccounted
        <3>4. /\ comments' \ {doc'[q] : q \in Uncommenting'}
                 = comments \ {doc[q] : q \in Uncommenting}
              /\ replies' \cup {doc'[q] : q \in Unreplying'}
                 = (replies \cup {doc[q] : q \in Unreplying}) \ {doc[r]}
            BY <1>2, <3>1, <3>3
        <3>5. Spoken' = Spoken \ {doc[r]}
            BY <1>2, <2>2, <3>2, <3>4, SpokenNamed DEF Spoken, TypeOK
        <3>6. CommentsAccounted'
            BY <1>1, <1>2, <1>5, <2>2, <3>1, <3>4
            DEF CommentFacts, CommentsAccounted, TypeOK
        <3> QED BY <3>5, <3>6
    <2> QED BY <2>1, <2>2
<1>7. /\ Cardinality(Spoken') = Cardinality(Spoken) - 1
      /\ Cardinality(Spoken) \in Nat
    BY <1>2, <1>6, SpokenNamed, Counted
<1>8. CommentsCounted'
    BY <1>1, <1>2, <1>4, <1>7 DEF CommentFacts, CommentsCounted, Undisturbed, Regular
<1> QED BY <1>6, <1>8 DEF CommentFacts

LEMMA CommentsStep ==
    ASSUME Structure, CommentFacts, [Next]_vars
    PROVE  CommentFacts'
<1>0. CASE ~Regular'
    BY <1>0 DEF CommentFacts, CommentsAccounted, CommentsCounted, Undisturbed, Regular
<1> SUFFICES ASSUME Regular' PROVE CommentFacts'
    BY <1>0
<1> USE DEF Structure
<1>1. CASE UNCHANGED vars
    BY <1>1 DEF vars, documents, request, history, CommentFacts, CommentsAccounted,
       CommentsCounted, Undisturbed, Regular, Spoken, Uncommenting, Unreplying
<1>2. ASSUME NEW r \in Requests,
             CallStar(r) \/ CallOnComment(r) \/ CallDeleteReply(r)
             \/ CallDeleteRepost(r) \/ CallRetweet(r) \/ CallOnPost(r)
      PROVE  CommentFacts'
    BY <1>2, Calls, CommentsCall
<1>3. ASSUME NEW r \in Requests, Step(r)
      PROVE  CommentFacts'
    <2>1. CASE Read(r)
        <3>1. Regular /\ Regular' /\ post.del = 0
            BY RegularBefore DEF Regular
        <3>2. op[r] = "delreply" => pc'[r] = "write"
            BY <2>1, <3>1 DEF Read, Goto, Found, Target, Regular, Refused, AfterRead, Reposting,
               TypeOK
        <3>3. op[r] = "delcomment" => pc'[r] # "remove"
            BY <2>1, <3>1 DEF Read, Goto, Found, Target, Answered, AfterRead, Reposting, TypeOK
        <3>4. Uncommenting' = Uncommenting /\ Unreplying' = Unreplying
            BY <2>1, <3>2, <3>3 DEF Read, Goto, Uncommenting, Unreplying, TypeOK
        <3>5. op[r] \in {"comment", "reply"} => pc[r] # "write" /\ pc'[r] # "write"
            BY <2>1 DEF Read, Goto, AfterRead, TypeOK
        <3> QED BY <2>1, <3>4, <3>5, CommentsSame DEF Read, Goto, documents, TypeOK
    <2>2. CASE Insert(r)
        <3>1. CASE op[r] \in {"comment", "reply"}
            BY <2>2, <3>1, CommentsInsert
        <3>2. CASE op[r] \notin {"comment", "reply"}
            <4>1. Uncommenting' = Uncommenting /\ Unreplying' = Unreplying
                BY <2>2 DEF Insert, Goto, Uncommenting, Unreplying, PlacesFit, TypeOK
            <4> QED BY <2>2, <3>2, <4>1, CommentsSame DEF Insert, Goto, history, TypeOK
        <3> QED BY <3>1, <3>2
    <2>3. CASE Remove(r)
        <3>1. CASE op[r] = "delcomment"
            BY <2>3, <3>1, CommentsRemoveComment
        <3>2. CASE op[r] = "delreply" /\ doc[r] \in replies
            BY <2>3, <3>2, CommentsRemoveReply
        <3>3. CASE op[r] # "delcomment" /\ ~(op[r] = "delreply" /\ doc[r] \in replies)
            <4>1. Uncommenting' = Uncommenting /\ Unreplying' = Unreplying
                BY <2>3, <3>3 DEF Remove, Goto, GoesOn, Uncommenting, Unreplying, TypeOK
            <4>2. op[r] \notin {"comment", "reply"}
                BY <2>3 DEF Remove, PlacesFit
            <4>3. replies' = replies /\ comments' = comments
                BY <2>3, <3>3 DEF Remove
            <4> QED BY <2>3, <4>1, <4>2, <4>3, CommentsSame DEF Remove, Goto, TypeOK
        <3> QED BY <3>1, <3>2, <3>3
    <2>4. CASE Write(r)
        <3>1. CASE op[r] \in {"comment", "reply"}
            BY <2>4, <3>1, CommentsWriteUp
        <3>2. CASE op[r] \in {"delcomment", "delreply"}
            BY <2>4, <3>2, CommentsWriteDown
        <3>3. CASE op[r] \notin {"comment", "reply", "delcomment", "delreply"}
            <4>1. Uncommenting' = Uncommenting /\ Unreplying' = Unreplying
                BY <2>4, <3>3 DEF Write, Goto, Uncommenting, Unreplying, TypeOK
            <4>2. post' \in Changed(copy[r], op[r]) /\ copy[r] \in Post
                BY <2>4, RegularBefore, WriteStores DEF Regular
            <4>3. "comment" \notin lost' => post'.comment = post.comment
                BY <2>4, <3>3, <4>2, ChangedCounters, WriteStores
            <4> QED BY <2>4, <3>3, <4>1, <4>3, CommentsSame DEF Write, Goto, documents, TypeOK
        <3> QED BY <3>1, <3>2, <3>3
    <2>5. CASE Refer(r)
        <3>1. Uncommenting' = Uncommenting /\ Unreplying' = Unreplying
            BY <2>5 DEF Refer, Goto, Uncommenting, Unreplying, TypeOK
        <3>2. op[r] \in Reposting /\ post'.comment = post.comment
            BY <2>5, ReferStores
        <3> QED BY <2>5, <3>1, <3>2, CommentsSame DEF Refer, Goto, Reposting, TypeOK
    <2>6. CASE Gather(r)
        <3>1. Uncommenting' = Uncommenting /\ Unreplying' = Unreplying
            BY <2>6 DEF Gather, Goto, Uncommenting, Unreplying, TypeOK
        <3> QED BY <2>6, <3>1, CommentsSame DEF Gather, Goto, documents, history, TypeOK
    <2>7. ~Mark(r)
        BY DEF Mark, Regular, TypeOK, Post
    <2> QED BY <1>3, <2>1, <2>2, <2>3, <2>4, <2>5, <2>6, <2>7 DEF Step
<1>4. ASSUME NEW r \in Requests PROVE ~Fail(r)
    BY DEF Fail, Regular, TypeOK
<1> QED BY <1>1, <1>2, <1>3, <1>4 DEF Next

-----------------------------------------------------------------------------
(* The theorems. *)

LEMMA InvariantInit == ASSUME Init PROVE IInv
<1>1. Structure
    BY StructureInit
<1>2. /\ FreshSeen /\ GatheredOrLate /\ RetweetOnce /\ OrphanIsLate
      /\ StarsAccounted /\ CommentsAccounted
    BY DEF Init, FreshSeen, GatheredOrLate, RetweetOnce, OrphanIsLate, StarsAccounted,
       CommentsAccounted, Unstarring, Uncommenting, Unreplying
<1>3. Upvoters = {} /\ Spoken = {} /\ OfPost = {}
    BY DEF Init, Upvoters, Unstarring, Spoken, Unreplying, OfPost
<1>4. post.upvote = 0 /\ post.comment = 0 /\ post.ref = 0
    BY DEF Init, NewPost
<1>5. UpvotesCounted /\ CommentsCounted /\ RefsCounted
    BY <1>3, <1>4, FS_EmptySet DEF UpvotesCounted, CommentsCounted, RefsCounted
<1>6. CapHolds
    BY <1>4, PostAssumption DEF Init, CapHolds
<1> QED BY <1>1, <1>2, <1>5, <1>6 DEF IInv

LEMMA InvariantStep == ASSUME IInv, [Next]_vars PROVE IInv'
<1>1. Structure /\ ReferFacts /\ StarFacts /\ CommentFacts /\ CapHolds /\ RefsCounted
    BY DEF IInv, ReferFacts, StarFacts, CommentFacts
<1>2. Structure' /\ ReferFacts'
    <2>1. CASE UNCHANGED vars
        BY <1>1, <2>1 DEF vars, documents, request, history, Structure, TypeOK, PlacesFit,
           DocumentsNamed, DocsNamed, CopiesFit, Target, ReferFacts, FreshSeen, GatheredOrLate,
           RetweetOnce, OrphanIsLate
    <2>2. ASSUME NEW r \in Requests,
                 CallStar(r) \/ CallOnComment(r) \/ CallDeleteReply(r)
                 \/ CallDeleteRepost(r) \/ CallRetweet(r) \/ CallOnPost(r)
          PROVE  Structure' /\ ReferFacts'
        <3>1. PICK o, d, label : CallOf(o, d, label) /\ Call(r, o, d, label)
            BY <1>1, <2>2, Calls DEF Structure
        <3> QED BY <1>1, <3>1, StructureCall, RepostsOther
    <2>3. ASSUME NEW r \in Requests, Step(r) \/ Fail(r)
          PROVE  Structure' /\ ReferFacts'
        <3>1. Structure'
            BY <1>1, <2>3, StructureRead, StructureInsert, StructureRemove, StructureWrite,
               StructureRefer, StructureDelete, StructureFail DEF Step
        <3>2. ReferFacts'
            BY <1>1, <2>3, RepostsRefer, RepostsOther DEF Step
        <3> QED BY <3>1, <3>2
    <2> QED BY <2>1, <2>2, <2>3 DEF Next
<1>3. StarFacts' /\ CommentFacts' /\ CapHolds' /\ RefsCounted'
    BY <1>1, StarsStep, CommentsStep, CapStep, RefsStep
<1> QED BY <1>2, <1>3 DEF IInv, ReferFacts, StarFacts, CommentFacts

\* The invariant holds in every reachable state.
THEOREM Invariant == Spec => []IInv
<1>1. Init => IInv
    BY InvariantInit
<1>2. IInv /\ [Next]_vars => IInv'
    BY InvariantStep
<1> QED BY <1>1, <1>2, PTL DEF Spec

\* The variables have their types.
THEOREM TypeCorrect == Spec => []TypeOK
<1>1. IInv => TypeOK
    BY DEF IInv, Structure
<1> QED BY <1>1, Invariant, PTL

\* UpvoteCount is the number of stars counted, wherever no copy was stale.
THEOREM UpvotesAreRight == Spec => []UpvotesCounted
<1>1. IInv => UpvotesCounted
    BY DEF IInv
<1> QED BY <1>1, Invariant, PTL

\* CommentCount is the number of comments and replies, wherever no copy was stale and
\* nothing failed half-way.
THEOREM CommentsAreRight == Spec => []CommentsCounted
<1>1. IInv => CommentsCounted
    BY DEF IInv
<1> QED BY <1>1, Invariant, PTL

\* No more comments than the cap are counted.
THEOREM CapIsKept == Spec => []CapKept
<1>1. IInv => CapKept
    BY DEF IInv, CapKept, CommentsCounted, CapHolds
<1> QED BY <1>1, Invariant, PTL

\* RefCount is the number of reposts ever made of the post itself, unless a write
\* outside a transaction took it back.
THEOREM RefsAreRight == Spec => []RefsCounted
<1>1. IInv => RefsCounted
    BY DEF IInv
<1> QED BY <1>1, Invariant, PTL

\* A user's live retweets of the post, if there are two, were made of different documents
\* by transactions that did not see each other's.
THEOREM RetweetsAreUnique == Spec => []RetweetOnce
<1>1. IInv => RetweetOnce
    BY DEF IInv
<1> QED BY <1>1, Invariant, PTL

\* A retweet outlives its post only through the window of the deletion, or was made of
\* one that did.
THEOREM OrphansAreLate == Spec => []OrphanIsLate
<1>1. IInv => OrphanIsLate
    BY DEF IInv
<1> QED BY <1>1, Invariant, PTL

\* A deleted post is never changed.
THEOREM DeletionIsFinal == Spec => StaysDeleted
<1>1. IInv /\ [Next]_vars => [post.del = 1 => post' = post]_vars
    BY DeletedStays DEF IInv
<1> QED BY <1>1, Invariant, PTL DEF Spec, StaysDeleted
=============================================================================
